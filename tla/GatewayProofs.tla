---------------------------- MODULE GatewayProofs ----------------------------
(***************************************************************************)
(* The gateway, for any number of connections, users, addresses and rooms, *)
(* and the browser at it, for any number of texts, addresses and names.    *)
(*                                                                         *)
(* Names and presence rest on two facts about the steps: only a login and  *)
(* the end of a WebSocket change who a session is or who is listed, and    *)
(* only a login changes accounts.                                          *)
(*                                                                         *)
(* Where messages are heard rests on a table, for each connection, of who  *)
(* the server will take it for after each of the frames under way: writing *)
(* a frame adds an entry at its end, taking one up removes the first, and  *)
(* neither changes the rest, whatever happens on other connections.        *)
(*                                                                         *)
(* The second half is the browser's: ClientInv, by which its steps are the *)
(* gateway's too, the types hold, no feed holds another user's mail, and the*)
(* page shows what the server knows once nothing is under way. Its parts:  *)
(*   Sound    types, and no persisted feed with somebody else's mail;      *)
(*   NoStray  the server files nobody under General who is elsewhere;      *)
(*   Fresh    who is not logged in is told nothing but what is said and    *)
(*            noticed in rooms;                                            *)
(*   Apart    who is logged in is told nothing that is somebody else's, and*)
(*            the gateway and the server know him by the name he sees;     *)
(*   Once     a name is the first thing asked for on a WebSocket, and is   *)
(*            asked for once, as long as the page can show the room;       *)
(*   Places   the requests, frames and answers under way lead from the room*)
(*            that the page shows to the one the server will have him in.  *)
(***************************************************************************)
EXTENDS ChatClient, SequenceTheorems, WellFoundedInduction, TLAPS

Accounts == UNION {[D -> Address \cup {NoEmail}] : D \in SUBSET Handle}
Locks == UNION {[D -> Password \cup {NoPassword}] : D \in SUBSET RoomKey}

Session == [open : BOOLEAN, username : Handle \cup {NoHandle},
            owner : Address \cup {NoEmail}, room : RoomName, status : Status]

Entry == [room : RoomName, status : Status]

Types ==
    /\ store \in Data
    /\ session \in [Client -> Session]
    /\ DOMAIN presence \subseteq Handle
    /\ presence \in [DOMAIN presence -> Entry]

(* Who a session is and who is listed; rooms and states may change.        *)
SameSession(c) ==
    /\ session'[c].open = session[c].open
    /\ session'[c].username = session[c].username
    /\ session'[c].owner = session[c].owner

SamePeople ==
    /\ \A c \in Client : SameSession(c)
    /\ DOMAIN presence' = DOMAIN presence
    /\ store'.users = store.users

------------------------------------------------------------------------------
(* What the store's methods do keeps the store within its schema.          *)

(* The last elements of a sequence are a sequence.                         *)
LEMMA SliceType ==
    ASSUME NEW S, NEW s \in Seq(S), NEW n \in Nat
    PROVE  Slice(s, n) \in Seq(S)
  <1>1. Len(s) \in Nat /\ \A i \in 1 .. Len(s) : s[i] \in S
    BY LenProperties, ElementOfSeq
  <1>2. CASE Len(s) > n
    <2> DEFINE m == Len(s) - n + 1
    <2>1. m \in Int /\ \A i \in m .. Len(s) : s[i] \in S
      BY <1>1, <1>2
    <2> HIDE DEF m
    <2>2. SubSeq(s, m, Len(s)) \in Seq(S)
      BY <1>1, <2>1, SubSeqProperties
    <2> QED
      BY <1>2, <2>2 DEF Slice, m
  <1>3. CASE ~(Len(s) > n)
    BY <1>3 DEF Slice
  <1> QED
    BY <1>2, <1>3

(* An account that is granted fits the schema.                             *)
LEMMA WithAccountType ==
    ASSUME NEW d \in Data, NEW u \in Username, NEW e \in Email,
           AccountGranted(d, u, e)
    PROVE  WithAccount(d, u, e) \in Data
  <1> DEFINE h == HandleOf[u]
             a == CleanEmail[e]
             kept == IF h \in DOMAIN d.users THEN DOMAIN d.users
                     ELSE DOMAIN d.users \ FreedHandle(d, a)
             new == [x \in kept \cup {h} |-> IF x = h THEN a ELSE d.users[x]]
  <1>1. h \in Handle /\ a \in Address \cup {NoEmail}
    BY DEF AccountGranted, Handle, Address
  <1>2. PICK D \in SUBSET Handle : d.users \in [D -> Address \cup {NoEmail}]
    BY DEF Data
  <1>3. kept \subseteq D
    BY <1>2
  <1> HIDE DEF h, a, kept
  <1>4. new \in [kept \cup {h} -> Address \cup {NoEmail}]
    BY <1>1, <1>2, <1>3
  <1>5. new \in Accounts
    <2>1. kept \cup {h} \in SUBSET Handle
      BY <1>1, <1>2, <1>3
    <2> QED
      BY <1>4, <2>1 DEF Accounts
  <1> HIDE DEF new
  <1>6. [d EXCEPT !.users = new] \in Data
    BY <1>5 DEF Data, Accounts
  <1>7. WithAccount(d, u, e) = [d EXCEPT !.users = new]
    BY DEF WithAccount, new, kept, h, a
  <1> QED
    BY <1>6, <1>7

(* A room that is made fits the schema, and no other changes.              *)
LEMMA WithRoomType ==
    ASSUME NEW d \in Data, NEW r \in RoomName,
           NEW p \in Password \cup {NoPassword}, RoomGranted(d, r, p)
    PROVE  /\ WithRoom(d, r, p) \in Data
           /\ WithRoom(d, r, p).users = d.users
           /\ WithRoom(d, r, p).messages = d.messages
           /\ \A k \in DOMAIN d.rooms :
                 /\ k \in DOMAIN WithRoom(d, r, p).rooms
                 /\ WithRoom(d, r, p).rooms[k] = d.rooms[k]
  <1> DEFINE k == StoredRoom[r]
             new == [x \in DOMAIN d.rooms \cup {k} |->
                        IF x = k THEN p ELSE d.rooms[x]]
  <1>1. k \in RoomKey
    BY DEF RoomGranted, RoomKey
  <1>2. PICK K \in SUBSET RoomKey : d.rooms \in [K -> Password \cup {NoPassword}]
    BY DEF Data
  <1>3. CASE k \in DOMAIN d.rooms
    BY <1>3 DEF WithRoom
  <1>4. CASE k \notin DOMAIN d.rooms
    <2>1. new \in [K \cup {k} -> Password \cup {NoPassword}]
      BY <1>2
    <2>2. new \in Locks
      BY <1>1, <2>1 DEF Locks
    <2>3. \A x \in DOMAIN d.rooms : x \in DOMAIN new /\ new[x] = d.rooms[x]
      BY <1>4
    <2>4. WithRoom(d, r, p) = [d EXCEPT !.rooms = new]
      BY <1>4 DEF WithRoom
    <2> HIDE DEF new
    <2> QED
      BY <2>2, <2>3, <2>4 DEF Data, Locks
  <1> QED
    BY <1>3, <1>4

(* So does a message, which changes the list only.                         *)
LEMMA WithMessageType ==
    ASSUME NEW d \in Data, NEW x \in Message
    PROVE  /\ WithRoomMessage(d, x) = [d EXCEPT !.messages = Slice(Append(d.messages, x), ChatCap)]
           /\ WithDirectMessage(d, x) = [d EXCEPT !.messages = Slice(Append(d.messages, x), DmCap)]
           /\ WithRoomMessage(d, x) \in Data
           /\ WithDirectMessage(d, x) \in Data
  <1>1. d.messages \in Seq(Message) /\ Append(d.messages, x) \in Seq(Message)
    BY AppendProperties DEF Data
  <1>2. /\ Slice(Append(d.messages, x), ChatCap) \in Seq(Message)
        /\ Slice(Append(d.messages, x), DmCap) \in Seq(Message)
    BY <1>1, SliceType, StoreAssumption
  <1> QED
    BY <1>2 DEF WithRoomMessage, WithDirectMessage, Data

(* What the constructor starts from fits the schema.                       *)
LEMMA DefaultsType ==
    /\ Defaults \in Data
    /\ Defaults.messages = << >>
    /\ DOMAIN Defaults.rooms = DefaultRooms
    /\ OneAccount(Defaults)
  <1> DEFINE nobody == [h \in {} |-> NoEmail]
             open == [r \in DefaultRooms |-> NoPassword]
  <1>1. nobody \in [{} -> Address \cup {NoEmail}] /\ DOMAIN nobody = {}
    OBVIOUS
  <1>2. open \in [DefaultRooms -> Password \cup {NoPassword}] /\ DOMAIN open = DefaultRooms
    OBVIOUS
  <1>3. Defaults = [users |-> nobody, rooms |-> open, messages |-> << >>]
    BY DEF Defaults
  <1> HIDE DEF nobody, open
  <1>4. nobody \in Accounts /\ open \in Locks
    BY <1>1, <1>2, StoreAssumption DEF Accounts, Locks
  <1>5. << >> \in Seq(Message)
    BY EmptySeq
  <1> QED
    BY <1>1, <1>2, <1>3, <1>4, <1>5 DEF Data, Accounts, Locks, OneAccount, Owners

------------------------------------------------------------------------------
(* The closed session is a session.                                        *)
LEMMA ClosedType ==
    /\ Closed \in Session
    /\ Closed.open = FALSE /\ Closed.username = NoHandle /\ Closed.room = General
    /\ NoHandle \notin Handle
  BY GatewayAssumption DEF Closed, Session, Handle

(* No session and nobody present at the start, an empty store.             *)
LEMMA TypesInit == Init => Types
  <1> SUFFICES ASSUME Init PROVE Types
    OBVIOUS
  <1>1. session \in [Client -> Session]
    BY ClosedType DEF Init
  <1>2. DOMAIN presence = {} /\ presence \in [{} -> Entry]
    BY DEF Init
  <1> QED
    BY <1>1, <1>2, DefaultsType DEF Init, Types

(* A login: the session takes the name and the address, and is listed.     *)
LEMMA RegisterStep ==
    ASSUME Types, NEW c \in Client, NEW u \in Username, NEW e \in Email,
           NEW s \in Status, Register(c, u, e, s)
    PROVE  /\ Types'
           /\ session[c].open /\ session'[c].open
           /\ HandleOf[u] \in Handle
           /\ session'[c].username = HandleOf[u]
           /\ session'[c].owner = CleanEmail[e]
           /\ \A d \in Client \ {c} : session'[d] = session[d]
           /\ DOMAIN presence' = DOMAIN presence \cup {HandleOf[u]}
  <1> DEFINE h == HandleOf[u]
             new == [session[c] EXCEPT !.username = h, !.owner = CleanEmail[e],
                                       !.status = s]
  <1>1. h \in Handle /\ CleanEmail[e] \in Address \cup {NoEmail}
    BY DEF Register, AccountGranted, Handle, Address
  <1>2. store' \in Data
    BY WithAccountType DEF Types, Register
  <1>3. session[c] \in Session
    BY DEF Types
  <1>4. /\ new \in Session /\ new.open = session[c].open
        /\ new.username = h /\ new.owner = CleanEmail[e]
    BY <1>1, <1>3 DEF Session
  <1>5. session' = [session EXCEPT ![c] = new]
    BY DEF Register, Types, Session
  <1> HIDE DEF new
  <1>6. /\ session' \in [Client -> Session]
        /\ session'[c] = new
        /\ \A d \in Client \ {c} : session'[d] = session[d]
    BY <1>4, <1>5 DEF Types
  <1>7. [room |-> session[c].room, status |-> s] \in Entry
    BY <1>3 DEF Session, Entry
  <1> HIDE DEF h
  <1>8. /\ DOMAIN presence' = DOMAIN presence \cup {h}
        /\ presence' \in [DOMAIN presence \cup {h} -> Entry]
    <2>1. presence' = [x \in DOMAIN presence \cup {h} |->
              IF x = h THEN [room |-> session[c].room, status |-> s] ELSE presence[x]]
      BY DEF Register, SetPresence, h
    <2> QED
      BY <1>7, <2>1 DEF Types
  <1>9. session[c].open
    BY DEF Register, Asks
  <1> QED
    BY <1>1, <1>2, <1>4, <1>6, <1>8, <1>9 DEF Types, h

(* An entry of the presence map that is updated stays an entry.            *)
LEMMA PresenceKept ==
    ASSUME Types, NEW h \in DOMAIN presence, NEW e \in Entry
    PROVE  /\ DOMAIN [presence EXCEPT ![h] = e] = DOMAIN presence
           /\ [presence EXCEPT ![h] = e] \in [DOMAIN presence -> Entry]
  BY DEF Types

(* A change of room.                                                       *)
LEMMA GoToStep ==
    ASSUME Types, NEW c \in Client, NEW r \in RoomName, GoTo(c, r),
           store' \in Data, store'.users = store.users
    PROVE  Types' /\ SamePeople
  <1> DEFINE new == [session[c] EXCEPT !.room = r]
             h == session[c].username
             e == [presence[h] EXCEPT !.room = r]
  <1>1. session[c] \in Session
    BY DEF Types
  <1>2. /\ new \in Session /\ new.open = session[c].open
        /\ new.username = h /\ new.owner = session[c].owner
    BY <1>1 DEF Session
  <1>3. session' = [session EXCEPT ![c] = new]
    BY DEF GoTo
  <1>4. h \in DOMAIN presence => e \in Entry
    BY DEF Types, Entry
  <1>5. presence' = IF h \in DOMAIN presence THEN [presence EXCEPT ![h] = e] ELSE presence
    BY DEF GoTo, Present
  <1> HIDE DEF new, h, e
  <1>6. session' \in [Client -> Session] /\ \A d \in Client : SameSession(d)
    BY <1>2, <1>3 DEF Types, SameSession, h
  <1>7. DOMAIN presence' = DOMAIN presence /\ presence' \in [DOMAIN presence -> Entry]
    BY <1>4, <1>5, PresenceKept DEF Types
  <1> QED
    BY <1>6, <1>7 DEF Types, SamePeople

(* A change of status leaves who a session is, and who is listed.          *)
LEMMA UpdateStatusStep ==
    ASSUME Types, NEW c \in Client, NEW s \in Status, UpdateStatus(c, s)
    PROVE  Types' /\ SamePeople
  <1> DEFINE new == [session[c] EXCEPT !.status = s]
             h == session[c].username
             e == [presence[h] EXCEPT !.status = s]
  <1>1. session[c] \in Session
    BY DEF Types
  <1>2. /\ new \in Session /\ new.open = session[c].open
        /\ new.username = h /\ new.owner = session[c].owner
    BY <1>1 DEF Session
  <1>3. session' = [session EXCEPT ![c] = new] /\ store' = store
    BY DEF UpdateStatus
  <1>4. h \in DOMAIN presence => e \in Entry
    BY DEF Types, Entry
  <1>5. presence' = IF h \in DOMAIN presence THEN [presence EXCEPT ![h] = e] ELSE presence
    BY DEF UpdateStatus, Present
  <1> HIDE DEF new, h, e
  <1>6. session' \in [Client -> Session] /\ \A d \in Client : SameSession(d)
    BY <1>2, <1>3 DEF Types, SameSession, h
  <1>7. DOMAIN presence' = DOMAIN presence /\ presence' \in [DOMAIN presence -> Entry]
    BY <1>4, <1>5, PresenceKept DEF Types
  <1> QED
    BY <1>3, <1>6, <1>7 DEF Types, SamePeople

(* A message: only the list of the store changes.                          *)
LEMMA MessageStep ==
    ASSUME Types, NEW m \in Message, UNCHANGED <<session, presence>>,
           store' \in {WithRoomMessage(store, m), WithDirectMessage(store, m)}
    PROVE  Types' /\ SamePeople
  <1>1. store \in Data
    BY DEF Types
  <1>2. /\ store' \in Data
        /\ \/ store' = [store EXCEPT !.messages = Slice(Append(store.messages, m), ChatCap)]
           \/ store' = [store EXCEPT !.messages = Slice(Append(store.messages, m), DmCap)]
    BY <1>1, WithMessageType
  <1>3. store'.users = store.users
    BY <1>1, <1>2 DEF Data
  <1> QED
    BY <1>2, <1>3 DEF Types, SamePeople, SameSession

(* The session that ends takes its user's entry with it.                   *)
LEMMA WsCloseStep ==
    ASSUME Types, NEW c \in Client, WsClose(c)
    PROVE  /\ Types' /\ store' = store
           /\ session[c].open /\ ~session'[c].open
           /\ \A d \in Client \ {c} : session'[d] = session[d]
           /\ DOMAIN presence' = DOMAIN presence \ {session[c].username}
  <1> DEFINE new == [session[c] EXCEPT !.open = FALSE]
  <1>1. session[c] \in Session
    BY DEF Types
  <1>2. new \in Session /\ ~new.open
    BY <1>1 DEF Session
  <1>3. session' = [session EXCEPT ![c] = new] /\ store' = store /\ session[c].open
    BY DEF WsClose
  <1> HIDE DEF new
  <1>4. /\ session' \in [Client -> Session] /\ ~session'[c].open
        /\ \A d \in Client \ {c} : session'[d] = session[d]
    BY <1>2, <1>3 DEF Types
  <1>5. /\ DOMAIN presence' = DOMAIN presence \ {session[c].username}
        /\ presence' \in [DOMAIN presence \ {session[c].username} -> Entry]
    BY DEF WsClose, Types
  <1> QED
    BY <1>3, <1>4, <1>5 DEF Types

(* A new session is nobody's.                                              *)
LEMMA ConnectStep ==
    ASSUME Types, NEW c \in Client, Connect(c)
    PROVE  /\ Types' /\ UNCHANGED <<store, presence>>
           /\ ~session[c].open /\ session'[c].username = NoHandle
           /\ \A d \in Client \ {c} : session'[d] = session[d]
  <1> DEFINE new == [Closed EXCEPT !.open = TRUE]
  <1>1. new \in Session /\ new.username = NoHandle
    BY ClosedType DEF Session
  <1>2. session' = [session EXCEPT ![c] = new]
    BY DEF Connect
  <1> HIDE DEF new
  <1> QED
    BY <1>1, <1>2 DEF Connect, Types

------------------------------------------------------------------------------
LoginStep(c) ==
    \E u \in Username, e \in Email, s \in Status : Register(c, u, e, s)

(* Every step is a login, a new or an ended session, or changes nobody.    *)
LEMMA StepCases ==
    ASSUME Types, [Next]_vars
    PROVE  \/ \E c \in Client : LoginStep(c) \/ Connect(c) \/ WsClose(c)
           \/ Types' /\ SamePeople
  <1>1. ASSUME UNCHANGED <<store, session, presence>>
        PROVE  Types' /\ SamePeople
    BY <1>1 DEF Types, SamePeople, SameSession
  <1>2. ASSUME NEW c \in Client, NEW x \in Text, Chat(c, x)
        PROVE  Types' /\ SamePeople
    <2> DEFINE m == RoomMessage(session[c].room, session[c].username, x)
    <2>1. session[c] \in Session /\ session[c].username # NoHandle
      BY <1>2 DEF Types, Chat
    <2>2. m \in Message
      BY <2>1 DEF Session, RoomMessage, Message
    <2> HIDE DEF m
    <2>3. store' = WithRoomMessage(store, m) /\ UNCHANGED <<session, presence>>
      BY <1>2 DEF Chat, m
    <2> QED
      BY <2>2, <2>3, MessageStep
  <1>3. ASSUME NEW c \in Client, NEW t \in Handle, NEW x \in Text, PrivateMessage(c, t, x)
        PROVE  Types' /\ SamePeople
    <2> DEFINE m == DirectMessage(session[c].username, t, x)
    <2>1. session[c] \in Session /\ session[c].username # NoHandle
      BY <1>3 DEF Types, PrivateMessage
    <2>2. m \in Message
      BY <2>1 DEF Session, DirectMessage, Message
    <2> HIDE DEF m
    <2>3. store' = WithDirectMessage(store, m) /\ UNCHANGED <<session, presence>>
      BY <1>3 DEF PrivateMessage, m
    <2> QED
      BY <2>2, <2>3, MessageStep
  <1>4. ASSUME NEW c \in Client, NEW r \in RoomName,
               NEW p \in Password \cup {NoPassword}, JoinRoom(c, r, p)
        PROVE  Types' /\ SamePeople
    <2>1. store' \in Data /\ store'.users = store.users
      BY <1>4, WithRoomType DEF JoinRoom, Types
    <2> QED
      BY <1>4, <2>1, GoToStep DEF JoinRoom
  <1>5. ASSUME NEW c \in Client, LeaveRoom(c)
        PROVE  Types' /\ SamePeople
    <2>1. General \in RoomName /\ store' = store
      BY <1>5, GatewayAssumption DEF LeaveRoom
    <2> QED
      BY <1>5, <2>1, GoToStep DEF LeaveRoom, Types
  <1>6. ASSUME NEW c \in Client, NEW q \in Query, PassOn(c, q)
        PROVE  Types' /\ SamePeople
    BY <1>1, <1>6 DEF PassOn
  <1>7. ASSUME NEW c \in Client, BrowserAsks(c)
        PROVE  LoginStep(c) \/ (Types' /\ SamePeople)
    BY <1>2, <1>3, <1>4, <1>5, <1>6, <1>7, UpdateStatusStep DEF BrowserAsks, LoginStep
  <1>8. ASSUME NEW c \in Client, TcpClose(c) \/ Take(c) \/ TakeDisconnect(c) \/ Drop(c)
        PROVE  Types' /\ SamePeople
    BY <1>1, <1>8 DEF TcpClose, Take, TakeDisconnect, Drop, Hangs
  <1>9. CASE UNCHANGED vars
    BY <1>1, <1>9 DEF vars
  <1> QED
    BY <1>7, <1>8, <1>9 DEF Next

(* Every step keeps the types: of StepCases only three change them.        *)
LEMMA TypesStep == Types /\ [Next]_vars => Types'
  BY StepCases, RegisterStep, ConnectStep, WsCloseStep DEF LoginStep

(* The types hold in every reachable state.                                *)
LEMMA TypesHold == Spec => []Types
  BY TypesInit, TypesStep, PTL DEF Spec

------------------------------------------------------------------------------
(* Steps that keep the types lose no name but so.                          *)
LEMMA NamesFollow == []Types /\ [][Next]_vars => NameLostOnlyByOwnClaim
  <1> DEFINE P == \A c \in Client, h \in Handle :
                    Holds(c, h) /\ Of(c, h)' /\ ~Holds(c, h)' =>
                       /\ session[c].owner # NoEmail
                       /\ \E g \in Owners(store', session[c].owner) : g \notin DOMAIN store.users
  <1>1. Types /\ [Next]_vars => [P]_vars
    <2> SUFFICES ASSUME Types, Next, NEW c \in Client, NEW h \in Handle,
                        Holds(c, h), Of(c, h)', ~Holds(c, h)'
                 PROVE  /\ session[c].owner # NoEmail
                        /\ \E g \in Owners(store', session[c].owner) :
                              g \notin DOMAIN store.users
      OBVIOUS
    <2>1. CASE Types' /\ SamePeople
      BY <2>1 DEF SamePeople, SameSession, Holds, Of
    <2>2. ASSUME NEW d \in Client, WsClose(d) PROVE FALSE
      BY <2>2, WsCloseStep DEF Holds, Of
    <2>3. ASSUME NEW d \in Client, Connect(d) PROVE FALSE
      BY <2>3, ConnectStep DEF Holds, Of
    <2>4. ASSUME NEW d \in Client, NEW u \in Username, NEW e \in Email,
                 NEW s \in Status, Register(d, u, e, s)
          PROVE  /\ session[c].owner # NoEmail
                 /\ \E g \in Owners(store', session[c].owner) : g \notin DOMAIN store.users
      <3> DEFINE g == HandleOf[u]
                 a == CleanEmail[e]
      <3>1. AccountGranted(store, u, e) /\ store' = WithAccount(store, u, e)
        BY <2>4 DEF Register
      <3>2. store'.users = [x \in (IF g \in DOMAIN store.users THEN DOMAIN store.users
                                   ELSE DOMAIN store.users \ FreedHandle(store, a)) \cup {g} |->
                              IF x = g THEN a ELSE store.users[x]]
        BY <3>1 DEF WithAccount, Types, Data
      <3>3. g \in DOMAIN store.users => store.users[g] = a
        BY <3>1 DEF AccountGranted
      <3>4. FreedHandle(store, a) \subseteq Owners(store, a) /\ (a = NoEmail => FreedHandle(store, a) = {})
        BY DEF FreedHandle
      <3>5. /\ c # d => session'[c] = session[c]
            /\ c = d => session'[c].owner = a /\ session'[c].username = g
        <4>1. /\ session'[d].username = HandleOf[u]
              /\ session'[d].owner = CleanEmail[e]
              /\ \A b \in Client \ {d} : session'[b] = session[b]
          BY <2>4, RegisterStep
        <4> QED
          BY <4>1
      <3>6. h \in DOMAIN store.users /\ store.users[h] = session[c].owner
        BY DEF Holds
      <3> HIDE DEF g, a
      <3>7. CASE c = d
        <4>1. h = g
          BY <3>5, <3>7 DEF Of
        <4> QED
          BY <3>2, <3>5, <3>7, <4>1 DEF Holds
      <3>8. CASE c # d
        <4>1. ~(h \in DOMAIN store'.users /\ store'.users[h] = session[c].owner)
          BY <3>5, <3>8 DEF Holds
        <4>2. g \notin DOMAIN store.users /\ h \in FreedHandle(store, a)
          BY <3>2, <3>3, <3>6, <4>1
        <4>3. session[c].owner = a /\ a # NoEmail
          BY <3>4, <3>6, <4>2 DEF Owners
        <4>4. g \in Owners(store', a)
          BY <3>2 DEF Owners
        <4> QED
          BY <4>2, <4>3, <4>4
      <3> QED
        BY <3>7, <3>8
    <2> QED
      BY <2>1, <2>2, <2>3, <2>4, StepCases DEF LoginStep
  <1> QED
    BY <1>1, PTL DEF NameLostOnlyByOwnClaim

(* Nobody loses the account of a name he is using, unless his own address  *)
(* claims another name on whatever connection.                             *)
THEOREM NamesAreKept == Spec => NameLostOnlyByOwnClaim
  BY NamesFollow, TypesHold, PTL DEF Spec

(* Steps that keep the types keep the list true.                           *)
LEMMA PresenceSteps == []Types /\ [][Next]_vars => PresenceFollowsSessions
  <1> DEFINE P == \A h \in Handle :
                    LET here == {c \in Client : Of(c, h)}
                        stays == {c \in here : Of(c, h)'}
                    IN  /\ h \in DOMAIN presence /\ h \notin DOMAIN presence' /\ stays # {} =>
                              \E c \in here \ stays : ~session'[c].open
                        /\ h \in DOMAIN presence' /\ (\A d \in Client : ~Of(d, h)') /\ here # {} =>
                              \E c \in here : session'[c].open
  <1>1. Types /\ [Next]_vars => [P]_vars
    <2> SUFFICES ASSUME Types, Next, NEW h \in Handle
                 PROVE  /\ h \in DOMAIN presence /\ h \notin DOMAIN presence' =>
                              \E c \in Client : Of(c, h) /\ ~Of(c, h)' /\ ~session'[c].open
                        /\ h \in DOMAIN presence' /\ (\A d \in Client : ~Of(d, h)') =>
                              \A c \in Client : Of(c, h) => session'[c].open
      OBVIOUS
    <2>1. CASE Types' /\ SamePeople
      BY <2>1 DEF SamePeople, SameSession, Of
    <2>2. ASSUME NEW d \in Client, WsClose(d)
          PROVE  /\ h \in DOMAIN presence /\ h \notin DOMAIN presence' =>
                        \E c \in Client : Of(c, h) /\ ~Of(c, h)' /\ ~session'[c].open
                 /\ h \in DOMAIN presence' /\ (\A c \in Client : ~Of(c, h)') =>
                        \A c \in Client : Of(c, h) => session'[c].open
      BY <2>2, WsCloseStep DEF Of
    <2>3. ASSUME NEW d \in Client, Connect(d)
          PROVE  /\ DOMAIN presence' = DOMAIN presence
                 /\ \A c \in Client : Of(c, h) => session'[c].open
      BY <2>3, ConnectStep DEF Of
    <2>4. ASSUME NEW d \in Client, LoginStep(d)
          PROVE  /\ DOMAIN presence \subseteq DOMAIN presence'
                 /\ \A c \in Client : Of(c, h) => session'[c].open
      BY <2>4, RegisterStep DEF LoginStep, Of
    <2> QED
      BY <2>1, <2>2, <2>3, <2>4, StepCases
  <1> QED
    BY <1>1, PTL DEF PresenceFollowsSessions

(* Whoever is logged in is listed, except for what namesakes take away or  *)
(* a change of name leaves behind.                                         *)
THEOREM PresenceIsTrue == Spec => PresenceFollowsSessions
  BY PresenceSteps, TypesHold, PTL DEF Spec

------------------------------------------------------------------------------
(* What is under way on a connection, and what the server makes of it.     *)

Sent ==
    [type : {"USER_REGISTER"}, arg : Handle]
    \cup [type : {"JOIN_ROOM"}, arg : RoomName]
    \cup [type : {"LEAVE_ROOM", "DISCONNECT"} \cup Query, arg : {NoRoom}]
    \cup [type : {"CHAT_MESSAGE"}, arg : Text, room : RoomName]
    \cup [type : {"PRIVATE_MESSAGE"}, arg : Text, target : Handle]

Who == [username : Handle \cup {NoHandle}, room : RoomName]

(* Who the registry says is speaking on a connection.                      *)
Known(users, c) ==
    IF c \in DOMAIN users
    THEN [username |-> users[c].username, room |-> users[c].currentRoom]
    ELSE NotRegistered

(* The table that Headed reads at its end: who it will be after each frame.*)
Row(w, q, g, i) == IF i = 0 THEN w ELSE Taken(g[i - 1], q[i])

Course(w, q) == CHOOSE g : g = [i \in 0 .. Len(q) |-> Row(w, q, g, i)]

LEMMA HeadedIs ==
    ASSUME NEW users, NEW q, NEW c
    PROVE  Headed(users, q, c) = Course(Known(users, c), q)[Len(q)]
  BY DEF Headed, Course, Row, Known

(* A frame makes somebody of somebody.                                     *)
LEMMA TakenType ==
    ASSUME NEW w \in Who, NEW f \in Sent
    PROVE  Taken(w, f) \in Who
  <1>1. General \in RoomName
    BY GatewayAssumption
  <1>2. CASE f.type = "USER_REGISTER"
    <2>1. f.arg \in Handle
      BY <1>2, GatewayAssumption DEF Sent
    <2> QED
      BY <1>1, <1>2, <2>1 DEF Taken, Who
  <1>3. CASE f.type = "JOIN_ROOM"
    <2>1. f.arg \in RoomName
      BY <1>3, GatewayAssumption DEF Sent
    <2> QED
      BY <1>3, <2>1 DEF Taken, Who
  <1>4. CASE f.type \notin {"USER_REGISTER", "JOIN_ROOM"}
    BY <1>1, <1>4 DEF Taken, Who
  <1> QED
    BY <1>2, <1>3, <1>4

(* Induction, for a set of numbers.                                        *)
LEMMA Ascent ==
    ASSUME NEW S, 0 \in S, \A n \in Nat : n \in S => n + 1 \in S
    PROVE  Nat \subseteq S
  <1> SUFFICES ASSUME Nat \ S # {} PROVE FALSE
    OBVIOUS
  <1>1. PICK n \in Nat \ S : \A m \in Nat \ S : ~(<<m, n>> \in OpToRel(<, Nat))
    BY WFMin, NatLessThanWellFounded
  <1>2. ASSUME NEW m \in Nat, m < n PROVE m \in S
    BY <1>1, <1>2 DEF OpToRel
  <1>3. n \in Nat /\ n \notin S /\ n # 0
    BY <1>1
  <1>4. n - 1 \in Nat /\ n - 1 < n /\ (n - 1) + 1 = n
    BY <1>3
  <1>5. n - 1 \in S
    BY <1>2, <1>4
  <1> QED
    BY <1>3, <1>4, <1>5

(* The table exists: it is filled in from its start.                       *)
LEMMA CourseExists ==
    ASSUME NEW w \in Who, NEW q \in Seq(Sent)
    PROVE  \E g \in [0 .. Len(q) -> Who] : \A i \in 0 .. Len(q) : g[i] = Row(w, q, g, i)
  <1>1. PICK N : N = Len(q)
    OBVIOUS
  <1>2. N \in Nat /\ \A i \in 1 .. N : q[i] \in Sent
    BY <1>1, LenProperties, ElementOfSeq
  <1> DEFINE Filled(k) == \E g \in [0 .. N -> Who] :
                             \A i \in 0 .. N : i <= k => g[i] = Row(w, q, g, i)
             S == {k \in Nat : Filled(k)}
  <1>3. Filled(0)
    <2>1. [i \in 0 .. N |-> w] \in [0 .. N -> Who]
      OBVIOUS
    <2>2. \A i \in 0 .. N : i <= 0 => i = 0
      BY <1>2
    <2> QED
      BY <2>1, <2>2 DEF Row
  <1>4. ASSUME NEW k \in Nat, Filled(k) PROVE Filled(k + 1)
    <2>1. PICK g \in [0 .. N -> Who] : \A i \in 0 .. N : i <= k => g[i] = Row(w, q, g, i)
      BY <1>4
    <2>2. CASE k + 1 > N
      <3>1. \A i \in 0 .. N : i <= k
        BY <1>2, <2>2
      <3> QED
        BY <2>1, <3>1
    <2>3. CASE k + 1 <= N
      <3>1. PICK p : p = k + 1
        OBVIOUS
      <3>2. p \in 1 .. N /\ p \in 0 .. N /\ p # 0 /\ p - 1 \in 0 .. N
        BY <1>2, <2>3, <3>1
      <3>3. Taken(g[p - 1], q[p]) \in Who
        BY <1>2, <3>2, TakenType
      <3> DEFINE h == [g EXCEPT ![p] = Taken(g[p - 1], q[p])]
      <3>4. /\ h \in [0 .. N -> Who] /\ h[p] = Taken(g[p - 1], q[p])
            /\ \A j \in 0 .. N : j # p => h[j] = g[j]
        BY <3>2, <3>3
      <3> HIDE DEF h
      <3>5. ASSUME NEW i \in 0 .. N, i <= k + 1 PROVE h[i] = Row(w, q, h, i)
        <4>1. CASE i = p
          <5>1. p - 1 # p
            BY <3>2
          <5>2. h[p - 1] = g[p - 1]
            BY <3>2, <3>4, <5>1
          <5> QED
            BY <3>2, <3>4, <4>1, <5>2 DEF Row
        <4>2. CASE i # p
          <5>1. i <= k
            BY <1>2, <3>1, <3>5, <4>2
          <5>2. g[i] = Row(w, q, g, i) /\ h[i] = g[i]
            BY <2>1, <3>4, <4>2, <5>1
          <5>3. i # 0 => i - 1 \in 0 .. N /\ i - 1 # p
            BY <1>2, <3>1, <5>1
          <5> QED
            BY <3>4, <5>2, <5>3 DEF Row
        <4> QED
          BY <4>1, <4>2
      <3> QED
        BY <3>4, <3>5
    <2> QED
      BY <1>2, <2>2, <2>3
  <1> HIDE DEF Filled
  <1>5. Nat \subseteq S
    <2>1. 0 \in S /\ \A k \in Nat : k \in S => k + 1 \in S
      BY <1>3, <1>4
    <2> HIDE DEF S
    <2> QED
      BY <2>1, Ascent
  <1>6. Filled(N)
    BY <1>2, <1>5
  <1>7. PICK g \in [0 .. N -> Who] : \A i \in 0 .. N : i <= N => g[i] = Row(w, q, g, i)
    BY <1>6 DEF Filled
  <1>8. \A i \in 0 .. N : i <= N
    BY <1>2
  <1> QED
    BY <1>1, <1>7, <1>8

LEMMA CourseFacts ==
    ASSUME NEW w \in Who, NEW q \in Seq(Sent)
    PROVE  /\ Course(w, q) \in [0 .. Len(q) -> Who]
           /\ Course(w, q)[0] = w
           /\ \A i \in 1 .. Len(q) : Course(w, q)[i] = Taken(Course(w, q)[i - 1], q[i])
  <1>1. PICK g \in [0 .. Len(q) -> Who] : \A i \in 0 .. Len(q) : g[i] = Row(w, q, g, i)
    BY CourseExists
  <1>2. g = [i \in 0 .. Len(q) |-> Row(w, q, g, i)]
    BY <1>1
  <1>3. PICK t : t = Course(w, q)
    OBVIOUS
  <1>4. t = [i \in 0 .. Len(q) |-> Row(w, q, t, i)]
    BY <1>2, <1>3 DEF Course
  <1>5. Len(q) \in Nat
    BY LenProperties
  <1>6. t[0] = w
    <2>1. 0 \in 0 .. Len(q)
      BY <1>5
    <2> QED
      BY <1>4, <2>1 DEF Row
  <1>7. \A i \in 1 .. Len(q) : t[i] = Taken(t[i - 1], q[i])
    <2>1. \A i \in 1 .. Len(q) : i \in 0 .. Len(q) /\ i # 0
      BY <1>5
    <2>2. \A i \in 0 .. Len(q) : t[i] = Row(w, q, t, i)
      BY <1>4
    <2> QED
      BY <2>1, <2>2 DEF Row
  <1>8. \A i \in 0 .. Len(q) : t[i] \in Who
    <2> DEFINE S == {k \in Nat : k <= Len(q) => t[k] \in Who}
    <2>1. 0 \in S
      BY <1>6
    <2>2. ASSUME NEW k \in Nat, k \in S PROVE k + 1 \in S
      <3> SUFFICES ASSUME k + 1 <= Len(q) PROVE t[k + 1] \in Who
        OBVIOUS
      <3>1. k + 1 \in 1 .. Len(q) /\ k <= Len(q) /\ (k + 1) - 1 = k
        BY <1>5
      <3>2. t[k] \in Who /\ q[k + 1] \in Sent
        BY <2>2, <3>1, ElementOfSeq
      <3>3. t[k + 1] = Taken(t[k], q[k + 1])
        BY <1>7, <3>1
      <3> QED
        BY <3>2, <3>3, TakenType
    <2>3. Nat \subseteq S
      <3> HIDE DEF S
      <3> QED
        BY <2>1, <2>2, Ascent
    <2>4. \A i \in 0 .. Len(q) : i \in Nat /\ i <= Len(q)
      BY <1>5
    <2> QED
      BY <2>3, <2>4
  <1>9. t \in [0 .. Len(q) -> Who]
    BY <1>4, <1>8
  <1> QED
    BY <1>3, <1>6, <1>7, <1>9

(* A table is determined by its start and the frames.                      *)
Follows(t, w, q, n) ==
    /\ n <= Len(q) /\ t[0] = w
    /\ \A i \in 1 .. n : t[i] = Taken(t[i - 1], q[i])

LEMMA CourseFollows ==
    ASSUME NEW w \in Who, NEW q \in Seq(Sent), NEW n \in Nat, NEW t, Follows(t, w, q, n)
    PROVE  \A i \in 0 .. n : t[i] = Course(w, q)[i]
  <1>0. n <= Len(q) /\ t[0] = w /\ \A i \in 1 .. n : t[i] = Taken(t[i - 1], q[i])
    BY DEF Follows
  <1>1. PICK g : g = Course(w, q)
    OBVIOUS
  <1>2. g[0] = w /\ \A i \in 1 .. Len(q) : g[i] = Taken(g[i - 1], q[i])
    BY <1>1, CourseFacts
  <1>3. Len(q) \in Nat
    BY LenProperties
  <1> DEFINE S == {k \in Nat : k <= n => t[k] = g[k]}
  <1>4. 0 \in S
    BY <1>0, <1>2
  <1>5. ASSUME NEW k \in Nat, k \in S PROVE k + 1 \in S
    <2> SUFFICES ASSUME k + 1 <= n PROVE t[k + 1] = g[k + 1]
      OBVIOUS
    <2>1. k + 1 \in 1 .. n /\ k + 1 \in 1 .. Len(q) /\ k <= n /\ (k + 1) - 1 = k
      BY <1>0, <1>3
    <2>2. t[k + 1] = Taken(t[k], q[k + 1]) /\ g[k + 1] = Taken(g[k], q[k + 1])
      BY <1>0, <1>2, <2>1
    <2> QED
      BY <1>5, <2>1, <2>2
  <1>6. Nat \subseteq S
    <2> HIDE DEF S
    <2> QED
      BY <1>4, <1>5, Ascent
  <1>7. \A i \in 0 .. n : i \in Nat /\ i <= n
    OBVIOUS
  <1> QED
    BY <1>1, <1>6, <1>7

(* A frame that is written is taken up after the others.                   *)
LEMMA CourseAppend ==
    ASSUME NEW w \in Who, NEW q \in Seq(Sent), NEW f \in Sent
    PROVE  /\ Append(q, f) \in Seq(Sent)
           /\ Len(Append(q, f)) = Len(q) + 1
           /\ Append(q, f)[Len(q) + 1] = f
           /\ \A i \in 1 .. Len(q) : Append(q, f)[i] = q[i]
           /\ \A i \in 0 .. Len(q) : Course(w, Append(q, f))[i] = Course(w, q)[i]
           /\ Course(w, Append(q, f))[Len(q) + 1] = Taken(Course(w, q)[Len(q)], f)
  <1>1. PICK r : r = Append(q, f)
    OBVIOUS
  <1>2. PICK n : n = Len(q)
    OBVIOUS
  <1>3. n \in Nat
    BY <1>2, LenProperties
  <1>4. /\ r \in Seq(Sent) /\ Len(r) = n + 1 /\ r[n + 1] = f
        /\ \A i \in 1 .. n : r[i] = q[i]
    BY <1>1, <1>2, AppendProperties
  <1>5. PICK t : t = Course(w, r)
    OBVIOUS
  <1>6. t[0] = w /\ \A i \in 1 .. n + 1 : t[i] = Taken(t[i - 1], r[i])
    <2>1. t[0] = w /\ \A i \in 1 .. Len(r) : t[i] = Taken(t[i - 1], r[i])
      BY <1>4, <1>5, CourseFacts
    <2> QED
      BY <1>4, <2>1
  <1>7. \A i \in 1 .. n : i \in 1 .. n + 1
    BY <1>3
  <1>8. \A i \in 1 .. n : t[i] = Taken(t[i - 1], q[i])
    BY <1>4, <1>6, <1>7
  <1>9. \A i \in 0 .. n : t[i] = Course(w, q)[i]
    <2>1. n <= Len(q)
      BY <1>2, <1>3
    <2>2. Follows(t, w, q, n)
      BY <1>6, <1>8, <2>1 DEF Follows
    <2> QED
      BY <1>3, <2>2, CourseFollows
  <1>10. n + 1 \in 1 .. n + 1 /\ (n + 1) - 1 = n /\ n \in 0 .. n
    BY <1>3
  <1>11. t[n + 1] = Taken(Course(w, q)[n], f)
    BY <1>4, <1>6, <1>9, <1>10
  <1> QED
    BY <1>1, <1>2, <1>4, <1>5, <1>9, <1>11

(* Once the first frame is taken up, the rest goes on as it would have.    *)
LEMMA CourseTail ==
    ASSUME NEW w \in Who, NEW q \in Seq(Sent), q # << >>
    PROVE  /\ Tail(q) \in Seq(Sent)
           /\ Len(q) \in Nat \ {0} /\ Len(Tail(q)) = Len(q) - 1
           /\ Head(q) = q[1] /\ q[1] \in Sent
           /\ \A i \in 1 .. Len(q) - 1 : Tail(q)[i] = q[i + 1]
           /\ \A i \in 0 .. Len(q) - 1 :
                 Course(Taken(w, Head(q)), Tail(q))[i] = Course(w, q)[i + 1]
  <1>1. PICK r : r = Tail(q)
    OBVIOUS
  <1>2. PICK n : n = Len(q)
    OBVIOUS
  <1>3. n \in Nat \ {0}
    BY <1>2, EmptySeq
  <1>4. /\ r \in Seq(Sent) /\ Len(r) = n - 1
        /\ \A i \in 1 .. n - 1 : r[i] = q[i + 1]
    BY <1>1, <1>2, HeadTailProperties
  <1>5. Head(q) = q[1]
    OBVIOUS
  <1>6. q[1] \in Sent
    <2>1. 1 \in 1 .. Len(q)
      BY <1>2, <1>3
    <2> QED
      BY <2>1, ElementOfSeq
  <1>7. PICK v : v = Taken(w, q[1])
    OBVIOUS
  <1>8. v \in Who
    BY <1>6, <1>7, TakenType
  <1>9. PICK g : g = Course(w, q)
    OBVIOUS
  <1>10. g[0] = w /\ \A i \in 1 .. n : g[i] = Taken(g[i - 1], q[i])
    BY <1>2, <1>9, CourseFacts
  <1> DEFINE t == [i \in 0 .. n - 1 |-> g[i + 1]]
  <1>11. t[0] = v
    <2>1. 0 \in 0 .. n - 1 /\ 1 \in 1 .. n /\ 0 + 1 = 1 /\ 1 - 1 = 0
      BY <1>3
    <2>2. t[0] = g[1] /\ g[1] = Taken(g[0], q[1])
      BY <1>10, <2>1
    <2> QED
      BY <1>7, <1>10, <2>2
  <1>12. ASSUME NEW i \in 1 .. n - 1 PROVE t[i] = Taken(t[i - 1], r[i])
    <2>1. i \in 0 .. n - 1 /\ i - 1 \in 0 .. n - 1 /\ i + 1 \in 1 .. n
      BY <1>3
    <2>2. (i - 1) + 1 = i /\ (i + 1) - 1 = i
      BY <1>3
    <2>3. t[i] = g[i + 1] /\ t[i - 1] = g[i]
      BY <2>1, <2>2
    <2>4. g[i + 1] = Taken(g[i], q[i + 1])
      BY <1>10, <2>1, <2>2
    <2> QED
      BY <1>4, <2>3, <2>4
  <1>13. \A i \in 0 .. n - 1 : t[i] = g[i + 1]
    OBVIOUS
  <1> HIDE DEF t
  <1>14. \A i \in 0 .. n - 1 : t[i] = Course(v, r)[i]
    <2>1. PICK m : m = n - 1
      OBVIOUS
    <2>2. m \in Nat /\ m <= Len(r)
      BY <1>3, <1>4, <2>1
    <2>3. \A i \in 1 .. m : t[i] = Taken(t[i - 1], r[i])
      BY <1>12, <2>1
    <2>4. Follows(t, v, r, m)
      BY <1>11, <2>2, <2>3 DEF Follows
    <2> QED
      BY <1>4, <1>8, <2>1, <2>2, <2>4, CourseFollows
  <1> QED
    BY <1>1, <1>2, <1>3, <1>4, <1>5, <1>6, <1>7, <1>9, <1>13, <1>14

(* The server uses its registry as the registry's own specification allows *)
(* it to be used, so that what is proved of the registry holds here.       *)
RMP == INSTANCE RoomManagerProofs
         WITH ConnectionId <- Client, Username <- Handle,
              ValidUsername <- ValidHandle,
              NormalizeName <- [h \in Handle |-> h]

LEMMA RegistryAssumption == RMP!RoomManagerAssumption
  BY GatewayAssumption DEF RMP!RoomManagerAssumption

LEMMA SameOperations ==
    /\ \A c, u : RM!RegisterUser(c, u) => RMP!RegisterUser(c, u)
    /\ \A c : RM!UnregisterUser(c) => RMP!UnregisterUser(c)
    /\ \A c, r : RM!JoinRoom(c, r) => RMP!JoinRoom(c, r)
    /\ \A c : RM!LeaveRoom(c) => RMP!LeaveRoom(c)
  <1> USE DEF RM!SetUser, RMP!SetUser, RM!Insert, RMP!Insert, RM!Erase, RMP!Erase,
              RM!MembersIn, RMP!MembersIn, RM!Handle, RMP!Handle
  <1>1. ASSUME NEW c, NEW u, RM!RegisterUser(c, u)
        PROVE  RMP!RegisterUser(c, u)
    BY <1>1 DEF RM!RegisterUser, RMP!RegisterUser, RM!CanRegister, RMP!CanRegister,
                RM!NamesAfterRegister, RMP!NamesAfterRegister
  <1>2. ASSUME NEW c, RM!UnregisterUser(c)
        PROVE  RMP!UnregisterUser(c)
    BY <1>2 DEF RM!UnregisterUser, RMP!UnregisterUser
  <1>3. ASSUME NEW c, NEW r, RM!JoinRoom(c, r)
        PROVE  RMP!JoinRoom(c, r)
    BY <1>3 DEF RM!JoinRoom, RMP!JoinRoom
  <1>4. ASSUME NEW c, RM!LeaveRoom(c)
        PROVE  RMP!LeaveRoom(c)
    BY <1>4 DEF RM!LeaveRoom, RMP!LeaveRoom
  <1> QED
    BY <1>1, <1>2, <1>3, <1>4

------------------------------------------------------------------------------
(* Both ends of a connection, and what is under way between them: nothing  *)
(* is under way to a server that has closed its end, an open session has a *)
(* socket that can be written to unless the server has closed its end, and *)
(* who is registered is connected.                                         *)
Linked ==
    /\ tcp \in [Client -> {"open", "ended", "destroyed"}]
    /\ toServer \in [Client -> Seq(Sent)]
    /\ \A c \in Client :
          /\ session[c].room # NoRoom
          /\ session[c].open => tcp[c] # "ended" /\ Len(toServer[c]) <= MaxQueue
          /\ session[c].open /\ c \in conn => tcp[c] = "open"
          /\ Len(toServer[c]) <= MaxQueue + 1
          /\ toServer[c] # << >> => c \in conn
    /\ DOMAIN usersById \subseteq conn

Whole == Types /\ Linked /\ RMP!IInv

(* What the browser has asked for on connection c is done to its session,  *)
(* and written as frame f.                                                 *)
Speaks(c, f) ==
    \/ /\ f.type = "USER_REGISTER"
       /\ session'[c].username = f.arg /\ session'[c].room = session[c].room
    \/ /\ f.type = "JOIN_ROOM" /\ f.arg # NoRoom
       /\ session'[c].username = session[c].username /\ session'[c].room = f.arg
    \/ /\ f.type = "LEAVE_ROOM"
       /\ session'[c].username = session[c].username /\ session'[c].room = General
    \/ /\ f.type \notin {"USER_REGISTER", "JOIN_ROOM", "LEAVE_ROOM"}
       /\ session'[c].username = session[c].username
       /\ session'[c].room = session[c].room
       /\ f.type = "CHAT_MESSAGE" =>
             session[c].username # NoHandle /\ f.room = session[c].room

Asked(c) ==
    /\ session[c].open /\ session'[c].open
    /\ Len(toServer[c]) < MaxQueue
    /\ \A d \in Client \ {c} : session'[d] = session[d]
    /\ \/ \E f \in Sent : Write(c, f) /\ Speaks(c, f)
       \/ /\ UNCHANGED toServer
          /\ session'[c].username = session[c].username
          /\ session'[c].room = session[c].room
    /\ Keep

(* What the frames of this gateway are.                                    *)
LEMMA SentFrames ==
    /\ \A h \in Handle : Frame("USER_REGISTER", h) \in Sent
    /\ \A r \in RoomName : Frame("JOIN_ROOM", r) \in Sent
    /\ Frame("LEAVE_ROOM", NoRoom) \in Sent /\ Frame("DISCONNECT", NoRoom) \in Sent
    /\ \A q \in Query : /\ Frame(q, NoRoom) \in Sent
                        /\ q \notin {"USER_REGISTER", "JOIN_ROOM", "LEAVE_ROOM",
                                     "CHAT_MESSAGE", "PRIVATE_MESSAGE", "DISCONNECT"}
    /\ \A x \in Text, r \in RoomName :
          [type |-> "CHAT_MESSAGE", arg |-> x, room |-> r] \in Sent
    /\ \A x \in Text, h \in Handle :
          [type |-> "PRIVATE_MESSAGE", arg |-> x, target |-> h] \in Sent
  <1>1. \A h \in Handle : Frame("USER_REGISTER", h) \in [type : {"USER_REGISTER"}, arg : Handle]
    BY DEF Frame
  <1>2. \A r \in RoomName : Frame("JOIN_ROOM", r) \in [type : {"JOIN_ROOM"}, arg : RoomName]
    BY DEF Frame
  <1>3. \A t \in {"LEAVE_ROOM", "DISCONNECT"} \cup Query :
           Frame(t, NoRoom) \in [type : {"LEAVE_ROOM", "DISCONNECT"} \cup Query, arg : {NoRoom}]
    BY DEF Frame
  <1>4. \A x \in Text, r \in RoomName :
           [type |-> "CHAT_MESSAGE", arg |-> x, room |-> r]
             \in [type : {"CHAT_MESSAGE"}, arg : Text, room : RoomName]
    OBVIOUS
  <1>5. \A x \in Text, h \in Handle :
           [type |-> "PRIVATE_MESSAGE", arg |-> x, target |-> h]
             \in [type : {"PRIVATE_MESSAGE"}, arg : Text, target : Handle]
    OBVIOUS
  <1>6. \A q \in Query : q \notin {"USER_REGISTER", "JOIN_ROOM", "LEAVE_ROOM",
                                   "CHAT_MESSAGE", "PRIVATE_MESSAGE", "DISCONNECT"}
    BY GatewayAssumption
  <1> QED
    BY <1>1, <1>2, <1>3, <1>4, <1>5, <1>6 DEF Sent

(* Changing a session.                                                     *)
LEMMA SessionChange ==
    ASSUME Types, NEW c \in Client, NEW s, session' = [session EXCEPT ![c] = s]
    PROVE  session'[c] = s /\ \A d \in Client \ {c} : session'[d] = session[d]
  BY DEF Types

LEMMA AskedStep ==
    ASSUME Types, NEW c \in Client, BrowserAsks(c)
    PROVE  Asked(c)
  <1>0. session[c] \in Session
    BY DEF Types
  <1>1. ASSUME NEW u \in Username, NEW e \in Email, NEW s \in Status, Register(c, u, e, s)
        PROVE  Asked(c)
    <2> DEFINE h == HandleOf[u]
               new == [session[c] EXCEPT !.username = h, !.owner = CleanEmail[e], !.status = s]
               f == Frame("USER_REGISTER", h)
    <2>1. new.username = h /\ new.open = session[c].open /\ new.room = session[c].room
      BY <1>0 DEF Session
    <2>2. session' = [session EXCEPT ![c] = new]
      BY <1>1 DEF Register, Types, Session
    <2>3. f \in Sent /\ f.type = "USER_REGISTER" /\ f.arg = h
      <3>1. h \in Handle
        BY <1>1, RegisterStep
      <3> QED
        BY <3>1, SentFrames DEF Frame
    <2>4. Write(c, f) /\ Keep /\ session[c].open /\ Len(toServer[c]) < MaxQueue
      BY <1>1 DEF Register, Asks
    <2> HIDE DEF new, f
    <2>5. session'[c] = new /\ \A d \in Client \ {c} : session'[d] = session[d]
      BY <2>2, SessionChange
    <2>6. Speaks(c, f)
      BY <2>1, <2>3, <2>5 DEF Speaks
    <2> QED
      BY <2>1, <2>3, <2>4, <2>5, <2>6 DEF Asked
  <1>2. ASSUME NEW s \in Status, UpdateStatus(c, s)
        PROVE  Asked(c)
    <2> DEFINE new == [session[c] EXCEPT !.status = s]
    <2>1. /\ new.username = session[c].username
          /\ new.open = session[c].open /\ new.room = session[c].room
      BY <1>0 DEF Session
    <2>2. session' = [session EXCEPT ![c] = new]
      BY <1>2 DEF UpdateStatus
    <2>3. Keep /\ session[c].open /\ Len(toServer[c]) < MaxQueue /\ UNCHANGED toServer
      BY <1>2 DEF UpdateStatus, Asks
    <2> HIDE DEF new
    <2>4. session'[c] = new /\ \A d \in Client \ {c} : session'[d] = session[d]
      BY <2>2, SessionChange
    <2> QED
      BY <2>1, <2>3, <2>4 DEF Asked
  <1>3. ASSUME NEW f \in Sent, Write(c, f), Keep, Asks(c), UNCHANGED session,
               f.type \notin {"USER_REGISTER", "JOIN_ROOM", "LEAVE_ROOM"},
               f.type = "CHAT_MESSAGE" =>
                  session[c].username # NoHandle /\ f.room = session[c].room
        PROVE  Asked(c)
    <2>1. Speaks(c, f)
      BY <1>3 DEF Speaks
    <2> QED
      BY <1>3, <2>1 DEF Asked, Asks
  <1>4. ASSUME NEW x \in Text, Chat(c, x)
        PROVE  Asked(c)
    <2> DEFINE f == [type |-> "CHAT_MESSAGE", arg |-> x, room |-> session[c].room]
    <2>1. f \in Sent /\ f.type = "CHAT_MESSAGE" /\ f.room = session[c].room
      BY <1>0, SentFrames DEF Session
    <2>2. Write(c, f) /\ Keep /\ Asks(c) /\ UNCHANGED session /\ session[c].username # NoHandle
      BY <1>4 DEF Chat
    <2> HIDE DEF f
    <2> QED
      BY <1>3, <2>1, <2>2
  <1>5. ASSUME NEW t \in Handle, NEW x \in Text, PrivateMessage(c, t, x)
        PROVE  Asked(c)
    <2> DEFINE f == [type |-> "PRIVATE_MESSAGE", arg |-> x, target |-> t]
    <2>1. f \in Sent /\ f.type = "PRIVATE_MESSAGE"
      BY SentFrames
    <2>2. Write(c, f) /\ Keep /\ Asks(c) /\ UNCHANGED session
      BY <1>5 DEF PrivateMessage
    <2> HIDE DEF f
    <2> QED
      BY <1>3, <2>1, <2>2
  <1>6. ASSUME NEW q \in Query, PassOn(c, q)
        PROVE  Asked(c)
    <2> DEFINE f == Frame(q, NoRoom)
    <2>1. f \in Sent /\ f.type \notin {"USER_REGISTER", "JOIN_ROOM", "LEAVE_ROOM", "CHAT_MESSAGE"}
      BY SentFrames DEF Frame
    <2>2. Write(c, f) /\ Keep /\ Asks(c) /\ UNCHANGED session
      BY <1>6 DEF PassOn
    <2> HIDE DEF f
    <2> QED
      BY <1>3, <2>1, <2>2
  <1>7. ASSUME NEW r \in RoomName, NEW f \in Sent, GoTo(c, r), Write(c, f), Keep, Asks(c),
               \/ f.type = "JOIN_ROOM" /\ f.arg = r /\ r # NoRoom
               \/ f.type = "LEAVE_ROOM" /\ r = General
        PROVE  Asked(c)
    <2> DEFINE new == [session[c] EXCEPT !.room = r]
    <2>1. /\ new.username = session[c].username
          /\ new.open = session[c].open /\ new.room = r
      BY <1>0 DEF Session
    <2>2. session' = [session EXCEPT ![c] = new]
      BY <1>7 DEF GoTo
    <2> HIDE DEF new
    <2>3. session'[c] = new /\ \A d \in Client \ {c} : session'[d] = session[d]
      BY <2>2, SessionChange
    <2>4. Speaks(c, f)
      BY <1>7, <2>1, <2>3 DEF Speaks
    <2> QED
      BY <1>7, <2>1, <2>3, <2>4 DEF Asked, Asks
  <1>8. ASSUME NEW r \in RoomName, NEW p \in Password \cup {NoPassword}, JoinRoom(c, r, p)
        PROVE  Asked(c)
    <2> DEFINE f == Frame("JOIN_ROOM", r)
    <2>1. f \in Sent /\ f.type = "JOIN_ROOM" /\ f.arg = r
      BY SentFrames DEF Frame
    <2>2. Write(c, f) /\ Keep /\ Asks(c) /\ GoTo(c, r)
      BY <1>8 DEF JoinRoom
    <2>3. r # NoRoom
      BY <1>8, GatewayAssumption DEF JoinRoom, RoomGranted
    <2> HIDE DEF f
    <2> QED
      BY <1>7, <2>1, <2>2, <2>3
  <1>9. ASSUME LeaveRoom(c)
        PROVE  Asked(c)
    <2> DEFINE f == Frame("LEAVE_ROOM", NoRoom)
    <2>1. f \in Sent /\ f.type = "LEAVE_ROOM" /\ General \in RoomName
      BY SentFrames, GatewayAssumption DEF Frame
    <2>2. Write(c, f) /\ Keep /\ Asks(c) /\ GoTo(c, General)
      BY <1>9 DEF LeaveRoom
    <2> HIDE DEF f
    <2> QED
      BY <1>7, <2>1, <2>2
  <1> QED
    BY <1>1, <1>2, <1>4, <1>5, <1>6, <1>8, <1>9 DEF BrowserAsks

------------------------------------------------------------------------------
(* The server's steps.                                                     *)

SameUser(d) ==
    /\ d \in DOMAIN usersById' <=> d \in DOMAIN usersById
    /\ d \in DOMAIN usersById => usersById'[d] = usersById[d]

(* A frame that is not refused does to the record what Headed expects.     *)
Taking(c) ==
    /\ c \in conn /\ toServer[c] # << >>
    /\ toServer' = [toServer EXCEPT ![c] = Tail(@)]
    /\ UNCHANGED <<session, tcp, conn>>
    /\ \A d \in Client \ {c} : SameUser(d)
    /\ DOMAIN usersById' \subseteq DOMAIN usersById \cup {c}
    /\ \/ Refuses(c, Head(toServer[c]))
       \/ Known(usersById', c) = Taken(Known(usersById, c), Head(toServer[c]))
    /\ Watch({d \in {c} : Refuses(c, Head(toServer[c]))})

Hanging(c) ==
    /\ conn' = conn \ {c}
    /\ toServer' = [toServer EXCEPT ![c] = << >>]
    /\ UNCHANGED <<session, tcp>>
    /\ \A d \in Client \ {c} : SameUser(d)
    /\ DOMAIN usersById' \subseteq DOMAIN usersById \ {c}
    /\ Watch({})

LEMMA TypedUsers ==
    ASSUME RMP!IInv
    PROVE  /\ DOMAIN usersById \subseteq Client
           /\ \A c \in DOMAIN usersById :
                 /\ usersById[c] = [username |-> usersById[c].username,
                                    currentRoom |-> usersById[c].currentRoom]
                 /\ usersById[c].username \in Handle
                 /\ usersById[c].username # NoHandle
                 /\ usersById[c].currentRoom \in RoomName
  <1>1. RMP!TypeOK
    BY DEF RMP!IInv
  <1>2. \A c \in DOMAIN usersById : usersById[c] \in [username : Handle, currentRoom : RoomName]
    BY <1>1 DEF RMP!TypeOK, RMP!UserInfo
  <1>3. NoHandle \notin Handle
    BY DEF Handle
  <1> QED
    BY <1>1, <1>2, <1>3 DEF RMP!TypeOK

LEMMA KnownType ==
    ASSUME RMP!IInv, NEW c \in Client
    PROVE  /\ Known(usersById, c) \in Who
           /\ Known(usersById, c).username # NoHandle <=> c \in DOMAIN usersById
           /\ c \in DOMAIN usersById => Known(usersById, c).room = usersById[c].currentRoom
  <1>1. General \in RoomName
    BY GatewayAssumption
  <1> QED
    BY <1>1, TypedUsers DEF Known, NotRegistered, Who

(* Only the record of c is written.                                        *)
LEMMA SetUserFacts ==
    ASSUME NEW c \in Client, NEW n, NEW r,
           usersById' = [d \in DOMAIN usersById \cup {c} |->
                           IF d = c THEN [username |-> n, currentRoom |-> r] ELSE usersById[d]]
    PROVE  /\ \A d \in Client \ {c} : SameUser(d)
           /\ DOMAIN usersById' \subseteq DOMAIN usersById \cup {c}
           /\ Known(usersById', c) = [username |-> n, room |-> r]
  BY DEF SameUser, Known

LEMMA TakeStep ==
    ASSUME Whole, NEW c \in Client, Take(c)
    PROVE  Taking(c) /\ (RMP!Next \/ UNCHANGED registry)
  <1> DEFINE f == Head(toServer[c])
  <1>1. /\ c \in conn /\ toServer[c] # << >>
        /\ TakeRegister(c, f) \/ TakeJoin(c, f) \/ TakeLeave(c, f) \/ TakeOther(f)
        /\ toServer' = [toServer EXCEPT ![c] = Tail(@)]
        /\ UNCHANGED <<session, tcp, conn>>
        /\ Watch({d \in {c} : Refuses(c, f)})
    BY DEF Take
  <1>2. RMP!IInv
    BY DEF Whole
  <1> HIDE DEF f
  <1> DEFINE Users == /\ \A d \in Client \ {c} : SameUser(d)
                      /\ DOMAIN usersById' \subseteq DOMAIN usersById \cup {c}
             As == Known(usersById', c) = Taken(Known(usersById, c), f)
  <1>3. UNCHANGED registry => Users /\ Known(usersById', c) = Known(usersById, c)
    BY DEF registry, SameUser, Known
  <1>4. CASE TakeRegister(c, f)
    <2>1. CASE RM!RegisterUser(c, f.arg)
      <3>1. usersById' = [d \in DOMAIN usersById \cup {c} |->
                IF d = c THEN [username |-> f.arg, currentRoom |-> General] ELSE usersById[d]]
        BY <2>1 DEF RM!RegisterUser, RM!SetUser
      <3>2. Users /\ Known(usersById', c) = [username |-> f.arg, room |-> General]
        BY <3>1, SetUserFacts
      <3>3. As
        BY <1>4, <3>2 DEF TakeRegister, Taken
      <3>4. f.arg \in Handle
        BY <2>1, GatewayAssumption DEF RM!RegisterUser, RM!CanRegister
      <3>5. RMP!Next
        BY <2>1, <3>4, SameOperations DEF RMP!Next
      <3> QED
        BY <1>1, <3>2, <3>3, <3>5 DEF Taking, f
    <2>2. CASE ~RM!CanRegister(f.arg) /\ UNCHANGED registry
      <3>1. Refuses(c, f)
        BY <1>4, <2>2 DEF TakeRegister, Refuses
      <3> QED
        BY <1>1, <1>3, <2>2, <3>1 DEF Taking, f
    <2> QED
      BY <1>4, <2>1, <2>2 DEF TakeRegister
  <1>5. CASE TakeJoin(c, f)
    <2>0. f.type = "JOIN_ROOM"
      BY <1>5 DEF TakeJoin
    <2>1. CASE RM!JoinRoom(c, f.arg)
      <3>1. /\ c \in DOMAIN usersById /\ f.arg \in ValidRoomName
            /\ usersById' = [d \in DOMAIN usersById \cup {c} |->
                  IF d = c THEN [usersById[c] EXCEPT !.currentRoom = f.arg] ELSE usersById[d]]
        BY <2>1 DEF RM!JoinRoom, RM!SetUser
      <3>2. [usersById[c] EXCEPT !.currentRoom = f.arg]
              = [username |-> usersById[c].username, currentRoom |-> f.arg]
        BY <1>2, <3>1, TypedUsers
      <3>3. Users /\ Known(usersById', c) = [username |-> usersById[c].username, room |-> f.arg]
        BY <3>1, <3>2, SetUserFacts
      <3>4. As
        <4>1. Known(usersById, c) = [username |-> usersById[c].username,
                                     room |-> usersById[c].currentRoom]
          BY <3>1 DEF Known
        <4>2. usersById[c].username # NoHandle
          BY <1>2, <3>1, TypedUsers
        <4> QED
          BY <2>0, <3>3, <4>1, <4>2 DEF Taken
      <3>5. RMP!Next
        <4>1. f.arg \in RoomName
          BY <3>1, GatewayAssumption
        <4> QED
          BY <2>1, <4>1, SameOperations DEF RMP!Next
      <3> QED
        BY <1>1, <3>3, <3>4, <3>5 DEF Taking, f
    <2>2. CASE (CanJoin(c, f.arg) => usersById[c].currentRoom = f.arg) /\ UNCHANGED registry
      <3>1. CASE ~CanJoin(c, f.arg)
        <4>1. Refuses(c, f)
          BY <2>0, <3>1 DEF Refuses
        <4> QED
          BY <1>1, <1>3, <2>2, <4>1 DEF Taking, f
      <3>2. CASE CanJoin(c, f.arg)
        <4>1. c \in DOMAIN usersById /\ usersById[c].currentRoom = f.arg
          BY <2>2, <3>2 DEF CanJoin
        <4>2. Known(usersById, c) = [username |-> usersById[c].username, room |-> f.arg]
          BY <4>1 DEF Known
        <4>3. Taken(Known(usersById, c), f) = Known(usersById, c)
          BY <2>0, <4>2 DEF Taken
        <4> QED
          BY <1>1, <1>3, <2>2, <4>3 DEF Taking, f
      <3> QED
        BY <3>1, <3>2
    <2> QED
      BY <1>5, <2>1, <2>2 DEF TakeJoin
  <1>6. CASE TakeLeave(c, f)
    <2>0. f.type = "LEAVE_ROOM"
      BY <1>6 DEF TakeLeave
    <2>1. CASE RM!LeaveRoom(c)
      <3>1. /\ c \in DOMAIN usersById
            /\ usersById' = [d \in DOMAIN usersById \cup {c} |->
                  IF d = c THEN [usersById[c] EXCEPT !.currentRoom = General] ELSE usersById[d]]
        BY <2>1 DEF RM!LeaveRoom, RM!SetUser
      <3>2. [usersById[c] EXCEPT !.currentRoom = General]
              = [username |-> usersById[c].username, currentRoom |-> General]
        BY <1>2, <3>1, TypedUsers
      <3>3. Users /\ Known(usersById', c) = [username |-> usersById[c].username, room |-> General]
        BY <3>1, <3>2, SetUserFacts
      <3>4. As
        <4>1. Known(usersById, c) = [username |-> usersById[c].username,
                                     room |-> usersById[c].currentRoom]
          BY <3>1 DEF Known
        <4> QED
          BY <2>0, <3>3, <4>1 DEF Taken
      <3>5. RMP!Next
        BY <2>1, SameOperations DEF RMP!Next
      <3> QED
        BY <1>1, <3>3, <3>4, <3>5 DEF Taking, f
    <2>2. CASE (c \in DOMAIN usersById => usersById[c].currentRoom = General) /\ UNCHANGED registry
      <3>1. Known(usersById, c) = [username |-> Known(usersById, c).username, room |-> General]
        BY <2>2 DEF Known, NotRegistered
      <3>2. Taken(Known(usersById, c), f) = Known(usersById, c)
        BY <2>0, <3>1 DEF Taken
      <3> QED
        BY <1>1, <1>3, <2>2, <3>2 DEF Taking, f
    <2> QED
      BY <1>6, <2>1, <2>2 DEF TakeLeave
  <1>7. CASE TakeOther(f)
    <2>1. f.type \notin {"USER_REGISTER", "JOIN_ROOM", "LEAVE_ROOM"}
      BY <1>7, GatewayAssumption DEF TakeOther
    <2>2. Taken(Known(usersById, c), f) = Known(usersById, c)
      BY <2>1 DEF Taken
    <2>3. UNCHANGED registry
      BY <1>7 DEF TakeOther
    <2> QED
      BY <1>1, <1>3, <2>2, <2>3 DEF Taking, f
  <1> QED
    BY <1>1, <1>4, <1>5, <1>6, <1>7

LEMMA HangsStep ==
    ASSUME Whole, NEW c \in Client, Hangs(c)
    PROVE  Hanging(c) /\ (RMP!Next \/ UNCHANGED registry)
  <1>1. CASE RM!UnregisterUser(c)
    <2>1. usersById' = [d \in DOMAIN usersById \ {c} |-> usersById[d]]
      BY <1>1 DEF RM!UnregisterUser
    <2>2. /\ \A d \in Client \ {c} : SameUser(d)
          /\ DOMAIN usersById' \subseteq DOMAIN usersById \ {c}
      BY <2>1 DEF SameUser
    <2>3. RMP!Next
      BY <1>1, SameOperations DEF RMP!Next
    <2> QED
      BY <2>2, <2>3 DEF Hanging, Hangs
  <1>2. CASE c \notin DOMAIN usersById /\ UNCHANGED registry
    <2>1. /\ \A d \in Client \ {c} : SameUser(d)
          /\ DOMAIN usersById' \subseteq DOMAIN usersById \ {c}
      BY <1>2 DEF SameUser, registry
    <2> QED
      BY <1>2, <2>1 DEF Hanging, Hangs
  <1> QED
    BY <1>1, <1>2 DEF Hangs

------------------------------------------------------------------------------
(* The other steps of the gateway's sockets.                               *)

Opening(c) ==
    /\ ~session[c].open /\ tcp[c] = "destroyed" /\ c \notin conn
    /\ session'[c].username = NoHandle /\ session'[c].room = General
    /\ \A d \in Client \ {c} : session'[d] = session[d]
    /\ tcp' = [tcp EXCEPT ![c] = "open"]
    /\ conn' \in {conn, conn \cup {c}}
    /\ drifted' = drifted \ {c}
    /\ UNCHANGED <<toServer, registry>>

Leaving(c) ==
    /\ session[c].open /\ ~session'[c].open
    /\ session'[c].username = session[c].username
    /\ session'[c].room = session[c].room
    /\ \A d \in Client \ {c} : session'[d] = session[d]
    /\ Write(c, Frame("DISCONNECT", NoRoom))
    /\ tcp' = [tcp EXCEPT ![c] = IF @ = "open" THEN "ended" ELSE @]
    /\ UNCHANGED <<conn, registry>>
    /\ Watch({})

LEMMA OpeningStep ==
    ASSUME Types, NEW c \in Client, Connect(c)
    PROVE  Opening(c)
  <1> DEFINE new == [Closed EXCEPT !.open = TRUE]
  <1>1. new.username = NoHandle /\ new.room = General
    BY DEF Closed
  <1>2. session' = [session EXCEPT ![c] = new]
    BY DEF Connect
  <1> HIDE DEF new
  <1>3. session'[c] = new /\ \A d \in Client \ {c} : session'[d] = session[d]
    BY <1>2, SessionChange
  <1> QED
    BY <1>1, <1>3 DEF Connect, Opening

LEMMA LeavingStep ==
    ASSUME Types, NEW c \in Client, WsClose(c)
    PROVE  Leaving(c)
  <1> DEFINE new == [session[c] EXCEPT !.open = FALSE]
  <1>1. session[c] \in Session
    BY DEF Types
  <1>2. ~new.open /\ new.username = session[c].username /\ new.room = session[c].room
    BY <1>1 DEF Session
  <1>3. session' = [session EXCEPT ![c] = new]
    BY DEF WsClose
  <1> HIDE DEF new
  <1>4. session'[c] = new /\ \A d \in Client \ {c} : session'[d] = session[d]
    BY <1>3, SessionChange
  <1> QED
    BY <1>2, <1>4 DEF WsClose, Leaving

(* Every step is one of these.                                             *)
Closing(c) ==
    /\ tcp[c] # "destroyed" /\ c \notin conn
    /\ tcp' = [tcp EXCEPT ![c] = "destroyed"]
    /\ UNCHANGED <<session, toServer, conn, registry>>
    /\ Watch({})

Still == UNCHANGED <<session, tcp, toServer, conn, registry, drifted>>

LEMMA Steps ==
    ASSUME Whole, [Next]_vars
    PROVE  /\ \/ Still
              \/ \E c \in Client : \/ Opening(c) \/ Asked(c) \/ Leaving(c) \/ Closing(c)
                                   \/ Taking(c) \/ Hanging(c)
           /\ RMP!Next \/ UNCHANGED registry
  <1>0. Types
    BY DEF Whole
  <1>1. ASSUME NEW c \in Client, Connect(c)
        PROVE  Opening(c) /\ UNCHANGED registry
    BY <1>0, <1>1, OpeningStep DEF Opening
  <1>2. ASSUME NEW c \in Client, BrowserAsks(c)
        PROVE  Asked(c) /\ UNCHANGED registry
    BY <1>0, <1>2, AskedStep DEF Asked, Keep
  <1>3. ASSUME NEW c \in Client, WsClose(c)
        PROVE  Leaving(c) /\ UNCHANGED registry
    BY <1>0, <1>3, LeavingStep DEF Leaving
  <1>4. ASSUME NEW c \in Client, TcpClose(c)
        PROVE  Closing(c) /\ UNCHANGED registry
    BY <1>4 DEF TcpClose, Closing
  <1>5. ASSUME NEW c \in Client, Take(c)
        PROVE  Taking(c) /\ (RMP!Next \/ UNCHANGED registry)
    BY <1>5, TakeStep
  <1>6. ASSUME NEW c \in Client, TakeDisconnect(c) \/ Drop(c)
        PROVE  Hanging(c) /\ (RMP!Next \/ UNCHANGED registry)
    BY <1>6, HangsStep DEF TakeDisconnect, Drop
  <1>7. CASE UNCHANGED vars
    BY <1>7 DEF vars, bridge, registry, Still
  <1> QED
    BY <1>1, <1>2, <1>3, <1>4, <1>5, <1>6, <1>7 DEF Next

------------------------------------------------------------------------------
LEMMA WriteFacts ==
    ASSUME Linked, NEW c \in Client, NEW f \in Sent, Write(c, f)
    PROVE  /\ toServer' \in [Client -> Seq(Sent)]
           /\ \A d \in Client \ {c} : toServer'[d] = toServer[d]
           /\ Len(toServer'[c]) <= Len(toServer[c]) + 1
           /\ toServer'[c] # << >> => c \in conn
           /\ \/ /\ tcp[c] = "open" /\ c \in conn
                 /\ toServer'[c] = Append(toServer[c], f)
              \/ /\ ~(tcp[c] = "open" /\ c \in conn)
                 /\ toServer'[c] = toServer[c]
  <1>1. toServer \in [Client -> Seq(Sent)] /\ (toServer[c] # << >> => c \in conn)
    BY DEF Linked
  <1>2. Len(toServer[c]) \in Nat
    BY <1>1, LenProperties
  <1>3. CASE tcp[c] = "open" /\ c \in conn
    <2> DEFINE q == Append(toServer[c], f)
    <2>1. q \in Seq(Sent) /\ Len(q) = Len(toServer[c]) + 1
      BY <1>1, AppendProperties
    <2>2. toServer' = [toServer EXCEPT ![c] = q]
      BY <1>3 DEF Write
    <2> HIDE DEF q
    <2>3. /\ toServer' \in [Client -> Seq(Sent)] /\ toServer'[c] = q
          /\ \A d \in Client \ {c} : toServer'[d] = toServer[d]
      BY <1>1, <2>1, <2>2
    <2> QED
      BY <1>2, <1>3, <2>1, <2>3 DEF q
  <1>4. CASE ~(tcp[c] = "open" /\ c \in conn)
    <2>1. toServer' = toServer
      BY <1>4 DEF Write
    <2> QED
      BY <1>1, <1>2, <1>4, <2>1
  <1> QED
    BY <1>3, <1>4

(* The state of one connection.                                            *)
OneLinked(c) ==
    /\ session[c].room # NoRoom
    /\ session[c].open => tcp[c] # "ended" /\ Len(toServer[c]) <= MaxQueue
    /\ session[c].open /\ c \in conn => tcp[c] = "open"
    /\ Len(toServer[c]) <= MaxQueue + 1
    /\ toServer[c] # << >> => c \in conn

LEMMA LinkedInit == Init => Linked
  <1> SUFFICES ASSUME Init PROVE Linked
    OBVIOUS
  <1>1. << >> \in Seq(Sent) /\ Len(<< >>) = 0 /\ MaxQueue \in Nat /\ General # NoRoom
    BY EmptySeq, GatewayAssumption
  <1>2. toServer \in [Client -> Seq(Sent)] /\ \A c \in Client : toServer[c] = << >>
    BY <1>1 DEF Init
  <1>3. \A c \in Client : session[c].room = General /\ ~session[c].open
    BY ClosedType DEF Init
  <1>4. tcp \in [Client -> {"open", "ended", "destroyed"}]
    BY DEF Init
  <1>5. DOMAIN usersById = {}
    BY DEF Init, RM!Init
  <1>6. 0 <= MaxQueue + 1
    BY <1>1
  <1>7. \A c \in Client : OneLinked(c)
    BY <1>1, <1>2, <1>3, <1>6 DEF OneLinked
  <1> QED
    BY <1>2, <1>4, <1>5, <1>7 DEF Linked, OneLinked

(* What does not touch a connection leaves it as it was.                   *)
LEMMA Untouched ==
    ASSUME Linked, NEW d \in Client,
           session'[d] = session[d], tcp'[d] = tcp[d], toServer'[d] = toServer[d],
           d \in conn' <=> d \in conn
    PROVE  OneLinked(d)'
  BY DEF Linked, OneLinked

LEMMA LinkedStep ==
    ASSUME Whole, [Next]_vars
    PROVE  Linked'
  <1>0. /\ Linked /\ tcp \in [Client -> {"open", "ended", "destroyed"}]
        /\ toServer \in [Client -> Seq(Sent)] /\ DOMAIN usersById \subseteq conn
        /\ \A c \in Client : OneLinked(c)
        /\ \A c \in Client : Len(toServer[c]) \in Nat
        /\ MaxQueue \in Nat
    BY GatewayAssumption, LenProperties DEF Whole, Linked, OneLinked
  <1>1. CASE Still
    BY <1>0, <1>1 DEF Still, registry, Linked
  <1>2. ASSUME NEW c \in Client, Opening(c) PROVE Linked'
    <2>1. /\ tcp' \in [Client -> {"open", "ended", "destroyed"}] /\ tcp'[c] = "open"
          /\ \A d \in Client \ {c} : tcp'[d] = tcp[d]
      BY <1>0, <1>2 DEF Opening
    <2>2. \A d \in Client \ {c} : OneLinked(d)'
      BY <1>0, <1>2, <2>1, Untouched DEF Opening
    <2>3. toServer'[c] = << >>
      BY <1>0, <1>2 DEF Opening, OneLinked
    <2>4. Len(<< >>) = 0 /\ General # NoRoom
      BY EmptySeq, GatewayAssumption
    <2>5. 0 <= MaxQueue /\ 0 <= MaxQueue + 1
      BY <1>0
    <2>6. OneLinked(c)'
      BY <1>2, <2>1, <2>3, <2>4, <2>5 DEF Opening, OneLinked
    <2>7. UNCHANGED <<toServer, usersById>> /\ conn \subseteq conn'
      BY <1>2 DEF Opening, registry
    <2> QED
      BY <1>0, <2>1, <2>2, <2>6, <2>7 DEF Linked, OneLinked
  <1>3. ASSUME NEW c \in Client, Asked(c) PROVE Linked'
    <2>1. /\ session[c].open /\ session'[c].open /\ Len(toServer[c]) < MaxQueue
          /\ UNCHANGED <<tcp, conn, usersById>>
          /\ \A d \in Client \ {c} : session'[d] = session[d]
      BY <1>3 DEF Asked, Keep, registry
    <2>2. /\ session'[c].room # NoRoom /\ toServer' \in [Client -> Seq(Sent)]
          /\ \A d \in Client \ {c} : toServer'[d] = toServer[d]
          /\ Len(toServer'[c]) <= Len(toServer[c]) + 1
          /\ toServer'[c] # << >> => c \in conn
      <3>1. CASE UNCHANGED toServer /\ session'[c].room = session[c].room
        BY <1>0, <3>1 DEF OneLinked
      <3>2. ASSUME NEW f \in Sent, Write(c, f), Speaks(c, f)
            PROVE  session'[c].room # NoRoom
        BY <1>0, <3>2, GatewayAssumption DEF Speaks, OneLinked
      <3> QED
        BY <1>0, <1>3, <3>1, <3>2, WriteFacts DEF Asked
    <2>3. \A d \in Client \ {c} : OneLinked(d)'
      BY <1>0, <2>1, <2>2, Untouched
    <2>4. Len(toServer'[c]) \in Nat
      BY <2>2, LenProperties
    <2>5. Len(toServer'[c]) <= MaxQueue /\ Len(toServer'[c]) <= MaxQueue + 1
      BY <1>0, <2>1, <2>2, <2>4
    <2>6. OneLinked(c)'
      BY <1>0, <2>1, <2>2, <2>5 DEF OneLinked
    <2> QED
      BY <1>0, <2>1, <2>2, <2>3, <2>6 DEF Linked, OneLinked
  <1>4. ASSUME NEW c \in Client, Leaving(c) PROVE Linked'
    <2>1. /\ session[c].open /\ ~session'[c].open /\ session'[c].room = session[c].room
          /\ UNCHANGED <<conn, usersById>>
          /\ \A d \in Client \ {c} : session'[d] = session[d]
      BY <1>4 DEF Leaving, registry
    <2>2. /\ tcp' \in [Client -> {"open", "ended", "destroyed"}]
          /\ \A d \in Client \ {c} : tcp'[d] = tcp[d]
      BY <1>0, <1>4 DEF Leaving
    <2>3. /\ toServer' \in [Client -> Seq(Sent)]
          /\ \A d \in Client \ {c} : toServer'[d] = toServer[d]
          /\ Len(toServer'[c]) <= Len(toServer[c]) + 1
          /\ toServer'[c] # << >> => c \in conn
      BY <1>0, <1>4, SentFrames, WriteFacts DEF Leaving
    <2>4. \A d \in Client \ {c} : OneLinked(d)'
      BY <1>0, <2>1, <2>2, <2>3, Untouched
    <2>5. Len(toServer'[c]) \in Nat /\ Len(toServer[c]) <= MaxQueue
      BY <1>0, <2>1, <2>3, LenProperties DEF OneLinked
    <2>6. Len(toServer'[c]) <= MaxQueue + 1
      BY <1>0, <2>3, <2>5
    <2>7. OneLinked(c)'
      BY <1>0, <2>1, <2>3, <2>6 DEF OneLinked
    <2> QED
      BY <1>0, <2>1, <2>2, <2>3, <2>4, <2>7 DEF Linked, OneLinked
  <1>5. ASSUME NEW c \in Client, Closing(c) PROVE Linked'
    <2>1. /\ tcp' \in [Client -> {"open", "ended", "destroyed"}] /\ tcp'[c] = "destroyed"
          /\ \A d \in Client \ {c} : tcp'[d] = tcp[d]
      BY <1>0, <1>5 DEF Closing
    <2>2. c \notin conn /\ UNCHANGED <<session, toServer, conn, usersById>>
      BY <1>5 DEF Closing, registry
    <2>3. \A d \in Client \ {c} : OneLinked(d)'
      BY <1>0, <2>1, <2>2, Untouched
    <2>4. OneLinked(c)'
      BY <1>0, <2>1, <2>2 DEF OneLinked
    <2> QED
      BY <1>0, <2>1, <2>2, <2>3, <2>4 DEF Linked, OneLinked
  <1>6. ASSUME NEW c \in Client, Taking(c) PROVE Linked'
    <2>1. /\ c \in conn /\ toServer[c] # << >> /\ UNCHANGED <<session, tcp, conn>>
          /\ toServer' = [toServer EXCEPT ![c] = Tail(@)]
          /\ DOMAIN usersById' \subseteq DOMAIN usersById \cup {c}
      BY <1>6 DEF Taking
    <2>2. Tail(toServer[c]) \in Seq(Sent) /\ Len(Tail(toServer[c])) = Len(toServer[c]) - 1
      BY <1>0, <2>1, HeadTailProperties
    <2>3. /\ toServer' \in [Client -> Seq(Sent)]
          /\ toServer'[c] = Tail(toServer[c])
          /\ \A d \in Client \ {c} : toServer'[d] = toServer[d]
      BY <1>0, <2>1, <2>2
    <2>4. \A d \in Client \ {c} : OneLinked(d)'
      BY <1>0, <2>1, <2>3, Untouched
    <2>5. PICK n \in Nat : n = Len(toServer[c])
      BY <1>0
    <2>6. Len(toServer'[c]) = n - 1
      BY <2>2, <2>3, <2>5
    <2>7. /\ n <= MaxQueue => Len(toServer'[c]) <= MaxQueue
          /\ n <= MaxQueue + 1 => Len(toServer'[c]) <= MaxQueue + 1
      BY <1>0, <2>6
    <2>8. OneLinked(c)'
      BY <1>0, <2>1, <2>5, <2>7 DEF OneLinked
    <2> QED
      BY <1>0, <2>1, <2>3, <2>4, <2>8 DEF Linked, OneLinked
  <1>7. ASSUME NEW c \in Client, Hanging(c) PROVE Linked'
    <2>1. /\ conn' = conn \ {c} /\ UNCHANGED <<session, tcp>>
          /\ toServer' = [toServer EXCEPT ![c] = << >>]
          /\ DOMAIN usersById' \subseteq DOMAIN usersById \ {c}
      BY <1>7 DEF Hanging
    <2>2. << >> \in Seq(Sent) /\ Len(<< >>) = 0
      BY EmptySeq
    <2>3. /\ toServer' \in [Client -> Seq(Sent)]
          /\ toServer'[c] = << >>
          /\ \A d \in Client \ {c} : toServer'[d] = toServer[d]
      BY <1>0, <2>1, <2>2
    <2>4. \A d \in Client \ {c} : OneLinked(d)'
      BY <1>0, <2>1, <2>3, Untouched
    <2>5. 0 <= MaxQueue /\ 0 <= MaxQueue + 1
      BY <1>0
    <2>6. OneLinked(c)'
      BY <1>0, <2>1, <2>2, <2>3, <2>5 DEF OneLinked
    <2> QED
      BY <1>0, <2>1, <2>3, <2>4, <2>6 DEF Linked, OneLinked
  <1> QED
    BY <1>1, <1>2, <1>3, <1>4, <1>5, <1>6, <1>7, Steps

LEMMA WholeInit == Init => Whole
  <1> SUFFICES ASSUME Init PROVE Whole
    OBVIOUS
  <1>1. RMP!Init
    BY DEF Init, RM!Init, RMP!Init
  <1>2. RMP!IInv
    BY <1>1, RegistryAssumption, RMP!InitIInv
  <1> QED
    BY <1>2, TypesInit, LinkedInit DEF Whole

LEMMA WholeStep ==
    ASSUME Whole, [Next]_vars
    PROVE  Whole'
  <1>1. RMP!Next \/ UNCHANGED RMP!vars
    BY Steps DEF registry, RMP!vars
  <1>2. RMP!IInv'
    BY <1>1, RegistryAssumption, RMP!NextIInv DEF Whole
  <1>3. Types'
    BY TypesStep DEF Whole
  <1> QED
    BY <1>2, <1>3, LinkedStep DEF Whole

LEMMA WholeHolds == Spec => []Whole
  BY WholeInit, WholeStep, PTL DEF Spec

(* Whole is the type invariant, and more.                                  *)
LEMMA WholeTypes == Whole => TypeOK
  <1> SUFFICES ASSUME Whole PROVE TypeOK
    OBVIOUS
  <1>1. /\ DOMAIN presence \subseteq Handle /\ DOMAIN usersById \subseteq conn
        /\ \A c \in Client : session[c] \in Session
        /\ tcp \in [Client -> {"open", "ended", "destroyed"}]
        /\ \A c \in Client : OneLinked(c)
    BY DEF Whole, Types, Linked, OneLinked
  <1>2. \A c \in Client : /\ session[c].username \in Handle \cup {NoHandle}
                          /\ session[c].room \in RoomName \ {NoRoom}
    BY <1>1 DEF Session, OneLinked
  <1>3. RM!TypeOK
    BY DEF Whole, RMP!IInv, RMP!TypeOK, RM!TypeOK, RMP!UserInfo, RM!UserInfo
  <1> QED
    BY <1>1, <1>2, <1>3 DEF TypeOK, OneLinked

(* Sessions, sockets, the frames under way and the server's registry keep  *)
(* their types and stay in step in every execution.                        *)
THEOREM TypeCorrect == Spec => []TypeOK
  BY WholeTypes, WholeHolds, PTL

------------------------------------------------------------------------------
(* Each chat message under way will find, when the server takes it up, its *)
(* sender in the room that it was stored under.                            *)
Placed(w, q) ==
    \A i \in 1 .. Len(q) : q[i].type = "CHAT_MESSAGE" =>
        /\ Course(w, q)[i - 1].username # NoHandle
        /\ Course(w, q)[i - 1].room = q[i].room

LEMMA PlacedAppend ==
    ASSUME NEW w \in Who, NEW q \in Seq(Sent), NEW f \in Sent, Placed(w, q),
           f.type = "CHAT_MESSAGE" => /\ Course(w, q)[Len(q)].username # NoHandle
                                      /\ Course(w, q)[Len(q)].room = f.room
    PROVE  Placed(w, Append(q, f))
  <1>1. PICK r : r = Append(q, f)
    OBVIOUS
  <1>2. PICK n \in Nat : n = Len(q)
    BY LenProperties
  <1>3. /\ Len(r) = n + 1 /\ r[n + 1] = f
        /\ \A i \in 1 .. n : r[i] = q[i]
        /\ \A i \in 0 .. n : Course(w, r)[i] = Course(w, q)[i]
    BY <1>1, <1>2, CourseAppend
  <1>4. ASSUME NEW i \in 1 .. n + 1, r[i].type = "CHAT_MESSAGE"
        PROVE  /\ Course(w, r)[i - 1].username # NoHandle
               /\ Course(w, r)[i - 1].room = r[i].room
    <2>1. CASE i = n + 1
      <3>1. i - 1 = n /\ n \in 0 .. n
        BY <2>1
      <3> QED
        BY <1>2, <1>3, <1>4, <2>1, <3>1
    <2>2. CASE i # n + 1
      <3>1. i \in 1 .. n /\ i - 1 \in 0 .. n
        BY <2>2
      <3> QED
        BY <1>2, <1>3, <1>4, <3>1 DEF Placed
    <2> QED
      BY <2>1, <2>2
  <1> QED
    BY <1>1, <1>3, <1>4 DEF Placed

LEMMA PlacedTail ==
    ASSUME NEW w \in Who, NEW q \in Seq(Sent), q # << >>, Placed(w, q)
    PROVE  Placed(Taken(w, Head(q)), Tail(q))
  <1>1. PICK r : r = Tail(q)
    OBVIOUS
  <1>2. PICK v : v = Taken(w, Head(q))
    OBVIOUS
  <1>3. PICK n \in Nat \ {0} : n = Len(q)
    BY EmptySeq
  <1>4. /\ Len(r) = n - 1
        /\ \A i \in 1 .. n - 1 : r[i] = q[i + 1]
        /\ \A i \in 0 .. n - 1 : Course(v, r)[i] = Course(w, q)[i + 1]
    BY <1>1, <1>2, <1>3, CourseTail
  <1>5. ASSUME NEW i \in 1 .. n - 1, r[i].type = "CHAT_MESSAGE"
        PROVE  /\ Course(v, r)[i - 1].username # NoHandle
               /\ Course(v, r)[i - 1].room = r[i].room
    <2>1. i - 1 \in 0 .. n - 1 /\ i + 1 \in 1 .. n /\ (i - 1) + 1 = i /\ (i + 1) - 1 = i
      OBVIOUS
    <2>2. r[i] = q[i + 1] /\ Course(v, r)[i - 1] = Course(w, q)[i]
      BY <1>4, <2>1
    <2> QED
      BY <1>3, <1>5, <2>1, <2>2 DEF Placed
  <1> QED
    BY <1>1, <1>2, <1>4, <1>5 DEF Placed

(* Who the session of a connection is.                                     *)
Speaker(c) == [username |-> session[c].username, room |-> session[c].room]

(* Gateway and server agree about a connection.                            *)
Agreed(c) ==
    c \in conn =>
        /\ session[c].username # NoHandle =>
              Course(Known(usersById, c), toServer[c])[Len(toServer[c])] = Speaker(c)
        /\ Placed(Known(usersById, c), toServer[c])

AllAgreed == \A c \in Client \ drifted : Agreed(c)

LEMMA DriftIs ==
    ASSUME NEW c
    PROVE  /\ Drift(c) <=>
                /\ c \in conn /\ session[c].username # NoHandle
                /\ Course(Known(usersById, c), toServer[c])[Len(toServer[c])] # Speaker(c)
           /\ Drift(c)' <=>
                /\ c \in conn' /\ session'[c].username # NoHandle
                /\ Course(Known(usersById', c), toServer'[c])[Len(toServer'[c])] # Speaker(c)'
  <1>1. /\ Headed(usersById, toServer[c], c)
             = Course(Known(usersById, c), toServer[c])[Len(toServer[c])]
        /\ Headed(usersById', toServer'[c], c)
             = Course(Known(usersById', c), toServer'[c])[Len(toServer'[c])]
    BY HeadedIs
  <1> QED
    BY <1>1 DEF Drift, Speaker

LEMMA WatchFacts ==
    ASSUME NEW odd, Watch(odd)
    PROVE  /\ drifted \subseteq drifted' /\ odd \subseteq drifted'
           /\ \A c \in Client \ drifted' : ~Drift(c)'
  BY DEF Watch

(* What a step by c does not touch.                                        *)
Same(d) ==
    /\ session'[d] = session[d] /\ toServer'[d] = toServer[d]
    /\ d \in conn' <=> d \in conn
    /\ Known(usersById', d) = Known(usersById, d)

LEMMA SameDrift ==
    ASSUME NEW d, Same(d)
    PROVE  (Drift(d)' <=> Drift(d)) /\ (Agreed(d)' <=> Agreed(d))
  BY DriftIs DEF Same, Agreed, Speaker

LEMMA SameKnown ==
    ASSUME NEW d, SameUser(d)
    PROVE  Known(usersById', d) = Known(usersById, d)
  BY DEF SameUser, Known

LEMMA OthersSame ==
    ASSUME Whole, NEW c \in Client,
           Opening(c) \/ Asked(c) \/ Leaving(c) \/ Closing(c) \/ Taking(c) \/ Hanging(c)
    PROVE  \A d \in Client \ {c} : Same(d)
  <1>0. Linked /\ toServer \in [Client -> Seq(Sent)]
    BY DEF Whole, Linked
  <1>1. CASE Opening(c)
    BY <1>1 DEF Opening, Same, registry
  <1>2. CASE Asked(c)
    <2>1. \A d \in Client \ {c} : toServer'[d] = toServer[d]
      BY <1>0, <1>2, WriteFacts DEF Asked
    <2> QED
      BY <1>2, <2>1 DEF Asked, Same, Keep, registry
  <1>3. CASE Leaving(c)
    <2>1. \A d \in Client \ {c} : toServer'[d] = toServer[d]
      BY <1>0, <1>3, SentFrames, WriteFacts DEF Leaving
    <2> QED
      BY <1>3, <2>1 DEF Leaving, Same, registry
  <1>4. CASE Closing(c)
    BY <1>4 DEF Closing, Same, registry
  <1>5. CASE Taking(c)
    BY <1>0, <1>5, SameKnown DEF Taking, Same
  <1>6. CASE Hanging(c)
    BY <1>0, <1>6, SameKnown DEF Hanging, Same
  <1> QED
    BY <1>1, <1>2, <1>3, <1>4, <1>5, <1>6

------------------------------------------------------------------------------
(* What is written on connection c goes with what is done to its session:  *)
(* unless a session outside General registers, they differ afterwards only *)
(* if they did before.                                                     *)
LEMMA SpeaksTogether ==
    ASSUME Whole, NEW c \in Client, NEW f \in Sent, Speaks(c, f),
           toServer'[c] = Append(toServer[c], f), c \in conn, c \in conn',
           usersById' = usersById, ~Drift(c)
    PROVE  /\ Drift(c)' => f.type = "USER_REGISTER" /\ session'[c].room # General
           /\ Agreed(c) => Placed(Known(usersById', c), toServer'[c])
  <1>1. PICK w : w = Known(usersById, c)
    OBVIOUS
  <1>2. PICK q : q = toServer[c]
    OBVIOUS
  <1>3. w \in Who /\ q \in Seq(Sent)
    BY <1>1, <1>2, KnownType DEF Whole, Linked
  <1>4. PICK now : now = Course(w, q)[Len(q)]
    OBVIOUS
  <1>5. Course(Known(usersById', c), toServer'[c])[Len(toServer'[c])] = Taken(now, f)
    BY <1>1, <1>2, <1>3, <1>4, CourseAppend
  <1>6. session[c].username # NoHandle => now = Speaker(c)
    BY <1>1, <1>2, <1>4, DriftIs
  <1>7. ASSUME Drift(c)'
        PROVE  f.type = "USER_REGISTER" /\ session'[c].room # General
    <2>1. session'[c].username # NoHandle /\ Taken(now, f) # Speaker(c)'
      BY <1>5, <1>7, DriftIs
    <2>2. CASE f.type = "USER_REGISTER"
      <3>1. Taken(now, f) = [username |-> session'[c].username, room |-> General]
        BY <2>2 DEF Taken, Speaks
      <3> QED
        BY <2>1, <2>2, <3>1 DEF Speaker
    <2>3. CASE f.type # "USER_REGISTER"
      <3>1. session'[c].username = session[c].username
        BY <2>3 DEF Speaks
      <3>2. /\ now = Speaker(c) /\ now.username = session[c].username
            /\ now.room = session[c].room /\ now.username # NoHandle
        BY <1>6, <2>1, <3>1 DEF Speaker
      <3>3. CASE f.type = "JOIN_ROOM"
        <4>1. Taken(now, f) = [username |-> session[c].username, room |-> f.arg]
          BY <3>2, <3>3 DEF Taken, Speaker
        <4> QED
          BY <2>1, <3>1, <3>3, <4>1 DEF Speaks, Speaker
      <3>4. CASE f.type = "LEAVE_ROOM"
        <4>1. Taken(now, f) = [username |-> session[c].username, room |-> General]
          BY <3>2, <3>4 DEF Taken, Speaker
        <4> QED
          BY <2>1, <3>1, <3>4, <4>1 DEF Speaks, Speaker
      <3>5. CASE f.type \notin {"JOIN_ROOM", "LEAVE_ROOM"}
        <4>1. Taken(now, f) = now
          BY <2>3, <3>5 DEF Taken
        <4>2. session'[c].room = session[c].room
          BY <2>3, <3>5 DEF Speaks
        <4> QED
          BY <2>1, <3>1, <3>2, <4>1, <4>2 DEF Speaker
      <3> QED
        BY <3>3, <3>4, <3>5
    <2> QED
      BY <2>2, <2>3
  <1>8. ASSUME Agreed(c)
        PROVE  Placed(Known(usersById', c), toServer'[c])
    <2>1. Placed(w, q)
      BY <1>1, <1>2, <1>8 DEF Agreed
    <2>2. ASSUME f.type = "CHAT_MESSAGE"
          PROVE  now.username # NoHandle /\ now.room = f.room
      <3>1. session[c].username # NoHandle /\ f.room = session[c].room
        BY <2>2 DEF Speaks
      <3> QED
        BY <1>6, <3>1 DEF Speaker
    <2> QED
      BY <1>1, <1>2, <1>3, <1>4, <2>1, <2>2, PlacedAppend
  <1> QED
    BY <1>7, <1>8

(* Frames that mean nothing to who speaks where.                           *)
LEMMA LeavingSpeaks ==
    ASSUME NEW c, Leaving(c)
    PROVE  Speaks(c, Frame("DISCONNECT", NoRoom))
  BY DEF Leaving, Speaks, Frame

(* A frame that is taken up and not refused changes nothing of what the    *)
(* server is headed for.                                                   *)
LEMMA TakingKeeps ==
    ASSUME Whole, NEW c \in Client, Taking(c), ~Refuses(c, Head(toServer[c]))
    PROVE  /\ Drift(c)' => Drift(c)
           /\ Agreed(c) => Placed(Known(usersById', c), toServer'[c])
  <1>1. PICK w : w = Known(usersById, c)
    OBVIOUS
  <1>2. PICK q : q = toServer[c]
    OBVIOUS
  <1>3. w \in Who /\ q \in Seq(Sent) /\ q # << >>
    BY <1>1, <1>2, KnownType DEF Whole, Linked, Taking
  <1>4. Known(usersById', c) = Taken(w, Head(q)) /\ c \in conn /\ UNCHANGED <<session, conn>>
    BY <1>1, <1>2 DEF Taking
  <1>5. toServer'[c] = Tail(q)
    BY <1>2 DEF Taking, Whole, Linked
  <1>6. Course(Taken(w, Head(q)), Tail(q))[Len(Tail(q))] = Course(w, q)[Len(q)]
    <2>1. PICK n \in Nat \ {0} : n = Len(q)
      BY <1>3, EmptySeq
    <2>2. n - 1 \in 0 .. n - 1 /\ (n - 1) + 1 = n
      BY <2>1
    <2>3. /\ Len(Tail(q)) = n - 1
          /\ \A i \in 0 .. n - 1 : Course(Taken(w, Head(q)), Tail(q))[i] = Course(w, q)[i + 1]
      BY <1>3, <2>1, CourseTail
    <2> QED
      BY <2>1, <2>2, <2>3
  <1>7. Drift(c)' => Drift(c)
    BY <1>1, <1>2, <1>4, <1>5, <1>6, DriftIs DEF Speaker
  <1>8. Agreed(c) => Placed(Known(usersById', c), toServer'[c])
    BY <1>1, <1>2, <1>3, <1>4, <1>5, PlacedTail DEF Agreed
  <1> QED
    BY <1>7, <1>8

(* A browser's step on an open session: its frame is written whenever the  *)
(* server still listens.                                                   *)
LEMMA WrittenOrDeaf ==
    ASSUME Whole, NEW c \in Client, NEW f \in Sent, Write(c, f), session[c].open,
           c \in conn
    PROVE  toServer'[c] = Append(toServer[c], f)
  <1>1. Linked /\ tcp[c] = "open"
    BY DEF Whole, Linked
  <1> QED
    BY <1>1, WriteFacts

(* What a step does to the connection that makes it.                       *)
LEMMA OwnStep ==
    ASSUME Whole, NEW c \in Client, ~Drift(c),
           \/ Opening(c) \/ Asked(c) \/ Leaving(c) \/ Closing(c)
           \/ Taking(c) /\ ~Refuses(c, Head(toServer[c]))
           \/ Hanging(c)
    PROVE  /\ Drift(c)' => /\ session'[c].room # General
                           /\ Len(toServer'[c]) > Len(toServer[c])
                           /\ toServer'[c][Len(toServer'[c])].type = "USER_REGISTER"
           /\ (Agreed(c) \/ Opening(c)) /\ c \in conn' =>
                Placed(Known(usersById', c), toServer'[c])
  <1>0. Linked /\ toServer[c] \in Seq(Sent) /\ (toServer[c] # << >> => c \in conn)
    BY DEF Whole, Linked
  <1>1. CASE Opening(c)
    <2>1. session'[c].username = NoHandle /\ toServer'[c] = << >>
      BY <1>0, <1>1 DEF Opening
    <2>2. \A i \in 1 .. Len(<< >>) : FALSE
      BY EmptySeq
    <2> QED
      BY <2>1, <2>2, DriftIs DEF Placed
  <1>2. ASSUME NEW f \in Sent, Write(c, f), Speaks(c, f), session[c].open,
               UNCHANGED <<conn, registry>>
        PROVE  /\ Drift(c)' => /\ session'[c].room # General
                               /\ Len(toServer'[c]) > Len(toServer[c])
                               /\ toServer'[c][Len(toServer'[c])].type = "USER_REGISTER"
               /\ Agreed(c) /\ c \in conn' => Placed(Known(usersById', c), toServer'[c])
    <2>1. CASE c \in conn
      <3>1. toServer'[c] = Append(toServer[c], f)
        BY <1>2, <2>1, WrittenOrDeaf
      <3>2. /\ Drift(c)' => f.type = "USER_REGISTER" /\ session'[c].room # General
            /\ Agreed(c) => Placed(Known(usersById', c), toServer'[c])
        <4>1. c \in conn' /\ usersById' = usersById
          BY <1>2, <2>1 DEF registry
        <4> QED
          BY <1>2, <2>1, <3>1, <4>1, SpeaksTogether
      <3>3. PICK q : q = toServer[c]
        OBVIOUS
      <3>4. PICK r : r = toServer'[c]
        OBVIOUS
      <3>5. Len(r) = Len(q) + 1 /\ r[Len(q) + 1] = f /\ Len(q) \in Nat
        BY <1>0, <3>1, <3>3, <3>4, AppendProperties, LenProperties
      <3>6. Len(r) > Len(q) /\ r[Len(r)] = f
        BY <3>5
      <3> QED
        BY <3>2, <3>3, <3>4, <3>6
    <2>2. CASE c \notin conn
      BY <1>2, <2>2, DriftIs
    <2> QED
      BY <2>1, <2>2
  <1>3. CASE Asked(c)
    <2>1. session[c].open /\ UNCHANGED <<conn, registry>>
      BY <1>3 DEF Asked, Keep
    <2>2. CASE \E f \in Sent : Write(c, f) /\ Speaks(c, f)
      BY <1>1, <1>2, <2>1, <2>2
    <2>3. CASE /\ UNCHANGED toServer
               /\ session'[c].username = session[c].username
               /\ session'[c].room = session[c].room
      <3>1. (Drift(c)' <=> Drift(c)) /\ (Agreed(c)' <=> Agreed(c))
        BY <2>1, <2>3, DriftIs DEF registry, Agreed, Speaker
      <3> QED
        BY <1>1, <3>1 DEF Agreed
    <2> QED
      BY <1>3, <2>2, <2>3 DEF Asked
  <1>4. CASE Leaving(c)
    <2>1. /\ session[c].open /\ UNCHANGED <<conn, registry>>
          /\ Write(c, Frame("DISCONNECT", NoRoom))
      BY <1>4 DEF Leaving
    <2>2. Frame("DISCONNECT", NoRoom) \in Sent /\ Speaks(c, Frame("DISCONNECT", NoRoom))
      BY <1>4, SentFrames, LeavingSpeaks
    <2> QED
      BY <1>1, <1>2, <2>1, <2>2
  <1>5. CASE Closing(c)
    BY <1>1, <1>5, DriftIs DEF Closing
  <1>6. CASE Taking(c) /\ ~Refuses(c, Head(toServer[c]))
    BY <1>1, <1>6, TakingKeeps
  <1>7. CASE Hanging(c)
    <2>1. c \notin conn'
      BY <1>7 DEF Hanging
    <2> QED
      BY <1>1, <2>1, DriftIs
  <1> QED
    BY <1>1, <1>3, <1>4, <1>5, <1>6, <1>7

(* Steps within the types let nothing else drift.                          *)
LEMMA DriftSteps == []Whole /\ [][Next]_vars => DriftOnlyByRefusal
  <1> DEFINE P == \A c \in Client : Drift(c)' /\ ~Drift(c) =>
                    \/ /\ toServer[c] # << >> /\ toServer'[c] = Tail(toServer[c])
                       /\ Refuses(c, Head(toServer[c]))
                    \/ /\ session'[c].room # General
                       /\ Len(toServer'[c]) > Len(toServer[c])
                       /\ toServer'[c][Len(toServer'[c])].type = "USER_REGISTER"
  <1>1. Whole /\ [Next]_vars => [P]_vars
    <2> SUFFICES ASSUME Whole, [Next]_vars, NEW d \in Client, Drift(d)', ~Drift(d)
                 PROVE  \/ /\ toServer[d] # << >> /\ toServer'[d] = Tail(toServer[d])
                           /\ Refuses(d, Head(toServer[d]))
                        \/ /\ session'[d].room # General
                           /\ Len(toServer'[d]) > Len(toServer[d])
                           /\ toServer'[d][Len(toServer'[d])].type = "USER_REGISTER"
      OBVIOUS
    <2>1. ~Still
      BY DriftIs DEF Still, registry, Speaker
    <2>2. PICK c \in Client : Opening(c) \/ Asked(c) \/ Leaving(c) \/ Closing(c)
                              \/ Taking(c) \/ Hanging(c)
      BY <2>1, Steps
    <2>3. d = c
      BY <2>2, OthersSame, SameDrift
    <2>4. CASE Taking(d) /\ Refuses(d, Head(toServer[d]))
      <3>1. toServer[d] # << >> /\ toServer'[d] = Tail(toServer[d])
        BY <2>4 DEF Taking, Whole, Linked
      <3> QED
        BY <2>4, <3>1
    <2>5. CASE ~(Taking(d) /\ Refuses(d, Head(toServer[d])))
      BY <2>2, <2>3, <2>5, OwnStep
    <2> QED
      BY <2>4, <2>5
  <1> QED
    BY <1>1, PTL DEF DriftOnlyByRefusal

(* Gateway and server come to differ in two ways only: the server refuses  *)
(* what the gateway has already done, or a session outside General         *)
(* registers.                                                              *)
THEOREM DriftsAreRefusals == Spec => DriftOnlyByRefusal
  BY DriftSteps, WholeHolds, PTL DEF Spec

------------------------------------------------------------------------------
LEMMA AgreedInit == Init => AllAgreed
  BY DEF Init, AllAgreed, Agreed

(* What differs is remembered, and what is not remembered agrees.          *)
LEMMA AgreedStep ==
    ASSUME Whole, AllAgreed, [Next]_vars
    PROVE  AllAgreed'
  <1>1. CASE Still
    <2>1. drifted' = drifted /\ \A d \in Client : Same(d)
      BY <1>1 DEF Still, Same, registry
    <2> QED
      BY <2>1, SameDrift DEF AllAgreed
  <1>2. ASSUME NEW c \in Client,
               Opening(c) \/ Asked(c) \/ Leaving(c) \/ Closing(c) \/ Taking(c) \/ Hanging(c)
        PROVE  AllAgreed'
    <2>1. \A d \in Client \ {c} : Same(d)
      BY <1>2, OthersSame
    <2>2. ASSUME NEW d \in Client \ {c}, d \notin drifted' PROVE Agreed(d)'
      <3>1. d \notin drifted
        <4>1. CASE Opening(c)
          BY <2>2, <4>1 DEF Opening
        <4>2. CASE ~Opening(c)
          BY <1>2, <2>2, <4>2, WatchFacts
             DEF Asked, Keep, Leaving, Closing, Taking, Hanging
        <4> QED
          BY <4>1, <4>2
      <3> QED
        BY <2>1, <3>1, SameDrift DEF AllAgreed
    <2>3. ASSUME c \notin drifted', ~Opening(c) PROVE Agreed(c)'
      <3>1. /\ drifted \subseteq drifted' /\ ~Drift(c)'
            /\ Taking(c) => ~Refuses(c, Head(toServer[c]))
        BY <1>2, <2>3, WatchFacts DEF Asked, Keep, Leaving, Closing, Taking, Hanging
      <3>2. Agreed(c)
        BY <2>3, <3>1 DEF AllAgreed
      <3>3. ~Drift(c)
        BY <3>2, DriftIs DEF Agreed
      <3>4. c \in conn' => Placed(Known(usersById', c), toServer'[c])
        BY <1>2, <2>3, <3>1, <3>2, <3>3, OwnStep
      <3> QED
        BY <3>1, <3>4, DriftIs DEF Agreed, Speaker
    <2>4. ASSUME Opening(c) PROVE Agreed(c)'
      <3>1. ~Drift(c) /\ session'[c].username = NoHandle
        BY <2>4, DriftIs DEF Opening
      <3>2. c \in conn' => Placed(Known(usersById', c), toServer'[c])
        BY <2>4, <3>1, OwnStep
      <3> QED
        BY <3>1, <3>2 DEF Agreed
    <2> QED
      BY <2>2, <2>3, <2>4 DEF AllAgreed
  <1> QED
    BY <1>1, <1>2, Steps

LEMMA AgreedHolds == Spec => [](Whole /\ AllAgreed)
  BY WholeInit, AgreedInit, WholeStep, AgreedStep, PTL DEF Spec

(* Where both agree, what is taken up is heard where it was stored.        *)
LEMMA HeardSteps == [](Whole /\ AllAgreed) /\ [][Next]_vars => HeardWhereStored
  <1> DEFINE P == \A c \in Client \ drifted :
                    toServer[c] # << >> /\ toServer'[c] = Tail(toServer[c]) =>
                       LET f == Head(toServer[c])
                       IN  f.type = "CHAT_MESSAGE" =>
                              /\ c \in DOMAIN usersById
                              /\ usersById[c].currentRoom = f.room
  <1>1. Whole /\ AllAgreed /\ [Next]_vars => [P]_vars
    <2> SUFFICES ASSUME Whole, AllAgreed, NEW c \in Client \ drifted, toServer[c] # << >>,
                        Head(toServer[c]).type = "CHAT_MESSAGE"
                 PROVE  /\ c \in DOMAIN usersById
                        /\ usersById[c].currentRoom = Head(toServer[c]).room
      OBVIOUS
    <2>1. PICK q : q = toServer[c]
      OBVIOUS
    <2>2. PICK w : w = Known(usersById, c)
      OBVIOUS
    <2>3. c \in conn /\ q \in Seq(Sent) /\ q # << >> /\ w \in Who
      BY <2>1, <2>2, KnownType DEF Whole, Linked
    <2>4. Placed(w, q)
      BY <2>1, <2>2, <2>3 DEF AllAgreed, Agreed
    <2>5. 1 \in 1 .. Len(q) /\ 1 - 1 = 0
      BY <2>3, EmptySeq
    <2>6. Head(q) = q[1] /\ Course(w, q)[0] = w
      BY <2>3, CourseTail, CourseFacts
    <2>7. w.username # NoHandle /\ w.room = Head(q).room
      <3>1. q[1].type = "CHAT_MESSAGE"
        BY <2>1, <2>6
      <3>2. Course(w, q)[1 - 1].username # NoHandle /\ Course(w, q)[1 - 1].room = q[1].room
        BY <2>4, <2>5, <3>1 DEF Placed
      <3> QED
        BY <2>5, <2>6, <3>2
    <2> QED
      BY <2>1, <2>2, <2>7, KnownType DEF Whole
  <1> QED
    BY <1>1, PTL DEF HeardWhereStored

(* As long as nothing was refused and they have not differed, a message is *)
(* heard in the room that it was stored under.                             *)
THEOREM HeardInItsRoom == Spec => HeardWhereStored
  BY HeardSteps, AgreedHolds, PTL DEF Spec

------------------------------------------------------------------------------
(* The browser.                                                            *)

(* What a browser asks for, what it is told and what it shows.             *)
Asking ==
    [do : {"register"}, arg : [user : Handle, email : Address \cup {NoEmail}]]
    \cup [do : {"join_room"}, arg : [room : RoomName, password : Password \cup {NoPassword}]]
    \cup [do : {"leave_room"}, arg : {NoRoom}]
    \cup [do : {"chat"}, arg : Text]
    \cup [do : {"private_message"}, arg : [target : Handle, text : Text]]

Saying == [room : RoomName, text : Text, sender : Handle]

Private == [target : Handle, sender : Handle, text : Text, private : {TRUE}]

Told ==
    [ev : {"history"}, arg : Seq(Message)]
    \cup [ev : {"welcome"}, arg : {NoRoom}]
    \cup [ev : {"joined"}, arg : ValidRoomName]
    \cup [ev : {"returned"}, arg : RoomName]
    \cup [ev : {"notice"}, arg : Quotable \X Quotable]
    \cup [ev : {"heard"}, arg : Saying]
    \cup [ev : {"whisper"}, arg : Private]
    \cup [ev : {"error"}, arg : SUBSET {"name", "room"}]

(* What is said and noticed in rooms.                                      *)
Scraps == {e \in Told : e.ev \in {"heard", "notice"}}

(* What a feed is made of.                                                 *)
Line ==
    Message \cup [room : {LowerRoom[r] : r \in RoomName}, sender : {Nobody},
                  text : Saying, private : {FALSE}]

(* What the hook keeps for the page.                                       *)
Hook == [profile : Handle \cup {Nobody}, email : Address \cup {NoEmail},
         registered : BOOLEAN, room : RoomName,
         dm : Handle \cup {Nobody}, feed : Seq(Line)]

(* What is persisted: feeds, handles by address, passwords by room.        *)
Saved == [feeds : [Handle -> Seq(Line)], handles : [Address -> Handle \cup {Nobody}],
          unlocked : [{LowerRoom[n] : n \in RoomName} -> Password \cup {NoPassword}]]

(* Fetches under way, and for whom.                                        *)
Fetch == [left : 0 .. 3, email : Address \cup {NoEmail}, shown : BOOLEAN]

Modal == [google : Address \cup {NoEmail}, fetch : Fetch]

(* The page: what the hook holds, what is persisted, the dialog.           *)
Page ==
    /\ hook \in Hook /\ (hook.registered => hook.profile # Nobody)
    /\ saved \in Saved /\ \A h \in Handle : Len(saved.feeds[h]) <= KeptMessages
    /\ mixed \subseteq Handle

(* The login dialog: fetches under way are somebody's.                     *)
Dialog ==
    /\ modal \in Modal
    /\ modal.fetch.left = 0
          \/ (modal.fetch.left <= Max(Handoffs) /\ modal.fetch.email \in Address)

(* The channel between the browser and the gateway.                        *)
Wire ==
    /\ ws \in {"connecting", "open", "closing", "closed"}
    /\ timer \in BOOLEAN /\ (timer <=> ws = "closed")
    /\ sock \in Client \ {Peer}
    /\ ws = "open" => session[sock].open
    /\ up \in Seq(Asking) /\ down \in Seq(Told)

(* Everything of the browser has its type.                                 *)
Kinds == Page /\ Dialog /\ Wire

(* What a user may have in his feed.                                       *)
Own(h) == {m \in Line : OwnMail(h, m)}

------------------------------------------------------------------------------
(* Sequences.                                                              *)

(* The entries of the table that Picked fills: what has been picked of s   *)
(* so far.                                                                 *)
Pick(s, I, g, i) ==
    IF i = 0 THEN << >> ELSE IF i \in I THEN Append(g[i - 1], s[i]) ELSE g[i - 1]

(* There is such a table.                                                  *)
Tabled(s, I, T) ==
    \E g \in [0 .. Len(s) -> Seq(T)] : \A i \in 0 .. Len(s) : g[i] = Pick(s, I, g, i)

(* There always is: by induction on how much of s is read.                 *)
LEMMA PickExists ==
    ASSUME NEW S, NEW T, NEW s \in Seq(S), NEW I, \A i \in 1 .. Len(s) : i \in I => s[i] \in T
    PROVE  Tabled(s, I, T)
  <1>a. PICK N : N = Len(s)
    OBVIOUS
  <1>b. N \in Nat /\ \A i \in 1 .. N : i \in I => s[i] \in T
    BY <1>a, LenProperties
  <1> DEFINE Filled(k) == \E g \in [0 .. N -> Seq(T)] :
                             \A i \in 0 .. N : i <= k => g[i] = Pick(s, I, g, i)
             W == {k \in Nat : Filled(k)}
  <1>0. << >> \in Seq(T)
    BY EmptySeq
  <1>1. Filled(0)
    <2>1. [i \in 0 .. N |-> << >>] \in [0 .. N -> Seq(T)]
      BY <1>0
    <2>2. \A i \in 0 .. N : i <= 0 => i = 0
      BY <1>b
    <2> QED
      BY <2>1, <2>2 DEF Pick
  <1>2. ASSUME NEW k \in Nat, Filled(k) PROVE Filled(k + 1)
    <2>1. PICK g \in [0 .. N -> Seq(T)] : \A i \in 0 .. N : i <= k => g[i] = Pick(s, I, g, i)
      BY <1>2
    <2>2. CASE k + 1 > N
      <3>1. \A i \in 0 .. N : i <= k
        BY <1>b, <2>2
      <3> QED
        BY <2>1, <3>1
    <2>3. CASE k + 1 <= N
      <3>1. PICK p : p = k + 1
        OBVIOUS
      <3>2. p \in 1 .. N /\ p \in 0 .. N /\ p # 0 /\ p - 1 \in 0 .. N
        BY <1>b, <2>3, <3>1
      <3>3. PICK v : v = Pick(s, I, g, p)
        OBVIOUS
      <3>4. v \in Seq(T)
        <4>1. g[p - 1] \in Seq(T) /\ (p \in I => s[p] \in T)
          BY <1>b, <3>2
        <4>2. p \in I => Append(g[p - 1], s[p]) \in Seq(T)
          BY <4>1, AppendProperties
        <4> QED
          BY <3>2, <3>3, <4>1, <4>2 DEF Pick
      <3> DEFINE h == [g EXCEPT ![p] = v]
      <3>5. /\ h \in [0 .. N -> Seq(T)] /\ h[p] = v
            /\ \A j \in 0 .. N : j # p => h[j] = g[j]
        BY <3>2, <3>4
      <3> HIDE DEF h
      <3>6. ASSUME NEW i \in 0 .. N, i <= k + 1 PROVE h[i] = Pick(s, I, h, i)
        <4>1. CASE i = p
          <5>1. p - 1 # p
            BY <3>2
          <5>2. h[p - 1] = g[p - 1]
            BY <3>2, <3>5, <5>1
          <5> QED
            BY <3>3, <3>5, <4>1, <5>2 DEF Pick
        <4>2. CASE i # p
          <5>1. i <= k
            BY <1>b, <3>1, <3>6, <4>2
          <5>2. g[i] = Pick(s, I, g, i) /\ h[i] = g[i]
            BY <2>1, <3>5, <4>2, <5>1
          <5>3. i # 0 => i - 1 \in 0 .. N /\ i - 1 # p
            BY <1>b, <3>1, <5>1
          <5>4. i # 0 => h[i - 1] = g[i - 1]
            BY <3>5, <5>3
          <5> QED
            BY <5>2, <5>4 DEF Pick
        <4> QED
          BY <4>1, <4>2
      <3> QED
        BY <3>5, <3>6
    <2>4. k + 1 > N \/ k + 1 <= N
      BY <1>b
    <2> HIDE DEF Filled
    <2> QED
      BY <2>2, <2>3, <2>4
  <1> HIDE DEF Filled
  <1>3. Nat \subseteq W
    <2>1. 0 \in W /\ \A k \in Nat : k \in W => k + 1 \in W
      BY <1>1, <1>2
    <2> HIDE DEF W
    <2> QED
      BY <2>1, Ascent
  <1>4. Filled(N)
    BY <1>b, <1>3
  <1>5. PICK g \in [0 .. N -> Seq(T)] : \A i \in 0 .. N : i <= N => g[i] = Pick(s, I, g, i)
    BY <1>4 DEF Filled
  <1>6. \A i \in 0 .. N : i <= N
    BY <1>b
  <1> QED
    BY <1>a, <1>5, <1>6 DEF Tabled

(* What is picked is a sequence of what stands at the positions.           *)
LEMMA PickedIn ==
    ASSUME NEW S, NEW T, NEW s \in Seq(S), NEW I, \A i \in 1 .. Len(s) : i \in I => s[i] \in T
    PROVE  Picked(s, I) \in Seq(T)
  <1> DEFINE Table == CHOOSE g : g = [i \in 0 .. Len(s) |-> Pick(s, I, g, i)]
  <1>1. Len(s) \in Nat
    BY LenProperties
  <1>2. PICK g \in [0 .. Len(s) -> Seq(T)] : \A i \in 0 .. Len(s) : g[i] = Pick(s, I, g, i)
    <2>1. Tabled(s, I, T)
      BY PickExists
    <2> QED
      BY <2>1 DEF Tabled
  <1>3. g = [i \in 0 .. Len(s) |-> Pick(s, I, g, i)]
    BY <1>2
  <1>4. PICK t : t = Table
    OBVIOUS
  <1>5. t = [i \in 0 .. Len(s) |-> Pick(s, I, t, i)]
    BY <1>3, <1>4
  <1>6. Picked(s, I) = t[Len(s)]
    BY <1>4 DEF Picked, Pick
  <1> HIDE DEF Table
  <1> DEFINE U == {k \in Nat : k <= Len(s) => t[k] \in Seq(T)}
  <1>7. 0 \in U
    <2>1. t[0] = << >>
      BY <1>1, <1>5 DEF Pick
    <2> QED
      BY <2>1, EmptySeq
  <1>8. ASSUME NEW k \in Nat, k \in U PROVE k + 1 \in U
    <2> SUFFICES ASSUME k + 1 <= Len(s) PROVE t[k + 1] \in Seq(T)
      OBVIOUS
    <2>1. k + 1 \in 1 .. Len(s) /\ k <= Len(s) /\ k + 1 \in 0 .. Len(s) /\ k + 1 # 0 /\ (k + 1) - 1 = k
      BY <1>1
    <2>2. t[k] \in Seq(T)
      BY <1>8, <2>1
    <2>3. t[k + 1] = IF k + 1 \in I THEN Append(t[k], s[k + 1]) ELSE t[k]
      BY <1>5, <2>1 DEF Pick
    <2>4. k + 1 \in I => s[k + 1] \in T
      BY <2>1
    <2> QED
      BY <2>2, <2>3, <2>4, AppendProperties
  <1>9. Nat \subseteq U
    <2> HIDE DEF U
    <2> QED
      BY <1>7, <1>8, Ascent
  <1> QED
    BY <1>1, <1>6, <1>9

(* Slice leaves no more than it is asked to.                               *)
LEMMA SliceLength ==
    ASSUME NEW S, NEW s \in Seq(S), NEW n \in Nat
    PROVE  Len(Slice(s, n)) <= n
  <1>1. Len(s) \in Nat /\ \A i \in 1 .. Len(s) : s[i] \in S
    BY LenProperties, ElementOfSeq
  <1>2. CASE Len(s) > n
    <2> DEFINE m == Len(s) - n + 1
    <2>1. m \in Int /\ \A i \in m .. Len(s) : s[i] \in S
      BY <1>1, <1>2
    <2>2. (m <= Len(s) => Len(s) - m + 1 <= n) /\ 0 <= n
      BY <1>1
    <2> HIDE DEF m
    <2>3. Len(SubSeq(s, m, Len(s))) <= n
      BY <1>1, <2>1, <2>2, SubSeqProperties
    <2> QED
      BY <1>2, <2>3 DEF Slice, m
  <1>3. CASE ~(Len(s) > n)
    BY <1>1, <1>3 DEF Slice
  <1> QED
    BY <1>2, <1>3

(* A merged feed is made of the two it is merged of.                       *)
LEMMA MergeIn ==
    ASSUME NEW S, NEW feed \in Seq(S), NEW loaded \in Seq(S)
    PROVE  Merge(feed, loaded) \in Seq(S)
  <1> DEFINE I == {i \in DOMAIN loaded : loaded[i] \notin ToSet(feed)}
  <1>1. \A i \in 1 .. Len(loaded) : i \in I => loaded[i] \in S
    BY ElementOfSeq
  <1> HIDE DEF I
  <1>2. Picked(loaded, I) \in Seq(S)
    BY <1>1, PickedIn
  <1> QED
    BY <1>2, ConcatProperties DEF Merge, I

(* A feed with a message is made of the feed and the message.              *)
LEMMA WithMessageIn ==
    ASSUME NEW S, NEW feed \in Seq(S), NEW m \in S
    PROVE  WithMessage(feed, m) \in Seq(S)
  BY AppendProperties DEF WithMessage

(* A history of a room holds what was said in it.                          *)
LEMMA RoomHistoryIn ==
    ASSUME NEW d \in Data, NEW r
    PROVE  RoomHistory(d, r) \in Seq({m \in Message : ~m.private})
  <1> DEFINE T == {m \in Message : ~m.private}
             InRoom(m) == ~m.private /\ m.room = LowerRoom[r]
             I == {i \in DOMAIN d.messages : InRoom(d.messages[i])}
  <1>1. d.messages \in Seq(Message)
    BY DEF Data
  <1>2. \A i \in 1 .. Len(d.messages) : i \in I => d.messages[i] \in T
    BY <1>1, ElementOfSeq
  <1>3. RoomHistory(d, r) = Slice(Picked(d.messages, I), HistoryLimit)
    BY DEF RoomHistory
  <1> HIDE DEF I, T
  <1>4. Picked(d.messages, I) \in Seq(T)
    BY <1>1, <1>2, PickedIn
  <1>5. Slice(Picked(d.messages, I), HistoryLimit) \in Seq(T)
    BY <1>4, SliceType, ClientAssumption
  <1> QED
    BY <1>3, <1>5 DEF T

(* A history of private messages holds those of one user.                  *)
LEMMA DirectMessagesIn ==
    ASSUME NEW d \in Data, NEW h
    PROVE  DirectMessages(d, h) \in Seq({m \in Message : OwnMail(h, m)})
  <1> DEFINE T == {m \in Message : OwnMail(h, m)}
             Party(m) == m.private /\ h \in {m.sender, m.target}
             I == {i \in DOMAIN d.messages : Party(d.messages[i])}
  <1>1. d.messages \in Seq(Message)
    BY DEF Data
  <1>2. \A i \in 1 .. Len(d.messages) : i \in I => d.messages[i] \in T
    BY <1>1, ElementOfSeq DEF OwnMail
  <1>3. DirectMessages(d, h) = Slice(Picked(d.messages, I), DmLimit)
    BY DEF DirectMessages
  <1> HIDE DEF I, T
  <1>4. Picked(d.messages, I) \in Seq(T)
    BY <1>1, <1>2, PickedIn
  <1>5. Slice(Picked(d.messages, I), DmLimit) \in Seq(T)
    BY <1>4, SliceType, ClientAssumption
  <1> QED
    BY <1>3, <1>5 DEF T

------------------------------------------------------------------------------
(* The gateway's part of what a browser does.                              *)

(* Lists of messages that h may see.                                       *)
Listing(h) == [ev : {"history"}, arg : Seq({m \in Message : OwnMail(h, m)})]

(* Lists of what was said in rooms.                                        *)
ForAll == [ev : {"history"}, arg : Seq({m \in Message : ~m.private})]

(* How a request is served: a step of the gateway's, and what is said of   *)
(* it.                                                                     *)
Served(c, q, events) ==
    \/ /\ q.do = "register"
       /\ \/ Register(c, q.arg.user, q.arg.email, Online) /\ events \in Seq(Listing(q.arg.user))
          \/ UNCHANGED gateway /\ events = <<Error({"name"})>>
    \/ /\ q.do = "join_room"
       /\ \/ JoinRoom(c, q.arg.room, q.arg.password) /\ events \in Seq(ForAll)
          \/ UNCHANGED gateway /\ events = <<Error({"room"})>>
    \/ q.do = "leave_room" /\ LeaveRoom(c) /\ events \in Seq(ForAll)
    \/ /\ q.do = "chat" /\ events = << >>
       /\ Chat(c, q.arg) \/ UNCHANGED gateway
    \/ /\ q.do = "private_message" /\ events = << >>
       /\ PrivateMessage(c, q.arg.target, q.arg.text) \/ UNCHANGED gateway

(* What is said in rooms anybody may see.                                  *)
LEMMA ListingKinds ==
    /\ \A h : ForAll \subseteq Listing(h)
    /\ \A h : Listing(h) \subseteq Told
    /\ \A why \in SUBSET {"name", "room"} : Error(why) \in Told
    /\ \A h : Event("history", h) \in Told => h \in Seq(Message)
  <1>1. ASSUME NEW h PROVE ForAll \subseteq Listing(h)
    <2>1. {m \in Message : ~m.private} \subseteq {m \in Message : OwnMail(h, m)}
      BY DEF OwnMail
    <2>2. Seq({m \in Message : ~m.private}) \subseteq Seq({m \in Message : OwnMail(h, m)})
      BY <2>1, SeqMonotonic
    <2> QED
      BY <2>2 DEF ForAll, Listing
  <1>2. ASSUME NEW h PROVE Listing(h) \subseteq Told
    <2>1. {m \in Message : OwnMail(h, m)} \subseteq Message
      OBVIOUS
    <2>2. Seq({m \in Message : OwnMail(h, m)}) \subseteq Seq(Message)
      BY <2>1, SeqMonotonic
    <2> QED
      BY <2>2 DEF Told, Listing
  <1>3. \A why \in SUBSET {"name", "room"} : Error(why) \in Told
    BY DEF Told, Error, Event
  <1>4. ASSUME NEW h, Event("history", h) \in Told PROVE h \in Seq(Message)
    BY <1>4 DEF Event, Told
  <1> QED
    BY <1>1, <1>2, <1>3, <1>4

(* The lists sent at a login are the user's own; those of rooms are for    *)
(* all.                                                                    *)
LEMMA HistoriesIn ==
    ASSUME NEW d \in Data, NEW r, NEW h
    PROVE  /\ Histories(d, r, h) \in Seq(Listing(h))
           /\ <<Event("history", RoomHistory(d, r))>> \in Seq(ForAll)
  <1>1. Event("history", RoomHistory(d, r)) \in ForAll
    BY RoomHistoryIn DEF ForAll, Event
  <1>2. Event("history", RoomHistory(d, r)) \in Listing(h)
    BY <1>1, ListingKinds
  <1>3. Event("history", DirectMessages(d, h)) \in Listing(h)
    BY DirectMessagesIn DEF Listing, Event
  <1>4. <<Event("history", RoomHistory(d, r))>> \in Seq(ForAll)
    BY <1>1
  <1>5. /\ <<Event("history", RoomHistory(d, r))>> \in Seq(Listing(h))
        /\ <<Event("history", DirectMessages(d, h))>> \in Seq(Listing(h))
        /\ << >> \in Seq(Listing(h))
    BY <1>2, <1>3, EmptySeq
  <1> QED
    BY <1>4, <1>5, ConcatProperties DEF Histories

(* HandleRequest serves a request, in one of these ways.                   *)
LEMMA ServedCases ==
    ASSUME Types, down \in Seq(Told), NEW c \in Client, NEW q, MayAsk(q), HandleRequest(c, q)
    PROVE  \E events \in Seq(Told) : Served(c, q, events) /\ Tell(c, events)
  <1>0. /\ Handle \subseteq Username /\ \A h \in Handle : HandleOf[h] = h
        /\ << >> \in Seq(Told)
    BY ClientAssumption, EmptySeq
  <1>1. ASSUME UNCHANGED down PROVE Tell(c, << >>)
    BY <1>1, ConcatEmptySeq DEF Tell
  <1>2. ASSUME NEW why \in SUBSET {"name", "room"} PROVE <<Error(why)>> \in Seq(Told)
    <2>1. Error(why) \in Told
      BY <1>2, ListingKinds
    <2> QED
      BY <2>1
  <1>3. \A h : Seq(Listing(h)) \subseteq Seq(Told) /\ Seq(ForAll) \subseteq Seq(Told)
    <2> TAKE h
    <2>1. ForAll \subseteq Told /\ Listing(h) \subseteq Told
      BY ListingKinds
    <2> QED
      BY <2>1, SeqMonotonic
  <1>4. CASE q.do = "register" /\ HandleRegister(c, q.arg.user, q.arg.email)
    <2> DEFINE u == q.arg.user
               a == q.arg.email
    <2>0. u \in Handle /\ a \in Address \cup {NoEmail}
      BY <1>4 DEF MayAsk
    <2>1. HandleOf[u] = u /\ u \in Username /\ a \in Email /\ Online \in Status
      BY <1>0, <2>0, ClientAssumption, GatewayAssumption
    <2>2. CASE Register(c, u, a, Online) /\ Tell(c, Histories(store', session[c].room, HandleOf[u]))
      <3>1. store' \in Data
        BY <2>1, <2>2, RegisterStep DEF Types
      <3> DEFINE events == Histories(store', session[c].room, u)
      <3>2. events \in Seq(Listing(u))
        BY <3>1, HistoriesIn
      <3>3. Tell(c, events)
        BY <2>1, <2>2
      <3> HIDE DEF events
      <3> QED
        BY <1>3, <1>4, <2>2, <3>2, <3>3 DEF Served
    <2>3. CASE Tell(c, <<Error({"name"})>>) /\ UNCHANGED gateway
      BY <1>2, <1>4, <2>3 DEF Served
    <2> QED
      BY <1>4, <2>2, <2>3 DEF HandleRegister
  <1>5. CASE q.do = "join_room" /\ HandleJoinRoom(c, q.arg.room, q.arg.password)
    <2> DEFINE r == q.arg.room
               p == q.arg.password
    <2>1. r \in RoomName /\ p \in Password \cup {NoPassword}
      BY <1>5 DEF MayAsk
    <2>2. CASE JoinRoom(c, r, p) /\ Tell(c, <<Event("history", RoomHistory(store', r))>>)
      <3>1. store' \in Data
        BY <2>1, <2>2, WithRoomType DEF JoinRoom, Types
      <3> DEFINE events == <<Event("history", RoomHistory(store', r))>>
      <3>2. events \in Seq(ForAll)
        BY <3>1, HistoriesIn
      <3>3. Tell(c, events)
        BY <2>2
      <3> HIDE DEF events
      <3> QED
        BY <1>3, <1>5, <2>2, <3>2, <3>3 DEF Served
    <2>3. CASE Tell(c, <<Error({"room"})>>) /\ UNCHANGED gateway
      BY <1>2, <1>5, <2>3 DEF Served
    <2> QED
      BY <1>5, <2>2, <2>3 DEF HandleJoinRoom
  <1>6. CASE q.do = "leave_room" /\ HandleLeaveRoom(c)
    <2> DEFINE events == <<Event("history", RoomHistory(store, General))>>
    <2>1. events \in Seq(ForAll)
      BY HistoriesIn DEF Types
    <2>2. Tell(c, events) /\ LeaveRoom(c)
      BY <1>6 DEF HandleLeaveRoom
    <2> HIDE DEF events
    <2> QED
      BY <1>3, <1>6, <2>1, <2>2 DEF Served
  <1>7. CASE q.do = "chat" /\ HandleMessage(c, Chat(c, q.arg))
    <2>1. Served(c, q, << >>) /\ UNCHANGED down
      BY <1>7 DEF HandleMessage, Served
    <2> QED
      BY <1>0, <1>1, <2>1
  <1>8. CASE q.do = "private_message" /\ HandleMessage(c, PrivateMessage(c, q.arg.target, q.arg.text))
    <2>1. Served(c, q, << >>) /\ UNCHANGED down
      BY <1>8 DEF HandleMessage, Served
    <2> QED
      BY <1>0, <1>1, <2>1
  <1> QED
    BY <1>4, <1>5, <1>6, <1>7, <1>8 DEF HandleRequest

(* So a request is one of the gateway's own steps, or none.                *)
LEMMA ServedFollows ==
    ASSUME NEW c \in Client, NEW q, MayAsk(q), NEW events, Served(c, q, events)
    PROVE  BrowserAsks(c) \/ UNCHANGED gateway
  <1>1. CASE q.do = "register"
    <2>1. q.arg.user \in Username /\ q.arg.email \in Email /\ Online \in Status
      BY <1>1, ClientAssumption, GatewayAssumption DEF MayAsk
    <2> QED
      BY <1>1, <2>1 DEF Served, BrowserAsks
  <1>2. CASE q.do # "register"
    BY <1>2 DEF Served, MayAsk, BrowserAsks
  <1> QED
    BY <1>1, <1>2

(* The browser asks for nothing else.                                      *)
LEMMA AskingMay == \A q \in Asking : MayAsk(q)
  BY DEF Asking, MayAsk

(* Every step of the browser and its peer is a step of the gateway.        *)
LEMMA GatewaySteps ==
    ASSUME Types, Kinds, [ClientNext]_cvars
    PROVE  [Next]_vars
  <1>0. gateway = vars /\ gateway' = vars'
    BY DEF gateway, vars
  <1>1. CASE UNCHANGED gateway
    BY <1>0, <1>1
  <1>2. CASE OnMessage
    <2>1. Head(up) \in Asking /\ sock \in Client /\ down \in Seq(Told) /\ HandleRequest(sock, Head(up))
      BY <1>2, HeadTailProperties DEF OnMessage, Kinds, Wire
    <2>2. BrowserAsks(sock) \/ UNCHANGED gateway
      BY <2>1, AskingMay, ServedCases, ServedFollows
    <2> QED
      BY <1>0, <2>1, <2>2 DEF Next
  <1>3. CASE PeerDoes
    <2>1. PICK q \in PeerAction : HandleRequest(Peer, q)
      BY <1>3 DEF PeerDoes
    <2>2. MayAsk(q) /\ Peer \in Client /\ down \in Seq(Told)
      BY PeerAssumption, ClientAssumption DEF Kinds, Wire
    <2>3. BrowserAsks(Peer) \/ UNCHANGED gateway
      BY <2>1, <2>2, ServedCases, ServedFollows
    <2> QED
      BY <1>0, <2>2, <2>3 DEF Next
  <1>4. ASSUME NEW c \in Client,
               OnOpen(c) \/ Server(c) \/ GatewayLearns(c) \/ BridgeCloses(c) \/ ServerDrops(c)
        PROVE  Next
    BY <1>4 DEF OnOpen, Server, GatewayLearns, BridgeCloses, ServerDrops, Next
  <1>5. CASE Reconnect \/ OnClose \/ Reload \/ Deliver \/ UNCHANGED cvars
    BY <1>1, <1>5 DEF Reconnect, OnClose, Reload, Deliver, cvars
  <1>6. CASE LogsIn
    BY <1>1, <1>6 DEF LogsIn, HandleLocalSubmit, HandleFinalSubmit, OAuthHandoff, FetchEnds, Login
  <1>7. CASE UserDoes
    BY <1>1, <1>7 DEF UserDoes, HandleRoomClick, TypeJoin, Unlock, AskToJoin, ClientLeaveRoom,
                      SetActiveDmUser, SendMessage, SendPrivateMessage, Logout, Acts
  <1> QED
    BY <1>2, <1>3, <1>4, <1>5, <1>6, <1>7 DEF ClientNext

------------------------------------------------------------------------------
(* The page.                                                               *)

(* What is persisted follows the hook.                                     *)
LEMMA PersistStep ==
    ASSUME NEW state \in Hook, NEW kept \in Saved, Persist(state, kept),
           \A h \in Handle : Len(kept.feeds[h]) <= KeptMessages
    PROVE  /\ hook' = state /\ saved' \in Saved
           /\ \A h \in Handle : Len(saved'.feeds[h]) <= KeptMessages
           /\ \A h \in Handle : h # state.profile => saved'.feeds[h] = kept.feeds[h]
           /\ state.profile \in Handle =>
                 saved'.feeds[state.profile] = Slice(state.feed, KeptMessages)
  <1>1. KeptMessages \in Nat /\ Nobody \notin Handle
    BY ClientAssumption
  <1>2. CASE state.profile = Nobody
    BY <1>1, <1>2 DEF Persist
  <1>3. CASE state.profile # Nobody
    <2> DEFINE h == state.profile
               t == Slice(state.feed, KeptMessages)
               new == [kept.feeds EXCEPT ![h] = t]
    <2>1. h \in Handle /\ state.feed \in Seq(Line)
      BY <1>3 DEF Hook
    <2>2. t \in Seq(Line) /\ Len(t) <= KeptMessages
      BY <1>1, <2>1, SliceType, SliceLength
    <2>3. saved' = [kept EXCEPT !.feeds = new]
      BY <1>3 DEF Persist
    <2> HIDE DEF t, h
    <2>4. /\ new \in [Handle -> Seq(Line)] /\ new[h] = t
          /\ \A x \in Handle : x # h => new[x] = kept.feeds[x]
      BY <2>1, <2>2 DEF Saved
    <2> HIDE DEF new
    <2>5. saved' \in Saved /\ saved'.feeds = new
      BY <2>3, <2>4 DEF Saved
    <2> QED
      BY <2>1, <2>2, <2>4, <2>5 DEF Persist, h, t
  <1> QED
    BY <1>2, <1>3

(* Nobody finds another user's mail in his feed, on the page or persisted. *)
Mail ==
    /\ \A h \in Handle \ mixed : saved.feeds[h] \in Seq(Own(h))
    /\ hook.profile \in Handle \ mixed => hook.feed \in Seq(Own(hook.profile))

(* The page stays in order when its new state holds nobody else's mail.    *)
LEMMA PersistMail ==
    ASSUME Page, Mail, NEW state \in Hook, state.registered => state.profile # Nobody,
           NEW kept \in Saved, kept.feeds = saved.feeds, Persist(state, kept),
           mixed \subseteq mixed', mixed' \subseteq Handle,
           state.profile \in Handle \ mixed' => state.feed \in Seq(Own(state.profile))
    PROVE  Page' /\ Mail' /\ hook' = state
  <1>1. \A h \in Handle : Len(kept.feeds[h]) <= KeptMessages
    BY DEF Page
  <1>2. /\ hook' = state /\ saved' \in Saved
        /\ \A h \in Handle : Len(saved'.feeds[h]) <= KeptMessages
        /\ \A h \in Handle : h # state.profile => saved'.feeds[h] = kept.feeds[h]
        /\ state.profile \in Handle =>
              saved'.feeds[state.profile] = Slice(state.feed, KeptMessages)
    BY <1>1, PersistStep
  <1>3. Page'
    BY <1>2 DEF Page
  <1>4. ASSUME NEW h \in Handle \ mixed' PROVE saved'.feeds[h] \in Seq(Own(h))
    <2>1. CASE h = state.profile
      <3>1. state.feed \in Seq(Own(h)) /\ KeptMessages \in Nat
        BY <1>4, <2>1, ClientAssumption
      <3> QED
        BY <1>2, <2>1, <3>1, SliceType
    <2>2. CASE h # state.profile
      BY <1>2, <1>4, <2>2 DEF Mail
    <2> QED
      BY <2>1, <2>2
  <1>5. Mail'
    BY <1>2, <1>4 DEF Mail
  <1> QED
    BY <1>2, <1>3, <1>5

(* A room is chosen, or a user to talk to.                                 *)
LEMMA PageTurns ==
    ASSUME Page, Mail, UNCHANGED mixed, NEW t \in Handle \cup {Nobody},
           NEW kept \in Saved, kept.feeds = saved.feeds,
           Persist([hook EXCEPT !.dm = t], kept)
    PROVE  Page' /\ Mail' /\ hook' = [hook EXCEPT !.dm = t]
  <1> DEFINE state == [hook EXCEPT !.dm = t]
  <1>1. /\ state \in Hook /\ state.registered = hook.registered
        /\ state.profile = hook.profile /\ state.feed = hook.feed
    BY DEF Page, Hook
  <1>2. state.profile \in Handle \ mixed' => state.feed \in Seq(Own(state.profile))
    BY <1>1 DEF Mail
  <1>3. (state.registered => state.profile # Nobody) /\ mixed \subseteq mixed' /\ mixed' \subseteq Handle
    BY <1>1 DEF Page
  <1> HIDE DEF state
  <1>4. Persist(state, kept)
    BY DEF state
  <1>5. Page' /\ Mail' /\ hook' = state
    BY <1>1, <1>2, <1>3, <1>4, PersistMail
  <1> QED
    BY <1>5 DEF state

(* The feed grows.                                                         *)
LEMMA PageGrows ==
    ASSUME Page, Mail, UNCHANGED mixed, NEW f \in Seq(Line),
           hook.profile \in Handle \ mixed => f \in Seq(Own(hook.profile)),
           SetHook([hook EXCEPT !.feed = f])
    PROVE  Page' /\ Mail' /\ hook' = [hook EXCEPT !.feed = f]
  <1> DEFINE state == [hook EXCEPT !.feed = f]
  <1>1. /\ state \in Hook /\ state.registered = hook.registered
        /\ state.profile = hook.profile /\ state.feed = f
    BY DEF Page, Hook
  <1>2. state.profile \in Handle \ mixed' => state.feed \in Seq(Own(state.profile))
    BY <1>1
  <1>3. /\ state.registered => state.profile # Nobody
        /\ mixed \subseteq mixed' /\ mixed' \subseteq Handle /\ saved \in Saved
    BY <1>1 DEF Page
  <1> HIDE DEF state
  <1>4. Persist(state, saved)
    BY DEF state, SetHook
  <1>5. Page' /\ Mail' /\ hook' = state
    BY <1>1, <1>2, <1>3, <1>4, PersistMail
  <1> QED
    BY <1>5 DEF state

(* What a user writes or is sent may stand in his feed.                    *)
LEMMA OwnLines ==
    /\ \A h \in Handle, t \in Handle, x \in Text :
          /\ DirectMessage(h, t, x) \in Private
          /\ DirectMessage(h, t, x) \in Own(h) /\ DirectMessage(h, t, x) \in Own(t)
    /\ \A h : Own(h) \subseteq Line
    /\ \A h : {m \in Message : OwnMail(h, m)} \subseteq Own(h)
    /\ Private \subseteq Line
  <1>1. \A h \in Handle, t \in Handle, x \in Text :
           /\ DirectMessage(h, t, x) \in Private
           /\ DirectMessage(h, t, x).sender = h /\ DirectMessage(h, t, x).target = t
    BY DEF DirectMessage, Private
  <1>2. Private \subseteq Message /\ Message \subseteq Line
    BY DEF Private, Message, Line
  <1> QED
    BY <1>1, <1>2 DEF Own, OwnMail

(* A message that is sent is shown.                                        *)
LEMMA PageWrites ==
    ASSUME Page, Mail, UNCHANGED mixed, hook.profile # Nobody,
           NEW m \in Private, OwnMail(hook.profile, m),
           SetHook([hook EXCEPT !.feed = WithMessage(@, m)])
    PROVE  Page' /\ Mail' /\ hook' = [hook EXCEPT !.feed = WithMessage(hook.feed, m)]
  <1> DEFINE f == WithMessage(hook.feed, m)
  <1>1. hook.feed \in Seq(Line) /\ m \in Line /\ m \in Own(hook.profile)
    BY OwnLines DEF Page, Hook, Own
  <1>2. f \in Seq(Line)
    BY <1>1, WithMessageIn
  <1>3. hook.profile \in Handle \ mixed => f \in Seq(Own(hook.profile))
    BY <1>1, WithMessageIn DEF Mail
  <1>4. SetHook([hook EXCEPT !.feed = f])
    OBVIOUS
  <1> HIDE DEF f
  <1>5. Page' /\ Mail' /\ hook' = [hook EXCEPT !.feed = f]
    BY <1>2, <1>3, <1>4, PageGrows
  <1> QED
    BY <1>5 DEF f

(* A login shows the user's own feed.                                      *)
LEMMA PageLogin ==
    ASSUME Page, Mail, NEW h \in Handle, NEW a \in Address \cup {NoEmail}, Login(h, a)
    PROVE  /\ Page' /\ Mail'
           /\ hook' = [hook EXCEPT !.profile = h, !.email = a, !.feed = saved.feeds[h]]
  <1> DEFINE state == [hook EXCEPT !.profile = h, !.email = a, !.feed = saved.feeds[h]]
  <1>1. saved.feeds[h] \in Seq(Line) /\ saved \in Saved /\ h # Nobody
    BY ClientAssumption DEF Page, Saved
  <1>2. /\ state \in Hook
        /\ state.profile = h /\ state.feed = saved.feeds[h]
    BY <1>1 DEF Page, Hook
  <1>3. mixed \subseteq mixed' /\ mixed' \subseteq Handle
    BY DEF Login, Page
  <1>4. state.profile \in Handle \ mixed' => state.feed \in Seq(Own(state.profile))
    BY <1>2, <1>3 DEF Mail
  <1>5. Persist(state, saved)
    BY DEF Login, SetHook
  <1> HIDE DEF state
  <1>6. Page' /\ Mail' /\ hook' = state
    BY <1>1, <1>2, <1>3, <1>4, <1>5, PersistMail
  <1> QED
    BY <1>6 DEF state

(* A logout leaves nobody on the page.                                     *)
LEMMA PageLogout ==
    ASSUME Page, Mail, Logout
    PROVE  Page' /\ Mail' /\ hook'.profile = Nobody
  <1> DEFINE state == [hook EXCEPT !.profile = Nobody, !.email = NoEmail,
                                   !.registered = FALSE, !.dm = Nobody, !.feed = << >>]
  <1>1. << >> \in Seq(Line) /\ saved \in Saved /\ Nobody \notin Handle
    BY ClientAssumption, EmptySeq DEF Page
  <1>2. state \in Hook /\ state.profile = Nobody /\ state.registered = FALSE
    BY <1>1 DEF Page, Hook
  <1>3. mixed \subseteq mixed' /\ mixed' \subseteq Handle
    BY DEF Logout, histories, Page
  <1>4. Persist(state, saved)
    BY DEF Logout, SetHook
  <1> HIDE DEF state
  <1>5. Page' /\ Mail' /\ hook' = state
    BY <1>1, <1>2, <1>3, <1>4, PersistMail
  <1> QED
    BY <1>2, <1>5

(* What a reload finds is what was persisted.                              *)
LEMMA PageReload ==
    ASSUME Page, Mail, Reload
    PROVE  Page' /\ Mail' /\ hook'.profile = hook.profile
  <1>1. << >> \in Seq(Line) /\ (hook.profile # Nobody => saved.feeds[hook.profile] \in Seq(Line))
    BY EmptySeq DEF Page, Hook, Saved
  <1>2. UNCHANGED <<saved, mixed>>
    BY DEF Reload, histories
  <1>3. /\ hook' \in Hook /\ hook'.profile = hook.profile
        /\ hook'.registered => hook'.profile # Nobody
        /\ hook.profile # Nobody => hook'.feed = saved.feeds[hook.profile]
    BY <1>1 DEF Reload, Page, Hook
  <1> QED
    BY <1>2, <1>3, ClientAssumption DEF Page, Mail

------------------------------------------------------------------------------
(* What a logged-in user does: at most one request is sent, no login.      *)
Speaking ==
    /\ UNCHANGED <<gateway, ws, timer, sock, down, mixed, astray>>
    /\ hook'.profile = hook.profile /\ hook'.room = hook.room
    /\ \/ UNCHANGED up
       \/ /\ hook.profile # Nobody /\ ws = "open"
          /\ \E q \in Asking : q.do # "register" /\ up' = Append(up, q)

(* The page and the wire are in order, before and after.                   *)
Sound == Kinds /\ Mail

(* What the hook makes are requests.                                       *)
LEMMA AskingKinds ==
    /\ \A h \in Handle, a \in Address \cup {NoEmail} : RegisterRequest(h, a) \in Asking
    /\ \A r \in RoomName, p \in Password \cup {NoPassword} : JoinRequest(r, p) \in Asking
    /\ Request("leave_room", NoRoom) \in Asking
    /\ \A x \in Text : Request("chat", x) \in Asking
    /\ \A t \in Handle, x \in Text :
          Request("private_message", [target |-> t, text |-> x]) \in Asking
  BY DEF Asking, RegisterRequest, JoinRequest, Request

(* A user who asks for something other than a name speaks.                 *)
LEMMA SendingStep ==
    ASSUME Kinds, Acts, NEW q \in Asking, q.do # "register", SendAction(<<q>>),
           hook'.profile = hook.profile, hook'.room = hook.room
    PROVE  Speaking
  <1>1. up \in Seq(Asking) /\ hook.profile # Nobody
    BY DEF Kinds, Wire, Page, Acts
  <1>2. up \o <<q>> = Append(up, q)
    BY <1>1, AppendIsConcat
  <1>3. UNCHANGED <<gateway, ws, timer, sock, down, mixed, astray>>
    BY DEF Acts, histories
  <1> QED
    BY <1>1, <1>2, <1>3 DEF Speaking, SendAction

(* Types under speaking, the page and the dialog apart.                    *)
LEMMA SpeakingKinds ==
    ASSUME Kinds, Speaking, Page', Dialog'
    PROVE  Kinds'
  <1>1. up' \in Seq(Asking)
    BY AppendProperties DEF Speaking, Kinds, Wire
  <1>2. UNCHANGED session /\ UNCHANGED <<ws, timer, sock, down>>
    BY DEF Speaking, gateway
  <1> QED
    BY <1>1, <1>2 DEF Kinds, Wire

(* All that a logged-in user does, except to log out, is that.             *)
LEMMA UserStep ==
    ASSUME Sound, UserDoes, ~Logout
    PROVE  Sound' /\ Speaking
  <1>0. /\ Page /\ Mail /\ Kinds /\ hook \in Hook /\ saved \in Saved
        /\ Visited \subseteq RoomName /\ Contact \subseteq Handle
    BY ClientAssumption DEF Sound, Kinds, Page
  <1>1. ASSUME Speaking, Page', Mail' PROVE Sound' /\ Speaking
    <2>1. UNCHANGED modal
      BY DEF UserDoes, HandleRoomClick, TypeJoin, Unlock, AskToJoin, ClientLeaveRoom,
             SetActiveDmUser, SendMessage, SendPrivateMessage, Acts
    <2>2. Dialog'
      BY <1>0, <2>1 DEF Kinds, Dialog
    <2> QED
      BY <1>0, <1>1, <2>2, SpeakingKinds DEF Sound
  <1>2. ASSUME NEW t \in Handle \cup {Nobody}, hook' = [hook EXCEPT !.dm = t]
        PROVE  hook'.profile = hook.profile /\ hook'.room = hook.room
    BY <1>0, <1>2 DEF Hook
  <1>3. ASSUME NEW r \in Visited, NEW p \in Password \cup {NoPassword}, AskToJoin(r, p),
               NEW kept \in Saved, kept.feeds = saved.feeds,
               Persist([hook EXCEPT !.dm = Nobody], kept)
        PROVE  Sound' /\ Speaking
    <2> DEFINE q == JoinRequest(r, p)
    <2>1. q \in Asking /\ q.do # "register"
      BY <1>0, AskingKinds DEF JoinRequest, Request
    <2>2. Acts /\ SendAction(<<q>>) /\ UNCHANGED mixed
      BY <1>3 DEF AskToJoin, Acts, histories
    <2> HIDE DEF q
    <2>3. Page' /\ Mail' /\ hook' = [hook EXCEPT !.dm = Nobody]
      BY <1>0, <1>3, <2>2, PageTurns
    <2>4. Speaking
      BY <1>0, <1>2, <2>1, <2>2, <2>3, SendingStep
    <2> QED
      BY <1>1, <2>3, <2>4
  <1>4. ASSUME NEW r \in Visited, HandleRoomClick(r) PROVE Sound' /\ Speaking
    <2>1. PICK p \in {NoPassword, saved.unlocked[LowerRoom[r]]} : AskToJoin(r, p)
      BY <1>4 DEF HandleRoomClick
    <2>2. p \in Password \cup {NoPassword}
      BY <1>0, <2>1 DEF Saved
    <2>3. Persist([hook EXCEPT !.dm = Nobody], saved)
      BY <1>4 DEF HandleRoomClick, SetHook
    <2> QED
      BY <1>0, <1>3, <2>1, <2>2, <2>3
  <1>5. ASSUME NEW r \in Visited, NEW p \in Password \cup {NoPassword}, TypeJoin(r, p)
        PROVE  Sound' /\ Speaking
    <2>1. AskToJoin(r, p) /\ Persist([hook EXCEPT !.dm = Nobody], saved)
      BY <1>5 DEF TypeJoin, SetHook
    <2> QED
      BY <1>0, <1>3, <2>1
  <1>6. ASSUME NEW r \in Visited, NEW p \in Password \cup {NoPassword}, Unlock(r, p)
        PROVE  Sound' /\ Speaking
    <2> DEFINE kept == [saved EXCEPT !.unlocked[LowerRoom[r]] = p]
    <2>1. kept \in Saved /\ kept.feeds = saved.feeds
      BY <1>0 DEF Saved
    <2>2. AskToJoin(r, p) /\ Persist([hook EXCEPT !.dm = Nobody], kept)
      BY <1>6 DEF Unlock
    <2> HIDE DEF kept
    <2> QED
      BY <1>3, <2>1, <2>2
  <1>7. CASE ClientLeaveRoom
    <2> DEFINE q == Request("leave_room", NoRoom)
    <2>1. q \in Asking /\ q.do # "register"
      BY AskingKinds DEF Request
    <2>2. /\ Acts /\ SendAction(<<q>>) /\ UNCHANGED mixed
          /\ Persist([hook EXCEPT !.dm = Nobody], saved)
      BY <1>7 DEF ClientLeaveRoom, Acts, histories, SetHook
    <2> HIDE DEF q
    <2>3. Page' /\ Mail' /\ hook' = [hook EXCEPT !.dm = Nobody]
      BY <1>0, <2>2, PageTurns
    <2>4. Speaking
      BY <1>0, <1>2, <2>1, <2>2, <2>3, SendingStep
    <2> QED
      BY <1>1, <2>3, <2>4
  <1>8. ASSUME NEW t \in Contact \cup {Nobody}, SetActiveDmUser(t) PROVE Sound' /\ Speaking
    <2>1. /\ Acts /\ UNCHANGED mixed /\ UNCHANGED up /\ t \in Handle \cup {Nobody}
          /\ Persist([hook EXCEPT !.dm = t], saved)
      BY <1>0, <1>8 DEF SetActiveDmUser, Acts, histories, SetHook
    <2>2. Page' /\ Mail' /\ hook' = [hook EXCEPT !.dm = t]
      BY <1>0, <2>1, PageTurns
    <2>3. Speaking
      BY <1>2, <2>1, <2>2 DEF Speaking, Acts, histories
    <2> QED
      BY <1>1, <2>2, <2>3
  <1>9. ASSUME NEW t \in Handle, NEW x \in Text, SendPrivateMessage(t, x)
        PROVE  Sound' /\ Speaking
    <2> DEFINE q == Request("private_message", [target |-> t, text |-> x])
               m == DirectMessage(hook.profile, t, x)
    <2>1. q \in Asking /\ q.do # "register"
      BY AskingKinds DEF Request
    <2>2. /\ Acts /\ SendAction(<<q>>) /\ UNCHANGED mixed
          /\ SetHook([hook EXCEPT !.feed = WithMessage(@, m)])
      BY <1>9 DEF SendPrivateMessage, Acts, histories
    <2>3. hook.profile \in Handle /\ hook.profile # Nobody
      BY <1>0, <2>2, ClientAssumption DEF Acts, Page, Hook
    <2>4. m \in Private /\ OwnMail(hook.profile, m)
      BY <2>3, OwnLines DEF Own
    <2> HIDE DEF q, m
    <2>5. Page' /\ Mail' /\ hook' = [hook EXCEPT !.feed = WithMessage(hook.feed, m)]
      BY <1>0, <2>2, <2>3, <2>4, PageWrites
    <2>6. hook'.profile = hook.profile /\ hook'.room = hook.room
      BY <1>0, <2>5 DEF Hook
    <2>7. Speaking
      BY <1>0, <2>1, <2>2, <2>6, SendingStep
    <2> QED
      BY <1>1, <2>5, <2>7
  <1>10. ASSUME NEW x \in Text, SendMessage(x) PROVE Sound' /\ Speaking
    <2>1. CASE hook.dm # Nobody /\ SendPrivateMessage(hook.dm, x)
      BY <1>0, <1>9, <2>1 DEF Hook
    <2>2. CASE \E t \in Contact : SendPrivateMessage(t, x)
      BY <1>0, <1>9, <2>2
    <2>3. CASE Acts /\ SendAction(<<Request("chat", x)>>) /\ UNCHANGED <<hook, saved>>
      <3> DEFINE q == Request("chat", x)
      <3>1. q \in Asking /\ q.do # "register"
        BY AskingKinds DEF Request
      <3>2. SendAction(<<q>>)
        BY <2>3
      <3> HIDE DEF q
      <3>3. Speaking
        BY <1>0, <2>3, <3>1, <3>2, SendingStep
      <3>4. Page' /\ Mail'
        BY <1>0, <2>3 DEF Page, Mail, Acts, histories
      <3> QED
        BY <1>1, <3>3, <3>4
    <2> QED
      BY <1>10, <2>1, <2>2, <2>3 DEF SendMessage
  <1> QED
    BY <1>4, <1>5, <1>6, <1>7, <1>8, <1>10 DEF UserDoes

(* The connection is given up, or a new one is waited for.                 *)
Offline == ws' # "open" /\ UNCHANGED <<gateway, sock, mixed>>

(* Four ways there are to that.                                            *)
LEMMA OfflineStep ==
    ASSUME Sound, Reconnect \/ OnClose \/ Reload \/ Logout
    PROVE  Sound' /\ Offline
  <1>0. /\ Page /\ Mail /\ Dialog /\ Wire
        /\ << >> \in Seq(Asking) /\ << >> \in Seq(Told)
    BY EmptySeq DEF Sound, Kinds
  <1>1. CASE Reconnect
    <2>1. Wire' /\ Offline
      BY <1>0, <1>1 DEF Reconnect, Wire, Offline, histories
    <2>2. Page' /\ Mail' /\ Dialog'
      BY <1>0, <1>1 DEF Reconnect, cookies, histories, Page, Mail, Dialog
    <2> QED
      BY <2>1, <2>2 DEF Sound, Kinds
  <1>2. CASE OnClose
    <2>1. Wire' /\ Offline
      BY <1>0, <1>2 DEF OnClose, Wire, Offline, histories
    <2>2. Page' /\ Mail' /\ Dialog'
      BY <1>0, <1>2 DEF OnClose, cookies, histories, Page, Mail, Dialog
    <2> QED
      BY <2>1, <2>2 DEF Sound, Kinds
  <1>3. CASE Reload
    <2>1. Wire' /\ Offline
      BY <1>0, <1>3 DEF Reload, Wire, Offline, histories
    <2>2. Dialog'
      BY <1>3 DEF Reload, Dialog, Modal, Fetch, NoFetch
    <2> QED
      BY <1>0, <1>3, <2>1, <2>2, PageReload DEF Sound, Kinds
  <1>4. CASE Logout
    <2>1. Wire' /\ Offline
      BY <1>0, <1>4 DEF Logout, Wire, Offline, histories
    <2>2. Dialog'
      BY <1>0, <1>4 DEF Logout, Dialog
    <2> QED
      BY <1>0, <1>4, <2>1, <2>2, PageLogout DEF Sound, Kinds
  <1> QED
    BY <1>1, <1>2, <1>3, <1>4

(* A name is asked for on the WebSocket, if it is open.                    *)
LoggingIn ==
    /\ UNCHANGED <<gateway, ws, timer, sock, down>>
    /\ hook'.room = hook.room /\ hook'.profile \in Handle
    /\ \/ ws # "open" /\ UNCHANGED up
       \/ ws = "open" /\ \E a \in Address \cup {NoEmail} :
                           up' = Append(up, RegisterRequest(hook'.profile, a))
    /\ mixed' = IF ws = "open" /\ hook.profile \notin {Nobody, hook'.profile}
                THEN mixed \cup {hook'.profile} ELSE mixed
    /\ astray' = (astray \/ hook.room # General \/ up # << >>
                    \/ session[sock].username # NoHandle)

(* A login, from wherever it comes.                                        *)
LEMMA LoginSound ==
    ASSUME Sound, NEW h \in Handle, NEW a \in Address \cup {NoEmail}, Login(h, a), Dialog'
    PROVE  Sound' /\ LoggingIn
  <1>0. /\ Page /\ Mail /\ Wire /\ hook \in Hook /\ up \in Seq(Asking)
        /\ UNCHANGED <<gateway, ws, timer, sock, down>>
    BY DEF Sound, Kinds, Page, Wire, Login
  <1>1. /\ Page' /\ Mail'
        /\ hook' = [hook EXCEPT !.profile = h, !.email = a, !.feed = saved.feeds[h]]
    BY <1>0, PageLogin
  <1>2. hook'.profile = h /\ hook'.room = hook.room
    BY <1>0, <1>1 DEF Hook
  <1> DEFINE q == RegisterRequest(h, a)
  <1>3. q \in Asking
    BY AskingKinds
  <1>4. up' = IF ws = "open" THEN up \o <<q>> ELSE up
    BY DEF Login, SendAction
  <1> HIDE DEF q
  <1>5. up \o <<q>> = Append(up, q) /\ Append(up, q) \in Seq(Asking)
    BY <1>0, <1>3, AppendIsConcat, AppendProperties
  <1>6. LoggingIn
    BY <1>0, <1>2, <1>4, <1>5 DEF LoggingIn, Login, q
  <1>7. Wire'
    BY <1>0, <1>4, <1>5 DEF Wire, gateway
  <1> QED
    BY <1>1, <1>6, <1>7 DEF Sound, Kinds

(* The most that a token of Google's is handed over.                       *)
LEMMA MostHandoffs ==
    Max(Handoffs) \in 2 .. 3 /\ \A n \in Handoffs : n <= Max(Handoffs)
  <1>1. Handoffs \subseteq 2 .. 3 /\ Handoffs # {}
    BY ClientAssumption
  <1>2. \E x \in Handoffs : \A y \in Handoffs : x >= y
    <2>1. CASE 3 \in Handoffs
      BY <1>1, <2>1
    <2>2. CASE 3 \notin Handoffs
      <3>1. ASSUME NEW y \in Handoffs PROVE y = 2
        <4>1. y \in 2 .. 3 /\ y # 3
          BY <1>1, <2>2
        <4> QED
          BY <4>1
      <3>2. PICK x : x \in Handoffs
        BY <1>1
      <3>3. \A y \in Handoffs : y = x
        BY <3>1, <3>2
      <3>4. x >= x
        BY <3>1, <3>2
      <3>5. \A y \in Handoffs : x >= y
        BY <3>3, <3>4
      <3> QED
        BY <3>2, <3>5
    <2> QED
      BY <2>1, <2>2
  <1>3. Max(Handoffs) \in Handoffs /\ \A y \in Handoffs : Max(Handoffs) >= y
    BY <1>2 DEF Max
  <1> QED
    BY <1>1, <1>3

(* What happens in the dialog is a login or leaves the channel alone.      *)
LEMMA LogsInStep ==
    ASSUME Sound, LogsIn
    PROVE  Sound' /\ (Speaking \/ LoggingIn)
  <1>0. /\ Page /\ Mail /\ Wire /\ Dialog /\ modal \in Modal /\ modal.fetch \in Fetch
    BY DEF Sound, Kinds, Dialog, Modal
  <1>1. ASSUME UNCHANGED <<gateway, channel, hook, saved, histories>>, Dialog'
        PROVE  Sound' /\ Speaking
    <2>1. Speaking
      BY <1>1 DEF Speaking, channel, histories
    <2>2. Page' /\ Mail'
      BY <1>0, <1>1 DEF Page, Mail, histories
    <2> QED
      BY <1>1, <2>1, <2>2, SpeakingKinds DEF Sound
  <1>2. ASSUME NEW h \in Person, HandleLocalSubmit(h)
        PROVE  Sound' /\ LoggingIn
    <2>1. h \in Handle /\ Login(h, NoEmail) /\ Dialog'
      BY <1>0, <1>2, ClientAssumption DEF HandleLocalSubmit, Dialog
    <2> QED
      BY <2>1, LoginSound
  <1>3. ASSUME NEW h \in Person, HandleFinalSubmit(h)
        PROVE  Sound' /\ LoggingIn
    <2>1. h \in Handle /\ Login(h, modal.google) /\ Dialog' /\ modal.google \in Address \cup {NoEmail}
      BY <1>0, <1>3, ClientAssumption DEF HandleFinalSubmit, Dialog, Modal
    <2> QED
      BY <2>1, LoginSound
  <1>4. ASSUME NEW a \in Address, OAuthHandoff(a)
        PROVE  Sound' /\ Speaking
    <2>1. PICK n \in Handoffs :
             modal' = [modal EXCEPT !.fetch = [left |-> n, email |-> a, shown |-> TRUE]]
      BY <1>4 DEF OAuthHandoff
    <2>2. n \in 0 .. 3 /\ n <= Max(Handoffs)
      BY MostHandoffs, ClientAssumption
    <2> DEFINE new == [left |-> n, email |-> a, shown |-> TRUE]
    <2>3. Dialog'
      <3>1. new \in Fetch /\ new.left = n /\ new.email = a
        BY <2>2 DEF Fetch
      <3>2. modal' = [modal EXCEPT !.fetch = new]
        BY <2>1
      <3> HIDE DEF new
      <3>3. modal' \in Modal /\ modal'.fetch = new
        BY <1>0, <3>1, <3>2 DEF Modal
      <3> QED
        BY <2>2, <3>1, <3>3 DEF Dialog
    <2> HIDE DEF new
    <2> QED
      BY <1>1, <1>4, <2>3 DEF OAuthHandoff
  <1>5. CASE FetchEnds
    <2> DEFINE a == modal.fetch.email
    <2>1. modal.fetch.left \in 1 .. 3 /\ a \in Address /\ modal.fetch.left <= Max(Handoffs)
      BY <1>0, <1>5 DEF FetchEnds, Dialog, Fetch
    <2>2. PICK google \in {modal.google, IF modal.fetch.shown THEN a ELSE modal.google} :
              modal' = [google |-> google,
                        fetch |-> IF modal.fetch.left = 1 THEN NoFetch
                                  ELSE [modal.fetch EXCEPT !.left = @ - 1]]
      BY <1>5 DEF FetchEnds
    <2>3. Dialog'
      <3>1. google \in Address \cup {NoEmail}
        BY <1>0, <2>1, <2>2 DEF Modal
      <3>2. CASE modal.fetch.left = 1
        BY <2>2, <3>1, <3>2 DEF Dialog, Modal, Fetch, NoFetch
      <3>3. CASE modal.fetch.left # 1
        <4> DEFINE new == [modal.fetch EXCEPT !.left = @ - 1]
        <4>1. /\ modal.fetch.left - 1 \in 0 .. 3
              /\ Max(Handoffs) \in Int => modal.fetch.left - 1 <= Max(Handoffs)
          BY <2>1
        <4>2. new \in Fetch /\ new.email = a /\ new.left = modal.fetch.left - 1
          BY <1>0, <4>1 DEF Fetch
        <4>3. Max(Handoffs) \in Int
          BY MostHandoffs
        <4>4. modal' = [google |-> google, fetch |-> new]
          BY <2>2, <3>3
        <4> HIDE DEF new
        <4> QED
          BY <2>1, <3>1, <4>1, <4>2, <4>3, <4>4 DEF Dialog, Modal
      <3> QED
        BY <3>2, <3>3
    <2>4. CASE saved.handles[a] # Nobody /\ Login(saved.handles[a], a)
      <3>1. saved.handles[a] \in Handle
        BY <1>0, <2>1, <2>4 DEF Page, Saved
      <3> QED
        BY <2>1, <2>3, <2>4, <3>1, LoginSound
    <2>5. CASE UNCHANGED <<gateway, channel, hook, saved, histories>>
      BY <1>1, <2>3, <2>5
    <2> QED
      BY <1>5, <2>4, <2>5 DEF FetchEnds
  <1> QED
    BY <1>2, <1>3, <1>4, <1>5 DEF LogsIn

------------------------------------------------------------------------------
(* A new connection is nobody's, and nothing is under way on it.           *)
Opened ==
    /\ ws' = "open" /\ UNCHANGED <<hook, mixed, registry, toServer>>
    /\ session'[sock'].username = NoHandle
    /\ toServer[sock'] = << >> /\ sock' \notin DOMAIN usersById
    /\ up' = Greeting /\ down' = << >> /\ astray' = (hook.room \notin ValidRoomName)

(* What onopen sends: the name first, then the room.                       *)
LEMMA GreetingType ==
    ASSUME Page
    PROVE  /\ Greeting \in Seq(Asking)
           /\ hook.profile = Nobody => Greeting = << >>
           /\ hook.profile # Nobody =>
                 /\ Greeting[1] = RegisterRequest(hook.profile, hook.email)
                 /\ Len(Greeting) \in 1 .. 2
                 /\ hook.room # General =>
                       Len(Greeting) = 2 /\ Greeting[2] = JoinRequest(hook.room, NoPassword)
                 /\ Len(Greeting) = 2 => Greeting[2] = JoinRequest(hook.room, NoPassword)
  <1>1. hook \in Hook /\ hook.room \in RoomName
    BY DEF Page, Hook
  <1> DEFINE p == RegisterRequest(hook.profile, hook.email)
             j == JoinRequest(hook.room, NoPassword)
  <1>2. << >> \in Seq(Asking) /\ (hook.profile # Nobody => p \in Asking) /\ j \in Asking
    BY <1>1, EmptySeq, AskingKinds DEF Hook
  <1>3. Greeting = IF hook.profile = Nobody THEN << >>
                   ELSE <<p>> \o (IF hook.room = General THEN << >> ELSE <<j>>)
    BY DEF Greeting
  <1> HIDE DEF p, j
  <1>4. CASE hook.profile = Nobody
    BY <1>2, <1>3, <1>4
  <1>5. CASE hook.profile # Nobody /\ hook.room = General
    <2>1. Greeting = <<p>>
      BY <1>2, <1>3, <1>5, ConcatEmptySeq
    <2> QED
      BY <1>2, <1>5, <2>1 DEF p
  <1>6. CASE hook.profile # Nobody /\ hook.room # General
    <2>1. Greeting = <<p>> \o <<j>> /\ p \in Asking /\ <<p>> \in Seq(Asking)
      BY <1>2, <1>3, <1>6
    <2>2. Greeting = Append(<<p>>, j)
      BY <1>2, <2>1, AppendIsConcat
    <2>3. /\ Greeting \in Seq(Asking) /\ Len(Greeting) = 2
          /\ Greeting[1] = p /\ Greeting[2] = j
      BY <1>2, <2>1, <2>2
    <2> QED
      BY <1>6, <2>3 DEF p, j
  <1> QED
    BY <1>4, <1>5, <1>6

(* Such a connection is what onopen finds.                                 *)
LEMMA OpenedStep ==
    ASSUME Whole, Sound, NEW c \in Client, OnOpen(c)
    PROVE  Sound' /\ Opened
  <1>1. /\ Page /\ Mail /\ Dialog /\ Wire /\ Types /\ Linked
        /\ Connect(c) /\ c # Peer
        /\ UNCHANGED <<timer, hook, saved, modal, mixed>>
        /\ sock' = c /\ ws' = "open" /\ ws = "connecting"
        /\ up' = Greeting /\ down' = << >> /\ astray' = (hook.room \notin ValidRoomName)
    BY DEF OnOpen, Sound, Kinds, Whole, cookies
  <1>2. Opening(c)
    BY <1>1, OpeningStep
  <1>3. session'[c].open
    <2> DEFINE new == [Closed EXCEPT !.open = TRUE]
    <2>1. session' = [session EXCEPT ![c] = new] /\ new.open
      BY <1>1 DEF Connect, Closed
    <2> HIDE DEF new
    <2> QED
      BY <1>1, <2>1, SessionChange
  <1>4. toServer[c] = << >> /\ c \notin DOMAIN usersById
    BY <1>1, <1>2 DEF Opening, Linked
  <1>5. Opened
    BY <1>1, <1>2, <1>4 DEF Opened, Opening
  <1>6. Wire'
    BY <1>1, <1>3, GreetingType, EmptySeq DEF Wire
  <1>7. Page' /\ Mail' /\ Dialog'
    BY <1>1 DEF Page, Mail, Dialog
  <1> QED
    BY <1>5, <1>6, <1>7 DEF Sound, Kinds

(* The gateway takes up a request of the browser's.                        *)
Sends(f) ==
    \/ sock \in conn /\ toServer'[sock] = Append(toServer[sock], f)
    \/ sock \notin conn /\ toServer'[sock] = toServer[sock]

(* The gateway takes the browser for whom it took it.                      *)
SameName == session'[sock].username = session[sock].username

(* What serving a request does to the browser's own connection.            *)
Service(q, events) ==
    \/ /\ q.do = "register"
       /\ \/ /\ events \in Seq(Listing(q.arg.user)) /\ q.arg.user \in Handle
             /\ Sends(Frame("USER_REGISTER", q.arg.user))
             /\ session'[sock].username = q.arg.user
          \/ /\ events = <<Error({"name"})>>
             /\ toServer'[sock] = toServer[sock] /\ SameName
    \/ /\ q.do = "join_room"
       /\ \/ events \in Seq(ForAll) /\ Sends(Frame("JOIN_ROOM", q.arg.room)) /\ SameName
          \/ events = <<Error({"room"})>> /\ toServer'[sock] = toServer[sock] /\ SameName
    \/ /\ q.do \notin {"register", "join_room"} /\ SameName /\ events \in Seq(ForAll)
       /\ \/ toServer'[sock] = toServer[sock]
          \/ \E f \in Sent : f.type \notin {"USER_REGISTER", "JOIN_ROOM"} /\ Sends(f)

(* The request that has come first is served.                              *)
Serving ==
    /\ UNCHANGED <<ws, sock, hook, mixed, astray, registry, conn>>
    /\ ws = "open" =>
          /\ up # << >> /\ up' = Tail(up)
          /\ \E events \in Seq(Told) : down' = down \o events /\ Service(Head(up), events)

(* A request that is served does that to the connection.                   *)
LEMMA ServiceCases ==
    ASSUME Whole, Wire, session[sock].open, NEW q \in Asking, NEW events \in Seq(Told),
           Served(sock, q, events)
    PROVE  /\ Service(q, events) /\ session'[sock].open
           /\ UNCHANGED <<registry, conn>>
  <1>0. /\ Types /\ Linked /\ sock \in Client /\ session[sock] \in Session /\ MayAsk(q)
        /\ << >> \in Seq(ForAll) /\ (sock \in conn => tcp[sock] = "open")
    BY EmptySeq, AskingMay DEF Whole, Wire, Types, Linked
  <1>1. ASSUME UNCHANGED gateway
        PROVE  /\ toServer'[sock] = toServer[sock] /\ SameName
               /\ session'[sock].open /\ UNCHANGED <<registry, conn>>
    BY <1>0, <1>1 DEF gateway, bridge, SameName
  <1>2. ASSUME BrowserAsks(sock)
        PROVE  session'[sock].open /\ UNCHANGED <<registry, conn>>
    BY <1>0, <1>2, AskedStep DEF Asked, Keep
  <1>3. ASSUME NEW f \in Sent, Write(sock, f) PROVE Sends(f)
    BY <1>0, <1>3, WriteFacts DEF Sends
  <1>4. CASE q.do = "register"
    <2> DEFINE u == q.arg.user
    <2>1. u \in Handle /\ u \in Username /\ HandleOf[u] = u /\ q.arg.email \in Email /\ Online \in Status
      BY <1>0, <1>4, ClientAssumption, GatewayAssumption DEF MayAsk
    <2>2. CASE Register(sock, u, q.arg.email, Online) /\ events \in Seq(Listing(u))
      <3>1. BrowserAsks(sock)
        BY <2>1, <2>2 DEF BrowserAsks
      <3>2. session'[sock].username = u
        BY <1>0, <2>1, <2>2, RegisterStep
      <3>3. Write(sock, Frame("USER_REGISTER", u)) /\ Frame("USER_REGISTER", u) \in Sent
        BY <2>1, <2>2, SentFrames DEF Register
      <3> QED
        BY <1>2, <1>3, <1>4, <2>1, <2>2, <3>1, <3>2, <3>3 DEF Service
    <2>3. CASE UNCHANGED gateway /\ events = <<Error({"name"})>>
      BY <1>1, <1>4, <2>3 DEF Service
    <2> QED
      BY <1>4, <2>2, <2>3 DEF Served
  <1>5. CASE q.do = "join_room"
    <2> DEFINE r == q.arg.room
    <2>1. r \in RoomName /\ q.arg.password \in Password \cup {NoPassword}
      BY <1>0, <1>5 DEF MayAsk
    <2>2. CASE JoinRoom(sock, r, q.arg.password) /\ events \in Seq(ForAll)
      <3>1. BrowserAsks(sock)
        BY <2>1, <2>2 DEF BrowserAsks
      <3>2. SameName
        <4>1. store' \in Data /\ store'.users = store.users
          BY <1>0, <2>1, <2>2, WithRoomType DEF JoinRoom, Types
        <4> QED
          BY <1>0, <2>1, <2>2, <4>1, GoToStep DEF JoinRoom, SamePeople, SameSession, SameName
      <3>3. Write(sock, Frame("JOIN_ROOM", r)) /\ Frame("JOIN_ROOM", r) \in Sent
        BY <2>1, <2>2, SentFrames DEF JoinRoom
      <3> QED
        BY <1>2, <1>3, <1>5, <2>2, <3>1, <3>2, <3>3 DEF Service
    <2>3. CASE UNCHANGED gateway /\ events = <<Error({"room"})>>
      BY <1>1, <1>5, <2>3 DEF Service
    <2> QED
      BY <1>5, <2>2, <2>3 DEF Served
  <1>6. CASE q.do = "leave_room"
    <2>1. LeaveRoom(sock) /\ events \in Seq(ForAll) /\ BrowserAsks(sock)
      BY <1>6 DEF Served, BrowserAsks
    <2>2. SameName
      BY <1>0, <2>1, GoToStep, GatewayAssumption
      DEF LeaveRoom, Types, SamePeople, SameSession, SameName
    <2>3. /\ Write(sock, Frame("LEAVE_ROOM", NoRoom)) /\ Frame("LEAVE_ROOM", NoRoom) \in Sent
          /\ Frame("LEAVE_ROOM", NoRoom).type = "LEAVE_ROOM"
      BY <2>1, SentFrames DEF LeaveRoom, Frame
    <2> QED
      BY <1>2, <1>3, <1>6, <2>1, <2>2, <2>3 DEF Service
  <1>7. ASSUME NEW f \in Sent, f.type \notin {"USER_REGISTER", "JOIN_ROOM"}, Write(sock, f),
               BrowserAsks(sock), UNCHANGED session, events = << >>,
               q.do \notin {"register", "join_room"}
        PROVE  /\ Service(q, events) /\ session'[sock].open
               /\ UNCHANGED <<registry, conn>>
    BY <1>0, <1>2, <1>3, <1>7 DEF Service, SameName
  <1>8. CASE q.do = "chat"
    <2>1. CASE Chat(sock, q.arg)
      <3> DEFINE f == [type |-> "CHAT_MESSAGE", arg |-> q.arg, room |-> session[sock].room]
      <3>1. f \in Sent /\ f.type = "CHAT_MESSAGE"
        BY <1>0, <1>8, SentFrames DEF MayAsk, Session
      <3>2. Write(sock, f) /\ UNCHANGED session
        BY <2>1 DEF Chat
      <3> HIDE DEF f
      <3>3. BrowserAsks(sock) /\ events = << >>
        BY <1>0, <1>8, <2>1 DEF MayAsk, BrowserAsks, Served
      <3> QED
        BY <1>7, <1>8, <3>1, <3>2, <3>3
    <2>2. CASE UNCHANGED gateway /\ events = << >>
      BY <1>0, <1>1, <1>8, <2>2 DEF Service
    <2> QED
      BY <1>8, <2>1, <2>2 DEF Served
  <1>9. CASE q.do = "private_message"
    <2> DEFINE t == q.arg.target
               x == q.arg.text
    <2>1. t \in Handle /\ x \in Text
      BY <1>0, <1>9 DEF MayAsk
    <2>2. CASE PrivateMessage(sock, t, x)
      <3> DEFINE f == [type |-> "PRIVATE_MESSAGE", arg |-> x, target |-> t]
      <3>1. f \in Sent /\ f.type = "PRIVATE_MESSAGE"
        BY <2>1, SentFrames
      <3>2. Write(sock, f) /\ UNCHANGED session
        BY <2>2 DEF PrivateMessage
      <3> HIDE DEF f
      <3>3. BrowserAsks(sock) /\ events = << >>
        BY <1>9, <2>1, <2>2 DEF BrowserAsks, Served
      <3> QED
        BY <1>7, <1>9, <3>1, <3>2, <3>3
    <2>3. CASE UNCHANGED gateway /\ events = << >>
      BY <1>0, <1>1, <1>9, <2>3 DEF Service
    <2> QED
      BY <1>9, <2>2, <2>3 DEF Served
  <1> QED
    BY <1>0, <1>4, <1>5, <1>6, <1>8, <1>9 DEF MayAsk

(* A request taken from an open or closing WebSocket.                      *)
LEMMA ServingStep ==
    ASSUME Whole, Sound, OnMessage
    PROVE  Sound' /\ Serving
  <1>0. /\ Page /\ Mail /\ Dialog /\ Wire /\ Types
        /\ up \in Seq(Asking) /\ down \in Seq(Told) /\ sock \in Client
    BY DEF Sound, Kinds, Wire, Whole
  <1>1. /\ up # << >> /\ session[sock].open /\ HandleRequest(sock, Head(up)) /\ up' = Tail(up)
        /\ UNCHANGED <<ws, timer, sock, hook, saved, modal, mixed, astray>>
    BY DEF OnMessage, cookies, histories
  <1>2. Head(up) \in Asking /\ Tail(up) \in Seq(Asking)
    BY <1>0, <1>1, HeadTailProperties
  <1>3. MayAsk(Head(up))
    BY <1>2, AskingMay
  <1>4. PICK events \in Seq(Told) : Served(sock, Head(up), events) /\ Tell(sock, events)
    BY <1>0, <1>1, <1>3, ServedCases
  <1>5. /\ Service(Head(up), events) /\ session'[sock].open
        /\ UNCHANGED <<registry, conn>>
    BY <1>0, <1>1, <1>2, <1>4, ServiceCases
  <1>6. down' \in Seq(Told) /\ (ws = "open" => down' = down \o events)
    BY <1>0, <1>1, <1>4, ConcatProperties DEF Tell
  <1>7. Serving
    BY <1>1, <1>5, <1>6 DEF Serving
  <1>8. Wire'
    BY <1>0, <1>1, <1>2, <1>5, <1>6 DEF Wire
  <1>9. Page' /\ Mail' /\ Dialog'
    BY <1>0, <1>1 DEF Page, Mail, Dialog
  <1> QED
    BY <1>7, <1>8, <1>9 DEF Sound, Kinds

(* Nobody is a member of General without being there.                      *)
NoStray == \A c \in Client : ~RMP!Stray(c, General)

(* What is said and noticed, and private messages to the user.             *)
Words ==
    {e \in Told :
       \/ e.ev \in {"heard", "notice"}
       \/ /\ e.ev = "whisper"
          /\ sock \in DOMAIN usersById /\ e.arg.target = usersById[sock].username}

(* What the browser is told of the doings of others.                       *)
Overheard(events) ==
    \/ events \in Seq(Words)
    \/ /\ sock \in DOMAIN usersById /\ usersById[sock].currentRoom = General
       /\ \E n \in Seq(Words) : events = n \o <<Event("returned", General)>>

(* The parts of a frame.                                                   *)
LEMMA SentText ==
    ASSUME NEW f \in Sent
    PROVE  /\ f.type \in {"CHAT_MESSAGE", "PRIVATE_MESSAGE"} => f.arg \in Text
           /\ f.type = "PRIVATE_MESSAGE" => f.target \in Handle
           /\ f.type = "USER_REGISTER" => f.arg \in Handle
           /\ f.type = "JOIN_ROOM" => f.arg \in RoomName
  BY GatewayAssumption DEF Sent

(* One event is a sequence of events.                                      *)
LEMMA OneTold == \A e \in Told : <<e>> \in Seq(Told)
  <1> SUFFICES ASSUME NEW T, NEW e \in T PROVE <<e>> \in Seq(T)
    OBVIOUS
  <1> QED
    OBVIOUS

(* Notices of what is quoted, and what is said or not.                     *)
LEMMA NoticeWords ==
    /\ \A x, y \in Quotable : Notice(x, y) \in Seq(Words)
    /\ \A said \in BOOLEAN, events \in Seq(Words) : OnlyIf(said, events) \in Seq(Words)
    /\ << >> \in Seq(Words) /\ Words \subseteq Told
    /\ \A e \in Words : <<e>> \in Seq(Words)
  <1>1. << >> \in Seq(Words) /\ Words \subseteq Told
    BY EmptySeq DEF Words
  <1>2. \A e \in Words : <<e>> \in Seq(Words)
    <2> SUFFICES ASSUME NEW W, NEW e \in W PROVE <<e>> \in Seq(W)
      OBVIOUS
    <2> QED
      OBVIOUS
  <1>3. ASSUME NEW x \in Quotable, NEW y \in Quotable PROVE Notice(x, y) \in Seq(Words)
    <2>1. Event("notice", <<x, y>>) \in Words
      BY DEF Event, Told, Words
    <2> QED
      BY <1>1, <1>2, <2>1 DEF Notice
  <1>4. \A said \in BOOLEAN, events \in Seq(Words) : OnlyIf(said, events) \in Seq(Words)
    BY <1>1 DEF OnlyIf
  <1> QED
    BY <1>1, <1>2, <1>3, <1>4

(* A chat or private message makes words.                                  *)
LEMMA SpokenAnswer ==
    ASSUME Whole, sock \in Client, NEW c \in DOMAIN usersById, NEW f \in Sent,
           f.type \in {"CHAT_MESSAGE", "PRIVATE_MESSAGE"}
    PROVE  Answer(c, f) \in Seq(Words)
  <1>0. /\ RMP!IInv /\ usersById[c].username \in Handle /\ usersById[c].currentRoom \in RoomName
    BY TypedUsers DEF Whole
  <1>1. CASE f.type = "CHAT_MESSAGE"
    <2> DEFINE r == usersById[c].currentRoom
               e == Event("heard", [room |-> r, text |-> f.arg, sender |-> usersById[c].username])
    <2>1. f.arg \in Text
      BY <1>1, SentText
    <2>2. e \in Words
      BY <1>0, <2>1 DEF Words, Told, Saying, Event
    <2>3. Answer(c, f) = OnlyIf(Hears(r), <<e>>)
      BY <1>1 DEF Answer, ChatAnswer
    <2>4. Hears(r) \in BOOLEAN
      BY DEF Hears
    <2> HIDE DEF e, r
    <2> QED
      BY <2>2, <2>3, <2>4, NoticeWords
  <1>2. CASE f.type = "PRIVATE_MESSAGE"
    <2> DEFINE e == Event("whisper", DirectMessage(usersById[c].username, f.target, f.arg))
               hit == f.target \in DOMAIN usersByName /\ usersByName[f.target] = sock
               note == Notice(f.arg, f.arg)
    <2>1. f.arg \in Text /\ f.target \in Handle
      BY <1>2, SentText
    <2>2. e \in Told /\ e.ev = "whisper" /\ e.arg.target = f.target
      BY <1>0, <2>1, OwnLines DEF Told, Event, DirectMessage
    <2>3. Answer(c, f) = OnlyIf(hit, <<e>>) \o OnlyIf(c = sock, note)
      BY <1>2 DEF Answer, PrivateAnswer
    <2>4. note \in Seq(Words)
      BY <2>1, NoticeWords DEF Quotable
    <2>5. ASSUME hit
          PROVE  sock \in DOMAIN usersById /\ usersById[sock].username = f.target
      <3>1. RMP!NameIndexExact
        BY <1>0 DEF RMP!IInv
      <3>2. sock \in DOMAIN usersById /\ RMP!Handle(sock) = f.target
        BY <2>5, <3>1 DEF RMP!NameIndexExact
      <3>3. usersById[sock].username \in Handle
        BY <1>0, <3>2, TypedUsers
      <3> QED
        BY <3>2, <3>3 DEF RMP!Handle
    <2> HIDE DEF e, hit, note
    <2>6. hit => e \in Words
      BY <2>2, <2>5 DEF Words
    <2>7. OnlyIf(hit, <<e>>) \in Seq(Words)
      BY <2>6, NoticeWords DEF OnlyIf
    <2>8. OnlyIf(c = sock, note) \in Seq(Words)
      BY <2>4, NoticeWords DEF OnlyIf
    <2> QED
      BY <2>3, <2>7, <2>8, ConcatProperties
  <1> QED
    BY <1>1, <1>2

(* What is overheard is a sequence of events.                              *)
LEMMA OverheardTold ==
    ASSUME NEW events, Overheard(events)
    PROVE  events \in Seq(Told)
  <1>1. Seq(Words) \subseteq Seq(Told)
    BY NoticeWords, SeqMonotonic
  <1>2. Event("returned", General) \in Told
    BY GatewayAssumption DEF Event, Told
  <1>3. <<Event("returned", General)>> \in Seq(Told)
    BY <1>2, OneTold
  <1>4. ASSUME NEW n \in Seq(Words), events = n \o <<Event("returned", General)>>
        PROVE  events \in Seq(Told)
    BY <1>1, <1>3, <1>4, ConcatProperties
  <1> QED
    BY <1>1, <1>4 DEF Overheard

(* The events of a frame of another connection's.                          *)
LEMMA OthersAnswer ==
    ASSUME Whole, NoStray, NEW c \in Client, sock \in Client, c # sock, NEW f \in Sent
    PROVE  Overheard(Answer(c, f))
  <1>0. RMP!IInv /\ << >> \in Seq(Words)
    BY NoticeWords DEF Whole
  <1>1. CASE f.type \in {"CHAT_MESSAGE", "PRIVATE_MESSAGE"} /\ c \in DOMAIN usersById
    BY <1>1, SpokenAnswer DEF Overheard
  <1>2. CASE f.type = "JOIN_ROOM" /\ c \in DOMAIN usersById /\ f.arg \in ValidRoomName
    <2> DEFINE prev == usersById[c].currentRoom
               r == f.arg
               a == OnlyIf(prev # r /\ c # sock /\ Hears(prev), Notice(prev, r))
               b == OnlyIf(prev # r /\ (c = sock \/ Hears(r)), Notice(r, r))
    <2>1. prev \in Quotable /\ r \in Quotable
      BY <1>0, <1>2, TypedUsers, SentText DEF Quotable
    <2>2. a \in Seq(Words) /\ b \in Seq(Words)
      BY <2>1, NoticeWords DEF OnlyIf
    <2>3. Answer(c, f) = a \o b \o << >>
      BY <1>2 DEF Answer, JoinAnswer, OnlyIf
    <2> HIDE DEF a, b
    <2>4. a \o b \o << >> \in Seq(Words)
      BY <1>0, <2>2, ConcatProperties
    <2> QED
      BY <2>3, <2>4 DEF Overheard
  <1>3. CASE /\ f.type = "LEAVE_ROOM" /\ c \in DOMAIN usersById
             /\ usersById[c].currentRoom # General
    <2> DEFINE left == usersById[c].currentRoom
               e == Event("returned", General)
               a == OnlyIf(c # sock /\ Hears(left), Notice(left, left))
    <2>1. left \in Quotable
      BY <1>0, <1>3, TypedUsers DEF Quotable
    <2>2. a \in Seq(Words)
      BY <2>1, NoticeWords DEF OnlyIf
    <2>3. e \in Told
      BY GatewayAssumption DEF Event, Told
    <2>4. Answer(c, f) = a \o OnlyIf(Hears(General), <<e>>) \o << >>
      BY <1>3 DEF Answer, LeaveAnswer, OnlyIf
    <2> HIDE DEF a
    <2>5. CASE ~Hears(General)
      <3>1. Answer(c, f) = a \o << >> \o << >>
        BY <2>4, <2>5 DEF OnlyIf
      <3>2. a \o << >> \o << >> \in Seq(Words)
        BY <1>0, <2>2, ConcatProperties
      <3> QED
        BY <3>1, <3>2 DEF Overheard
    <2>6. CASE Hears(General)
      <3> HIDE DEF e
      <3>1. Answer(c, f) = a \o <<e>> \o << >>
        BY <2>4, <2>6 DEF OnlyIf
      <3>2. a \in Seq(Told) /\ <<e>> \in Seq(Told)
        <4>1. Seq(Words) \subseteq Seq(Told)
          BY NoticeWords, SeqMonotonic
        <4> QED
          BY <2>2, <2>3, <4>1, OneTold
      <3>3. a \o <<e>> \in Seq(Told)
        BY <3>2, ConcatProperties
      <3>4. Answer(c, f) = a \o <<e>>
        BY <3>1, <3>3, ConcatEmptySeq
      <3>5. sock \in DOMAIN usersById /\ usersById[sock].currentRoom = General
        <4>1. sock \in RMP!RoomMembers(General)
          BY <2>6 DEF Hears, RM!RoomMembers, RMP!RoomMembers, RM!MembersIn, RMP!MembersIn
        <4> QED
          BY <4>1 DEF NoStray, RMP!Stray
      <3> QED
        BY <2>2, <3>4, <3>5 DEF Overheard, e
    <2> QED
      BY <2>5, <2>6
  <1>4. CASE /\ ~(f.type \in {"CHAT_MESSAGE", "PRIVATE_MESSAGE"} /\ c \in DOMAIN usersById)
             /\ ~(f.type = "JOIN_ROOM" /\ c \in DOMAIN usersById /\ f.arg \in ValidRoomName)
             /\ ~(/\ f.type = "LEAVE_ROOM" /\ c \in DOMAIN usersById
                  /\ usersById[c].currentRoom # General)
    <2>1. Answer(c, f) = << >>
      BY <1>4 DEF Answer, OnlyIf
    <2> QED
      BY <1>0, <2>1 DEF Overheard
  <1> QED
    BY <1>1, <1>2, <1>3, <1>4

(* What the server does and says when it takes up a frame of the browser's.*)
Unmoved(events) ==
    /\ SameUser(sock)
    /\ \/ events = << >>
       \/ \E e \in Told : events = <<e>> /\ e.ev = "error"

(* He is in the room, and is told so last.                                 *)
Admitted(r, events) ==
    /\ sock \in DOMAIN usersById /\ sock \in DOMAIN usersById'
    /\ usersById'[sock] = [username |-> usersById[sock].username, currentRoom |-> r]
    /\ \E n \in Seq(Words) : events = n \o <<Event("joined", r)>>

(* He is back in general, and is told so twice.                            *)
Dismissed(events) ==
    /\ sock \in DOMAIN usersById /\ sock \in DOMAIN usersById'
    /\ usersById'[sock] = [username |-> usersById[sock].username, currentRoom |-> General]
    /\ \E r \in RoomName : events = <<Event("returned", General)>> \o <<Event("returned", r)>>

(* The answer to a frame, and where it leaves the browser's user.          *)
Answered(f, events) ==
    \/ /\ f.type = "USER_REGISTER" /\ events = <<Event("welcome", NoRoom)>>
       /\ sock \in DOMAIN usersById'
       /\ usersById'[sock] = [username |-> f.arg, currentRoom |-> General]
    \/ f.type = "JOIN_ROOM" /\ f.arg \in ValidRoomName /\ Admitted(f.arg, events)
    \/ f.type = "LEAVE_ROOM" /\ Dismissed(events)
    \/ /\ f.type \in {"CHAT_MESSAGE", "PRIVATE_MESSAGE"} /\ SameUser(sock)
       /\ sock \in DOMAIN usersById /\ events \in Seq(Words)
    \/ /\ f.type = "JOIN_ROOM" => f.arg \notin ValidRoomName \/ sock \notin DOMAIN usersById
       /\ Unmoved(events)

(* Every answer is a sequence of events.                                   *)
LEMMA AnsweredTold ==
    ASSUME NEW f, NEW events, Answered(f, events)
    PROVE  events \in Seq(Told)
  <1>1. /\ Event("welcome", NoRoom) \in Told
        /\ \A r \in RoomName : Event("returned", r) \in Told
        /\ \A r \in ValidRoomName : Event("joined", r) \in Told
        /\ General \in RoomName
    BY GatewayAssumption DEF Event, Told
  <1>2. Seq(Words) \subseteq Seq(Told)
    BY NoticeWords, SeqMonotonic
  <1>3. CASE Unmoved(events)
    BY <1>3, EmptySeq, OneTold DEF Unmoved
  <1>4. CASE f.arg \in ValidRoomName /\ Admitted(f.arg, events)
    <2>1. PICK n \in Seq(Words) : events = n \o <<Event("joined", f.arg)>>
      BY <1>4 DEF Admitted
    <2>2. n \in Seq(Told) /\ <<Event("joined", f.arg)>> \in Seq(Told)
      BY <1>1, <1>2, <1>4, OneTold
    <2> QED
      BY <2>1, <2>2, ConcatProperties
  <1>5. CASE Dismissed(events)
    <2>1. PICK r \in RoomName : events = <<Event("returned", General)>> \o <<Event("returned", r)>>
      BY <1>5 DEF Dismissed
    <2>2. /\ <<Event("returned", General)>> \in Seq(Told)
          /\ <<Event("returned", r)>> \in Seq(Told)
      BY <1>1, OneTold
    <2> QED
      BY <2>1, <2>2, ConcatProperties
  <1>6. CASE events = <<Event("welcome", NoRoom)>>
    BY <1>1, <1>6, OneTold
  <1> QED
    BY <1>2, <1>3, <1>4, <1>5, <1>6 DEF Answered

(* The answers of the server are these.                                    *)
LEMMA OwnAnswer ==
    ASSUME Whole, sock \in Client, Take(sock), NEW f, f = Head(toServer[sock])
    PROVE  Answered(f, Answer(sock, f))
  <1>0. /\ RMP!IInv /\ Linked /\ toServer[sock] \in Seq(Sent) /\ toServer[sock] # << >>
        /\ TakeRegister(sock, f) \/ TakeJoin(sock, f) \/ TakeLeave(sock, f) \/ TakeOther(f)
    BY DEF Whole, Linked, Take
  <1>1. f \in Sent
    BY <1>0, HeadTailProperties
  <1>2. \A w \in SUBSET {"name", "room"} : Error(w) \in Told /\ Error(w).ev = "error"
    BY ListingKinds DEF Error, Event
  <1>3. UNCHANGED registry => SameUser(sock)
    BY DEF SameUser, registry
  <1>4. ASSUME UNCHANGED registry, Answer(sock, f) = << >>,
               f.type = "JOIN_ROOM" => f.arg \notin ValidRoomName \/ sock \notin DOMAIN usersById
        PROVE  Answered(f, Answer(sock, f))
    BY <1>3, <1>4, EmptySeq DEF Answered, Unmoved
  <1>5. ASSUME UNCHANGED registry, NEW w \in SUBSET {"name", "room"},
               Answer(sock, f) = <<Error(w)>>,
               f.type = "JOIN_ROOM" => f.arg \notin ValidRoomName \/ sock \notin DOMAIN usersById
        PROVE  Answered(f, Answer(sock, f))
    <2> DEFINE e == Error(w)
    <2>1. e \in Told /\ e.ev = "error"
      BY <1>2
    <2>2. Answer(sock, f) = <<e>>
      BY <1>5
    <2> HIDE DEF e
    <2>3. Answer(sock, f) \in Seq(Told)
      BY <2>1, <2>2, OneTold
    <2> QED
      BY <1>3, <1>5, <2>1, <2>2, <2>3 DEF Answered, Unmoved
  <1>6. CASE f.type = "USER_REGISTER"
    <2>1. TakeRegister(sock, f)
      BY <1>0, <1>6, GatewayAssumption DEF TakeJoin, TakeLeave, TakeOther
    <2>2. CASE RM!RegisterUser(sock, f.arg)
      <3>1. RM!CanRegister(f.arg)
        BY <2>2 DEF RM!RegisterUser
      <3>2. Answer(sock, f) = <<Event("welcome", NoRoom)>>
        BY <1>6, <3>1 DEF Answer, OnlyIf
      <3>3. /\ sock \in DOMAIN usersById'
            /\ usersById'[sock] = [username |-> f.arg, currentRoom |-> General]
        BY <2>2 DEF RM!RegisterUser, RM!SetUser
      <3>4. Event("welcome", NoRoom) \in Told
        BY DEF Event, Told
      <3>5. Answer(sock, f) \in Seq(Told)
        BY <3>2, <3>4, OneTold
      <3> QED
        BY <1>6, <3>2, <3>3, <3>5 DEF Answered
    <2>3. CASE ~RM!CanRegister(f.arg) /\ UNCHANGED registry
      <3>1. Answer(sock, f) = <<Error({"name"})>> \/ Answer(sock, f) = <<Error({})>>
        BY <1>6, <2>3 DEF Answer, OnlyIf
      <3> QED
        BY <1>5, <1>6, <2>3, <3>1
    <2> QED
      BY <2>1, <2>2, <2>3 DEF TakeRegister
  <1>7. CASE f.type = "JOIN_ROOM"
    <2>1. TakeJoin(sock, f)
      BY <1>0, <1>7, GatewayAssumption DEF TakeRegister, TakeLeave, TakeOther
    <2>2. CASE sock \notin DOMAIN usersById
      <3>1. UNCHANGED registry
        BY <2>1, <2>2 DEF TakeJoin, RM!JoinRoom
      <3>2. Answer(sock, f) = <<Error({"name"})>>
        BY <1>7, <2>2 DEF Answer, OnlyIf
      <3> QED
        BY <1>5, <2>2, <3>1, <3>2
    <2>3. CASE sock \in DOMAIN usersById /\ f.arg \notin ValidRoomName
      <3>1. UNCHANGED registry
        BY <2>1, <2>3 DEF TakeJoin, RM!JoinRoom
      <3>2. Answer(sock, f) = <<Error(ErrorRead[f.arg])>>
        BY <1>7, <2>3 DEF Answer, OnlyIf
      <3>3. ErrorRead[f.arg] \in SUBSET {"name", "room"}
        BY <1>1, <1>7, SentText, PatternAssumption
      <3> QED
        BY <1>5, <2>3, <3>1, <3>2, <3>3
    <2>4. CASE sock \in DOMAIN usersById /\ f.arg \in ValidRoomName
      <3> DEFINE prev == usersById[sock].currentRoom
                 e == Event("joined", f.arg)
                 n == OnlyIf(prev # f.arg, Notice(f.arg, f.arg))
      <3>1. Answer(sock, f) = << >> \o n \o <<e>>
        BY <1>7, <2>4 DEF Answer, JoinAnswer, OnlyIf
      <3>2. n \in Seq(Words) /\ f.arg \in RoomName
        BY <1>1, <1>7, SentText, NoticeWords DEF Quotable, OnlyIf
      <3>3. Answer(sock, f) = n \o <<e>>
        <4> HIDE DEF n, e
        <4>1. << >> \o n = n
          BY <3>2, ConcatEmptySeq
        <4> QED
          BY <3>1, <4>1
      <3> HIDE DEF n, prev, e
      <3>4. usersById[sock] = [username |-> usersById[sock].username,
                               currentRoom |-> usersById[sock].currentRoom]
        BY <1>0, <2>4, TypedUsers
      <3>5. CASE RM!JoinRoom(sock, f.arg)
        <4>1. /\ sock \in DOMAIN usersById'
              /\ usersById'[sock] = [usersById[sock] EXCEPT !.currentRoom = f.arg]
          BY <3>5 DEF RM!JoinRoom, RM!SetUser
        <4>2. usersById'[sock] = [username |-> usersById[sock].username, currentRoom |-> f.arg]
          BY <3>4, <4>1
        <4> QED
          BY <1>7, <2>4, <3>2, <3>3, <4>1, <4>2 DEF Answered, Admitted, e
      <3>6. CASE usersById[sock].currentRoom = f.arg /\ UNCHANGED registry
        BY <1>7, <2>4, <3>2, <3>3, <3>4, <3>6 DEF Answered, Admitted, registry, e
      <3> QED
        BY <2>1, <2>4, <3>5, <3>6 DEF TakeJoin, CanJoin
    <2> QED
      BY <2>2, <2>3, <2>4
  <1>8. CASE f.type = "LEAVE_ROOM"
    <2>1. TakeLeave(sock, f)
      BY <1>0, <1>8, GatewayAssumption DEF TakeRegister, TakeJoin, TakeOther
    <2>2. CASE sock \notin DOMAIN usersById
      <3>1. UNCHANGED registry
        BY <2>1, <2>2 DEF TakeLeave, RM!LeaveRoom
      <3>2. Answer(sock, f) = << >>
        BY <1>8, <2>2 DEF Answer
      <3> QED
        BY <1>4, <1>8, <3>1, <3>2
    <2>3. CASE sock \in DOMAIN usersById /\ usersById[sock].currentRoom = General
      <3>1. UNCHANGED registry
        BY <2>1, <2>3 DEF TakeLeave, RM!LeaveRoom
      <3>2. Answer(sock, f) = << >>
        BY <1>8, <2>3 DEF Answer
      <3> QED
        BY <1>4, <1>8, <3>1, <3>2
    <2>4. CASE sock \in DOMAIN usersById /\ usersById[sock].currentRoom # General
      <3> DEFINE left == usersById[sock].currentRoom
                 a == <<Event("returned", General)>>
                 b == <<Event("returned", left)>>
      <3>1. Answer(sock, f) = << >> \o a \o b
        BY <1>8, <2>4 DEF Answer, LeaveAnswer, OnlyIf
      <3>2. left \in RoomName
        BY <1>0, <2>4, TypedUsers
      <3>3. a \in Seq(Told)
        <4>1. Event("returned", General) \in Told
          BY GatewayAssumption DEF Event, Told
        <4> QED
          BY <4>1, OneTold
      <3>4. Answer(sock, f) = a \o b
        <4> HIDE DEF a, b
        <4>1. << >> \o a = a
          BY <3>3, ConcatEmptySeq
        <4> QED
          BY <3>1, <4>1
      <3> HIDE DEF left
      <3>5. usersById[sock] = [username |-> usersById[sock].username,
                               currentRoom |-> usersById[sock].currentRoom]
        BY <1>0, <2>4, TypedUsers
      <3>6. RM!LeaveRoom(sock)
        BY <2>1, <2>4 DEF TakeLeave
      <3>7. /\ sock \in DOMAIN usersById'
            /\ usersById'[sock] = [usersById[sock] EXCEPT !.currentRoom = General]
        BY <3>6 DEF RM!LeaveRoom, RM!SetUser
      <3>8. usersById'[sock] = [username |-> usersById[sock].username, currentRoom |-> General]
        BY <3>5, <3>7
      <3> QED
        BY <1>8, <2>4, <3>2, <3>4, <3>7, <3>8 DEF Answered, Dismissed
    <2> QED
      BY <2>2, <2>3, <2>4
  <1>9. CASE f.type \notin {"USER_REGISTER", "JOIN_ROOM", "LEAVE_ROOM"}
    <2>1. UNCHANGED registry
      BY <1>0, <1>9 DEF TakeRegister, TakeJoin, TakeLeave, TakeOther
    <2>2. CASE f.type \in {"CHAT_MESSAGE", "PRIVATE_MESSAGE"} /\ sock \in DOMAIN usersById
      <3>1. Answer(sock, f) \in Seq(Words)
        BY <1>1, <2>2, SpokenAnswer
      <3> QED
        BY <1>3, <2>1, <2>2, <3>1 DEF Answered
    <2>3. CASE f.type \in {"CHAT_MESSAGE", "PRIVATE_MESSAGE"} /\ sock \notin DOMAIN usersById
      <3>1. Answer(sock, f) = <<Error({"name"})>>
        BY <2>3 DEF Answer, OnlyIf
      <3> QED
        BY <1>5, <1>9, <2>1, <3>1
    <2>4. CASE f.type \notin {"CHAT_MESSAGE", "PRIVATE_MESSAGE"}
      <3>1. Answer(sock, f) = << >>
        BY <1>9, <2>4 DEF Answer
      <3> QED
        BY <1>4, <1>9, <2>1, <3>1
    <2> QED
      BY <2>2, <2>3, <2>4
  <1> QED
    BY <1>6, <1>7, <1>8, <1>9

------------------------------------------------------------------------------
(* What others do, and the server.                                         *)
LEMMA SameUserBack ==
    ASSUME Whole, Whole', NEW d \in Client, Same(d)
    PROVE  SameUser(d)
  <1>1. RMP!IInv /\ RMP!IInv'
    BY DEF Whole
  <1>2. /\ Known(usersById, d).username # NoHandle <=> d \in DOMAIN usersById
        /\ d \in DOMAIN usersById => Known(usersById, d).room = usersById[d].currentRoom
    BY <1>1, KnownType
  <1>a. \A c \in DOMAIN usersById' : usersById'[c] \in [username : Handle, currentRoom : RoomName]
    BY <1>1 DEF RMP!IInv, RMP!TypeOK, RMP!UserInfo
  <1>b. NoHandle \notin Handle
    BY DEF Handle
  <1>3. /\ Known(usersById', d).username # NoHandle <=> d \in DOMAIN usersById'
        /\ d \in DOMAIN usersById' => Known(usersById', d).room = usersById'[d].currentRoom
    BY <1>a, <1>b DEF Known, NotRegistered
  <1>4. d \in DOMAIN usersById' <=> d \in DOMAIN usersById
    BY <1>2, <1>3 DEF Same
  <1>5. ASSUME d \in DOMAIN usersById PROVE usersById'[d] = usersById[d]
    <2>1. usersById[d] = [username |-> usersById[d].username, currentRoom |-> usersById[d].currentRoom]
      BY <1>1, <1>5, TypedUsers
    <2>2. usersById'[d] = [username |-> usersById'[d].username, currentRoom |-> usersById'[d].currentRoom]
      BY <1>a, <1>4, <1>5
    <2>3. usersById'[d].username = usersById[d].username
      BY <1>4, <1>5 DEF Same, Known
    <2>4. usersById'[d].currentRoom = usersById[d].currentRoom
      BY <1>2, <1>3, <1>4, <1>5 DEF Same
    <2> QED
      BY <2>1, <2>2, <2>3, <2>4
  <1> QED
    BY <1>4, <1>5 DEF SameUser

(* The browser and its connection are left alone, but for an event.        *)
Alone == UNCHANGED <<ws, sock, hook, up, mixed, astray>>

(* Somebody else's step: it is overheard, or not.                          *)
Aside ==
    /\ Alone /\ Same(sock) /\ SameUser(sock) /\ SameName
    /\ UNCHANGED down \/ \E events : down' = down \o events /\ Overheard(events)

(* The server takes up a frame of the browser's.                           *)
Attending ==
    /\ Alone /\ SameName
    /\ sock \in conn /\ sock \in conn'
    /\ toServer[sock] # << >> /\ toServer'[sock] = Tail(toServer[sock])
    /\ down' = down \o Answer(sock, Head(toServer[sock]))
    /\ Answered(Head(toServer[sock]), Answer(sock, Head(toServer[sock])))

(* The server closes the connection.                                       *)
Cut ==
    /\ Alone /\ SameName /\ UNCHANGED down
    /\ sock \notin conn' /\ toServer'[sock] = << >> /\ sock \notin DOMAIN usersById'

(* The steps of the server and of the peer.                                *)
Elsewhere == Alone /\ (ws # "open" \/ Aside \/ Attending \/ Cut)

(* A step on another connection does not touch the browser's.              *)
LEMMA AsideStep ==
    ASSUME Whole, Whole', Wire, Alone, NEW c \in Client, c # sock,
           Opening(c) \/ Asked(c) \/ Leaving(c) \/ Closing(c) \/ Taking(c) \/ Hanging(c),
           UNCHANGED down \/ \E events : down' = down \o events /\ Overheard(events)
    PROVE  Aside
  <1>1. sock \in Client
    BY DEF Wire
  <1>2. Same(sock)
    BY <1>1, OthersSame
  <1> QED
    BY <1>1, <1>2, SameUserBack DEF Aside, Same, SameName

(* The page is not touched, and the WebSocket stays as open as it was.     *)
LEMMA AloneSound ==
    ASSUME Sound, Alone, UNCHANGED <<saved, modal, timer>>, down' \in Seq(Told),
           ws = "open" => session'[sock].open
    PROVE  Sound'
  <1>1. Page' /\ Mail' /\ Dialog'
    BY DEF Sound, Kinds, Alone, Page, Mail, Dialog
  <1>2. Wire'
    BY DEF Sound, Kinds, Alone, Wire
  <1> QED
    BY <1>1, <1>2 DEF Sound, Kinds

(* So with the peer,                                                       *)
LEMMA PeerStep ==
    ASSUME Whole, Whole', Sound, PeerDoes
    PROVE  Sound' /\ Aside
  <1>0. Types /\ Wire /\ sock \in Client /\ sock # Peer /\ down \in Seq(Told) /\ Peer \in Client
    BY ClientAssumption DEF Whole, Sound, Kinds, Wire
  <1>1. PICK q \in PeerAction : HandleRequest(Peer, q)
    BY DEF PeerDoes
  <1>2. MayAsk(q)
    BY PeerAssumption
  <1>3. PICK events : Served(Peer, q, events) /\ Tell(Peer, events)
    BY <1>0, <1>1, <1>2, ServedCases
  <1>4. UNCHANGED down
    BY <1>0, <1>3 DEF Tell
  <1>5. BrowserAsks(Peer) \/ UNCHANGED gateway
    BY <1>0, <1>2, <1>3, ServedFollows
  <1>6. Alone /\ UNCHANGED <<saved, modal, timer>>
    BY DEF PeerDoes, Alone, cookies, histories
  <1>7. Aside
    <2>1. CASE BrowserAsks(Peer)
      BY <1>0, <1>4, <1>6, <2>1, AskedStep, AsideStep
    <2>2. CASE UNCHANGED gateway
      BY <1>4, <1>6, <2>2 DEF Aside, Same, SameUser, SameName, gateway, bridge, registry
    <2> QED
      BY <1>5, <2>1, <2>2
  <1>8. ws = "open" => session'[sock].open
    BY <1>0, <1>7 DEF Aside, Same, Wire
  <1> QED
    BY <1>0, <1>4, <1>6, <1>7, <1>8, AloneSound

(* the server, which may be at the browser's connection too,               *)
LEMMA ServerStep ==
    ASSUME Whole, Whole', NoStray, Sound, NEW c \in Client, Server(c)
    PROVE  Sound' /\ Elsewhere
  <1>0. /\ Types /\ Wire /\ sock \in Client /\ down \in Seq(Told)
        /\ toServer \in [Client -> Seq(Sent)]
    BY DEF Whole, Linked, Sound, Kinds, Wire
  <1>1. Alone /\ UNCHANGED <<saved, modal, timer>>
    BY DEF Server, Alone, cookies
  <1>2. Take(c) \/ TakeDisconnect(c)
    BY DEF Server
  <1>3. UNCHANGED session
    BY <1>2 DEF Take, TakeDisconnect, Hangs
  <1>4. CASE Take(c) /\ Tell(sock, Answer(c, Head(toServer[c])))
    <2> DEFINE f == Head(toServer[c])
    <2>1. toServer[c] # << >> /\ f \in Sent
      BY <1>0, <1>4, HeadTailProperties DEF Take
    <2>2. ws = "open" => down' = down \o Answer(c, f)
      BY <1>0, <1>4 DEF Tell, Wire
    <2>3. ws # "open" => UNCHANGED down
      BY <1>4 DEF Tell
    <2>4. CASE c = sock
      <3>1. PICK g : g = f
        OBVIOUS
      <3>2. Answered(g, Answer(sock, g)) /\ Answer(sock, g) \in Seq(Told)
        BY <1>0, <1>4, <2>4, <3>1, OwnAnswer, AnsweredTold
      <3>3. down' \in Seq(Told)
        BY <1>0, <2>2, <2>3, <2>4, <3>1, <3>2, ConcatProperties
      <3>4. Sound'
        BY <1>0, <1>1, <1>3, <3>3, AloneSound DEF Wire
      <3>5. Taking(sock)
        BY <1>0, <1>4, <2>4, TakeStep
      <3>6. /\ sock \in conn /\ sock \in conn' /\ SameName
            /\ toServer[sock] # << >> /\ toServer'[sock] = Tail(toServer[sock])
        BY <1>0, <1>3, <3>5 DEF Taking, SameName
      <3>7. ws = "open" => Attending
        BY <1>1, <2>2, <2>4, <3>1, <3>2, <3>6 DEF Attending
      <3> QED
        BY <1>1, <3>4, <3>7 DEF Elsewhere
    <2>5. CASE c # sock
      <3>1. PICK events : events = Answer(c, f)
        OBVIOUS
      <3>2. Overheard(events)
        BY <1>0, <2>1, <2>5, <3>1, OthersAnswer
      <3>3. events \in Seq(Told)
        BY <3>2, OverheardTold
      <3>4. UNCHANGED down \/ down' = down \o events
        BY <2>2, <2>3, <3>1
      <3>5. down' \in Seq(Told)
        BY <1>0, <3>3, <3>4, ConcatProperties
      <3>6. Aside
        BY <1>0, <1>1, <1>4, <2>5, <3>2, <3>4, TakeStep, AsideStep
      <3>7. Sound'
        BY <1>0, <1>1, <1>3, <3>5, AloneSound DEF Wire
      <3> QED
        BY <1>1, <3>6, <3>7 DEF Elsewhere
    <2> QED
      BY <2>4, <2>5
  <1>5. CASE TakeDisconnect(c) /\ UNCHANGED down
    <2>1. Hanging(c)
      BY <1>5, HangsStep DEF TakeDisconnect
    <2>2. Sound'
      BY <1>0, <1>1, <1>3, <1>5, AloneSound DEF Wire
    <2>3. CASE c = sock
      BY <1>0, <1>1, <1>3, <1>5, <2>1, <2>2, <2>3 DEF Hanging, Cut, Elsewhere, SameName
    <2>4. CASE c # sock
      BY <1>0, <1>1, <1>5, <2>1, <2>2, <2>4, AsideStep DEF Elsewhere
    <2> QED
      BY <2>3, <2>4
  <1> QED
    BY <1>4, <1>5 DEF Server

(* and the ends of connections.                                            *)
LEMMA EndsStep ==
    ASSUME Whole, Whole', Sound, NEW c \in Client,
           GatewayLearns(c) \/ BridgeCloses(c) \/ ServerDrops(c)
    PROVE  Sound' /\ Elsewhere
  <1>0. /\ Types /\ Wire /\ sock \in Client /\ down \in Seq(Told)
        /\ toServer \in [Client -> Seq(Sent)]
    BY DEF Whole, Linked, Sound, Kinds, Wire
  <1>1. Alone /\ UNCHANGED <<saved, modal, timer, down>>
    BY DEF GatewayLearns, BridgeCloses, ServerDrops, Alone, cookies, browser, channel, histories
  <1>2. CASE GatewayLearns(c)
    <2>1. Leaving(c) /\ (c = sock => ws # "open")
      BY <1>0, <1>2, LeavingStep DEF GatewayLearns
    <2>2. ws = "open" => Aside
      BY <1>0, <1>1, <2>1, AsideStep
    <2>3. ws = "open" => session'[sock].open
      BY <1>0, <2>2 DEF Aside, Same, Wire
    <2> QED
      BY <1>0, <1>1, <2>2, <2>3, AloneSound DEF Elsewhere
  <1>3. CASE BridgeCloses(c)
    <2>1. Closing(c)
      BY <1>3 DEF BridgeCloses, TcpClose, Closing
    <2>2. Aside
      <3>1. UNCHANGED <<session, toServer, conn, usersById>>
        BY <2>1 DEF Closing, registry
      <3> QED
        BY <1>1, <3>1 DEF Aside, Same, SameUser, SameName
    <2>3. ws = "open" => session'[sock].open
      BY <1>0, <2>2 DEF Aside, Same, Wire
    <2> QED
      BY <1>0, <1>1, <2>2, <2>3, AloneSound DEF Elsewhere
  <1>4. CASE ServerDrops(c)
    <2>1. Hanging(c) /\ UNCHANGED session
      BY <1>4, HangsStep DEF ServerDrops, Drop, Hangs
    <2>2. Sound'
      BY <1>0, <1>1, <2>1, AloneSound DEF Wire
    <2>3. CASE c = sock
      BY <1>0, <1>1, <2>1, <2>2, <2>3 DEF Hanging, Cut, Elsewhere, SameName
    <2>4. CASE c # sock
      BY <1>0, <1>1, <2>1, <2>2, <2>4, AsideStep DEF Elsewhere
    <2> QED
      BY <2>3, <2>4
  <1> QED
    BY <1>2, <1>3, <1>4

------------------------------------------------------------------------------
(* What is under way.                                                      *)

(* Events that h may see, requests and frames that give no name but his.   *)
Safe(h) == {e \in Told : /\ e.ev = "whisper" => OwnMail(h, e.arg)
                         /\ e.ev = "history" => e.arg \in Seq(Own(h))}
(* Requests and frames that give no name but h.                            *)
AsksAs(h) == {q \in Asking : q.do = "register" => q.arg.user = h}
SentAs(h) == {f \in Sent : f.type = "USER_REGISTER" => f.arg = h}

(* An open WebSocket that nobody has logged in on is told only of what is  *)
(* said and noticed in a room its identifier is still a member of.         *)
Fresh ==
    ws = "open" /\ hook.profile = Nobody =>
        /\ up = << >> /\ toServer[sock] = << >>
        /\ down \in Seq(Scraps)
        /\ sock \notin DOMAIN usersById /\ session[sock].username = NoHandle

(* Nobody else's name or mail is under way to or from a user.              *)
Apart ==
    ws = "open" /\ hook.profile \in Handle \ mixed =>
        /\ down \in Seq(Safe(hook.profile))
        /\ up \in Seq(AsksAs(hook.profile))
        /\ toServer[sock] \in Seq(SentAs(hook.profile))
        /\ sock \in DOMAIN usersById => usersById[sock].username = hook.profile

(* The room the page shows after an event,                                 *)
After(r, e) ==
    IF e.ev = "joined" /\ JoinShows(e.arg) # NoRoom THEN JoinShows(e.arg)
    ELSE IF e.ev = "notice" /\ QuoteShows(e.arg) # NoRoom THEN QuoteShows(e.arg)
    ELSE IF e.ev = "returned" \/ (e.ev = "error" /\ "room" \in e.arg) THEN General
    ELSE r

(* and what parts it from the server's.                                    *)
Parts(r, e) ==
    \/ e.ev = "joined" /\ JoinShows(e.arg) # e.arg
    \/ e.ev = "notice" /\ QuoteShows(e.arg) \notin {NoRoom, r}
    \/ e.ev = "error" /\ "room" \in e.arg /\ r # General

(* The page reads the event that has come first.                           *)
Delivering ==
    /\ UNCHANGED <<session, conn, toServer, usersById, ws, sock, up, mixed>>
    /\ down # << >> /\ down' = Tail(down)
    /\ hook'.profile = hook.profile
    /\ hook'.room = After(hook.room, Head(down))
    /\ astray' <=> (astray \/ Parts(hook.room, Head(down)))

(* The page stays in order when its feed stays.                            *)
LEMMA PageKeeps ==
    ASSUME Page, Mail, UNCHANGED mixed, NEW state \in Hook,
           state.profile = hook.profile, state.feed = hook.feed,
           state.registered => state.profile # Nobody,
           NEW kept \in Saved, kept.feeds = saved.feeds, Persist(state, kept)
    PROVE  Page' /\ Mail' /\ hook' = state
  <1>1. mixed \subseteq mixed' /\ mixed' \subseteq Handle
    BY DEF Page
  <1>2. state.profile \in Handle \ mixed' => state.feed \in Seq(Own(state.profile))
    BY DEF Mail
  <1> QED
    BY <1>1, <1>2, PersistMail

(* What is heard in a room is a line for everybody.                        *)
LEMMA RoomsMessages ==
    /\ \A r \in RoomName, h \in Handle, x \in Text :
          RoomMessage(r, h, x) \in Line /\ ~RoomMessage(r, h, x).private
    /\ \A r \in RoomName, m \in Saying :
          RoomMessage(r, Nobody, m) \in Line /\ ~RoomMessage(r, Nobody, m).private
  BY DEF RoomMessage, Line, Message

(* A line that the user may have is shown.                                 *)
LEMMA PageHears ==
    ASSUME Page, Mail, UNCHANGED mixed, NEW m \in Line, OwnMail(hook.profile, m),
           SetHook([hook EXCEPT !.feed = WithMessage(@, m)])
    PROVE  Page' /\ Mail' /\ hook' = [hook EXCEPT !.feed = WithMessage(hook.feed, m)]
  <1> DEFINE f == WithMessage(hook.feed, m)
  <1>1. hook.feed \in Seq(Line) /\ m \in Own(hook.profile)
    BY DEF Page, Hook, Own
  <1>2. f \in Seq(Line)
    BY <1>1, WithMessageIn
  <1>3. hook.profile \in Handle \ mixed => f \in Seq(Own(hook.profile))
    BY <1>1, WithMessageIn DEF Mail
  <1>4. SetHook([hook EXCEPT !.feed = f])
    OBVIOUS
  <1> HIDE DEF f
  <1>5. Page' /\ Mail' /\ hook' = [hook EXCEPT !.feed = f]
    BY <1>2, <1>3, <1>4, PageGrows
  <1> QED
    BY <1>5 DEF f

(* What the page reads in what it is told.                                 *)
LEMMA ReadRooms ==
    /\ \A r \in RoomName : JoinShows(r) \in RoomName \cup {NoRoom}
    /\ \A q \in Quotable \X Quotable : QuoteShows(q) \in RoomName \cup {NoRoom}
  BY PatternAssumption, GatewayAssumption DEF JoinShows, QuoteShows

(* A notice leaves the page in order.                                      *)
LEMMA NotifiedStep ==
    ASSUME Page, Mail, Dialog, UNCHANGED mixed, NEW r \in RoomName \cup {NoRoom},
           NEW welcome \in BOOLEAN, Notified(r, welcome)
    PROVE  /\ Page' /\ Mail' /\ Dialog' /\ hook'.profile = hook.profile
           /\ hook'.room = IF r = NoRoom THEN hook.room ELSE r
  <1> DEFINE seen == IF r = NoRoom THEN hook ELSE [hook EXCEPT !.room = r, !.dm = Nobody]
             known == welcome /\ hook.profile # Nobody
             state == IF known THEN [seen EXCEPT !.registered = TRUE] ELSE seen
             kept == IF known /\ hook.email # NoEmail
                     THEN [saved EXCEPT !.handles[hook.email] = hook.profile] ELSE saved
  <1>0. hook \in Hook /\ saved \in Saved /\ (hook.registered => hook.profile # Nobody)
    BY DEF Page
  <1>1. Persist(state, kept)
    BY DEF Notified
  <1>2. /\ seen \in Hook /\ seen.profile = hook.profile /\ seen.feed = hook.feed
        /\ seen.registered = hook.registered
        /\ seen.room = IF r = NoRoom THEN hook.room ELSE r
    BY <1>0 DEF Hook
  <1>3. known => hook.profile \in Handle
    BY <1>0 DEF Hook
  <1>4. Dialog'
    <2> DEFINE new == [modal.fetch EXCEPT !.shown = FALSE]
    <2>1. modal.fetch \in Fetch
      BY DEF Dialog, Modal
    <2>2. new \in Fetch /\ new.left = modal.fetch.left /\ new.email = modal.fetch.email
      BY <2>1 DEF Fetch
    <2>3. modal' = IF known THEN [google |-> NoEmail, fetch |-> new] ELSE modal
      BY DEF Notified
    <2> HIDE DEF new, known
    <2> QED
      BY <2>2, <2>3 DEF Dialog, Modal
  <1> HIDE DEF seen
  <1>5. /\ state \in Hook /\ state.profile = hook.profile /\ state.feed = hook.feed
        /\ state.room = seen.room /\ (state.registered => state.profile # Nobody)
    BY <1>0, <1>2 DEF Hook
  <1>6. kept \in Saved /\ kept.feeds = saved.feeds
    BY <1>0, <1>3 DEF Saved, Hook
  <1> HIDE DEF state, kept, known
  <1>7. Page' /\ Mail' /\ hook' = state
    BY <1>1, <1>5, <1>6, PageKeeps
  <1> QED
    BY <1>2, <1>4, <1>5, <1>7

(* An event may be shown to the user it has come to.                       *)
LEMMA DeliverStep ==
    ASSUME Whole, Sound, Fresh, Apart, Deliver
    PROVE  Sound' /\ Delivering
  <1> DEFINE e == Head(down)
             Turn == /\ Page' /\ Mail' /\ Dialog' /\ hook'.profile = hook.profile
                     /\ hook'.room = After(hook.room, e)
                     /\ astray' <=> (astray \/ Parts(hook.room, e))
  <1>0. /\ Page /\ Mail /\ Dialog /\ Wire /\ hook \in Hook /\ saved \in Saved
        /\ down \in Seq(Told) /\ down # << >> /\ ws = "open" /\ down' = Tail(down)
        /\ UNCHANGED <<gateway, ws, timer, sock, up, mixed>>
        /\ \/ Listed(e) \/ Spoken(e) \/ Refused(e)
           \/ Welcomed(e) \/ Joined(e) \/ Returned(e) \/ Quoted(e)
    BY DEF Sound, Kinds, Page, Wire, Deliver
  <1>1. e \in Told /\ down' \in Seq(Told)
    BY <1>0, HeadTailProperties
  <1>2. hook.profile = Nobody => e.ev \in {"heard", "notice"}
    <2>1. hook.profile = Nobody => down \in Seq(Scraps)
      BY <1>0 DEF Fresh
    <2>2. hook.profile = Nobody => e \in Scraps
      BY <1>0, <2>1, HeadTailProperties
    <2> QED
      BY <2>2 DEF Scraps
  <1>3. hook.profile \in Handle \ mixed => e \in Safe(hook.profile)
    BY <1>0, HeadTailProperties DEF Apart
  <1> HIDE DEF e
  <1>4. Turn
    <2>1. CASE Listed(e)
      <3> DEFINE f == Merge(hook.feed, e.arg)
      <3>1. e.ev = "history" /\ UNCHANGED <<modal, astray>> /\ SetHook([hook EXCEPT !.feed = f])
        BY <2>1 DEF Listed
      <3>2. e.arg \in Seq(Message)
        BY <1>1, <3>1 DEF Told
      <3>3. e.arg \in Seq(Line)
        <4>1. Message \subseteq Line
          BY DEF Line
        <4> QED
          BY <3>2, <4>1, SeqMonotonic
      <3>4. f \in Seq(Line)
        BY <1>0, <3>3, MergeIn DEF Hook
      <3>5. hook.profile \in Handle \ mixed => f \in Seq(Own(hook.profile))
        BY <1>0, <1>3, <3>1, MergeIn DEF Mail, Safe
      <3> HIDE DEF f
      <3>6. Page' /\ Mail' /\ hook' = [hook EXCEPT !.feed = f]
        BY <1>0, <3>1, <3>4, <3>5, PageGrows
      <3>7. hook'.profile = hook.profile /\ hook'.room = hook.room
        BY <1>0, <3>6 DEF Hook
      <3> QED
        BY <1>0, <3>1, <3>6, <3>7 DEF After, Parts, Dialog
    <2>2. CASE Welcomed(e)
      <3>1. e.ev = "welcome" /\ Notified(NoRoom, TRUE) /\ UNCHANGED astray
        BY <2>2 DEF Welcomed
      <3>2. /\ Page' /\ Mail' /\ Dialog' /\ hook'.profile = hook.profile
            /\ hook'.room = hook.room
        BY <1>0, <3>1, NotifiedStep
      <3> QED
        BY <3>1, <3>2 DEF After, Parts
    <2>3. CASE Joined(e)
      <3> DEFINE r == JoinShows(e.arg)
                 welcome == e.arg \in Welcoming
      <3>1. e.ev = "joined" /\ Notified(r, welcome) /\ astray' = (astray \/ r # e.arg)
        BY <2>3 DEF Joined
      <3>2. r \in RoomName \cup {NoRoom} /\ welcome \in BOOLEAN
        BY <1>1, <3>1, ReadRooms, GatewayAssumption DEF Told
      <3> HIDE DEF welcome
      <3>3. /\ Page' /\ Mail' /\ Dialog' /\ hook'.profile = hook.profile
            /\ hook'.room = IF r = NoRoom THEN hook.room ELSE r
        BY <1>0, <3>1, <3>2, NotifiedStep
      <3> QED
        BY <3>1, <3>3 DEF After, Parts
    <2>4. CASE Returned(e)
      <3> DEFINE welcome == e.arg \in Welcoming
      <3>1. e.ev = "returned" /\ Notified(General, welcome) /\ UNCHANGED astray
        BY <2>4 DEF Returned
      <3>2. welcome \in BOOLEAN /\ General \in RoomName /\ General # NoRoom
        BY GatewayAssumption
      <3> HIDE DEF welcome
      <3>3. /\ Page' /\ Mail' /\ Dialog' /\ hook'.profile = hook.profile
            /\ hook'.room = General
        BY <1>0, <3>1, <3>2, NotifiedStep
      <3> QED
        BY <3>1, <3>3 DEF After, Parts
    <2>5. CASE Quoted(e)
      <3> DEFINE r == QuoteShows(e.arg)
                 welcome == e.arg[1] \in Welcoming \/ e.arg[2] \in Welcoming
      <3>1. /\ e.ev = "notice" /\ Notified(r, welcome)
            /\ astray' = (astray \/ r \notin {NoRoom, hook.room})
        BY <2>5 DEF Quoted
      <3>2. r \in RoomName \cup {NoRoom} /\ welcome \in BOOLEAN
        BY <1>1, <3>1, ReadRooms DEF Told
      <3> HIDE DEF welcome
      <3>3. /\ Page' /\ Mail' /\ Dialog' /\ hook'.profile = hook.profile
            /\ hook'.room = IF r = NoRoom THEN hook.room ELSE r
        BY <1>0, <3>1, <3>2, NotifiedStep
      <3> QED
        BY <3>1, <3>3 DEF After, Parts
    <2>6. CASE Spoken(e)
      <3>1. PICK m \in Line : /\ OwnMail(hook.profile, m)
                              /\ SetHook([hook EXCEPT !.feed = WithMessage(@, m)])
        <4>1. CASE e.ev = "heard" /\ SetHook([hook EXCEPT !.feed = WithMessage(@, HeardMessage(e.arg))])
          <5>1. e.arg \in Saying /\ hook.room \in RoomName
            BY <1>0, <1>1, <4>1 DEF Told, Hook
          <5>2. HeardMessage(e.arg) \in Line /\ ~HeardMessage(e.arg).private
            BY <5>1, RoomsMessages DEF HeardMessage, Saying
          <5> QED
            BY <4>1, <5>2 DEF OwnMail
        <4>2. CASE /\ e.ev = "whisper"
                   /\ SetHook([hook EXCEPT !.feed =
                         WithMessage(@, DirectMessage(e.arg.sender, hook.profile, e.arg.text))])
          <5>1. e.arg \in Private /\ hook.profile \in Handle
            BY <1>0, <1>1, <1>2, <4>2 DEF Told, Hook
          <5> DEFINE m == DirectMessage(e.arg.sender, hook.profile, e.arg.text)
          <5>2. m \in Line /\ m \in Own(hook.profile)
            BY <5>1, OwnLines DEF Private
          <5>3. SetHook([hook EXCEPT !.feed = WithMessage(@, m)])
            BY <4>2
          <5> HIDE DEF m
          <5> QED
            BY <5>2, <5>3 DEF Own
        <4> QED
          BY <2>6, <4>1, <4>2 DEF Spoken
      <3>2. e.ev \in {"heard", "whisper"} /\ UNCHANGED <<modal, astray>>
        BY <2>6 DEF Spoken
      <3>3. Page' /\ Mail' /\ hook' = [hook EXCEPT !.feed = WithMessage(hook.feed, m)]
        BY <1>0, <3>1, PageHears
      <3>4. hook'.profile = hook.profile /\ hook'.room = hook.room
        BY <1>0, <3>3 DEF Hook
      <3> QED
        BY <1>0, <3>2, <3>3, <3>4 DEF After, Parts, Dialog
    <2>7. CASE Refused(e)
      <3> DEFINE name == "name" \in e.arg
                 room == "room" \in e.arg
                 state == [hook EXCEPT !.registered = @ /\ ~name,
                                       !.room = IF room THEN General ELSE @]
                 kept == IF name /\ hook.email # NoEmail
                         THEN [saved EXCEPT !.handles[hook.email] = Nobody] ELSE saved
      <3>1. /\ e.ev = "error" /\ UNCHANGED modal /\ Persist(state, kept)
            /\ astray' = (astray \/ (room /\ hook.room # General))
        BY <2>7 DEF Refused
      <3>2. General \in RoomName
        BY GatewayAssumption
      <3>3. /\ state \in Hook /\ state.profile = hook.profile /\ state.feed = hook.feed
            /\ state.room = (IF room THEN General ELSE hook.room)
            /\ state.registered => hook.registered
        BY <1>0, <3>2 DEF Hook
      <3>4. kept \in Saved /\ kept.feeds = saved.feeds
        BY <1>0 DEF Saved, Hook
      <3> HIDE DEF state, kept
      <3>5. state.registered => state.profile # Nobody
        BY <1>0, <3>3 DEF Page
      <3>6. Page' /\ Mail' /\ hook' = state
        BY <1>0, <3>1, <3>3, <3>4, <3>5, PageKeeps
      <3> QED
        BY <1>0, <3>1, <3>3, <3>6 DEF After, Parts, Dialog
    <2> QED
      BY <1>0, <2>1, <2>2, <2>3, <2>4, <2>5, <2>6, <2>7
  <1>5. Page' /\ Mail' /\ Dialog'
    BY <1>4
  <1>6. Wire'
    BY <1>0, <1>1 DEF Wire, gateway
  <1>7. Delivering
    BY <1>0, <1>4 DEF Delivering, gateway, bridge, registry, e
  <1> QED
    BY <1>5, <1>6, <1>7 DEF Sound, Kinds

------------------------------------------------------------------------------
(* Queues: what stands somewhere in one, what comes behind what.           *)

(* Something of J is in the queue.                                         *)
Meets(s, J) == \E i \in 1 .. Len(s) : s[i] \in J

(* Something of J is in it behind all that is of R.                        *)
Behind(s, J, R) ==
    \E j \in 1 .. Len(s) : s[j] \in J /\ \A i \in 1 .. Len(s) : s[i] \in R => i < j

(* At most one of R is in it.                                              *)
Single(s, R) == \A i, j \in 1 .. Len(s) : s[i] \in R /\ s[j] \in R => i = j

(* One more element at the end.                                            *)
LEMMA OneMore ==
    ASSUME NEW T, NEW s \in Seq(T), NEW e \in T
    PROVE  s \o <<e>> \in Seq(T) /\ s \o <<e>> = Append(s, e)
  <1>1. s \o <<e>> = Append(s, e)
    BY AppendIsConcat
  <1> QED
    BY <1>1, AppendProperties

(* Its positions.                                                          *)
LEMMA AppendPlaces ==
    ASSUME NEW T, NEW s \in Seq(T), NEW e \in T
    PROVE  /\ Len(s) \in Nat /\ Len(Append(s, e)) = Len(s) + 1
           /\ \A i \in 1 .. Len(s) : Append(s, e)[i] = s[i]
           /\ Append(s, e)[Len(s) + 1] = e
  BY AppendProperties, LenProperties

(* The positions of a queue that has been taken from.                      *)
LEMMA TailPlaces ==
    ASSUME NEW T, NEW s \in Seq(T), s # << >>
    PROVE  /\ Len(s) \in Nat \ {0} /\ Len(Tail(s)) = Len(s) - 1
           /\ Head(s) = s[1]
           /\ \A i \in 1 .. Len(s) - 1 : Tail(s)[i] = s[i + 1]
  <1>1. Len(s) \in Nat /\ Len(Tail(s)) = Len(s) - 1
    BY HeadTailProperties, LenProperties
  <1>2. Len(s) # 0
    BY EmptySeq
  <1>3. \A i \in 1 .. Len(Tail(s)) : Tail(s)[i] = s[i + 1]
    BY HeadTailProperties
  <1>4. Head(s) = s[1]
    OBVIOUS
  <1> QED
    BY <1>1, <1>2, <1>3, <1>4

(* What is in the queue stays in it when it grows.                         *)
LEMMA MeetsAppend ==
    ASSUME NEW T, NEW s \in Seq(T), NEW e \in T, NEW J
    PROVE  /\ Meets(s, J) => Meets(Append(s, e), J)
           /\ e \in J => Meets(Append(s, e), J)
  <1>1. /\ Len(s) \in Nat /\ Len(Append(s, e)) = Len(s) + 1
        /\ \A i \in 1 .. Len(s) : Append(s, e)[i] = s[i]
        /\ Append(s, e)[Len(s) + 1] = e
    BY AppendPlaces
  <1>2. \A i \in 1 .. Len(s) : i \in 1 .. Len(Append(s, e))
    BY <1>1
  <1>3. Len(s) + 1 \in 1 .. Len(Append(s, e))
    BY <1>1
  <1> QED
    BY <1>1, <1>2, <1>3 DEF Meets

(* What leaves it has been its head.                                       *)
LEMMA MeetsTail ==
    ASSUME NEW T, NEW s \in Seq(T), s # << >>, NEW J, Meets(s, J)
    PROVE  Head(s) \in J \/ Meets(Tail(s), J)
  <1>1. /\ Len(s) \in Nat \ {0} /\ Len(Tail(s)) = Len(s) - 1 /\ Head(s) = s[1]
        /\ \A i \in 1 .. Len(s) - 1 : Tail(s)[i] = s[i + 1]
    BY TailPlaces
  <1>2. PICK i \in 1 .. Len(s) : s[i] \in J
    BY DEF Meets
  <1>3. CASE i = 1
    BY <1>1, <1>2, <1>3
  <1>4. CASE i # 1
    <2>1. PICK k : k = i - 1
      OBVIOUS
    <2>2. k \in 1 .. Len(s) - 1 /\ k + 1 = i
      BY <1>1, <1>4, <2>1
    <2>3. k \in 1 .. Len(Tail(s)) /\ Tail(s)[k] = s[i]
      BY <1>1, <2>2
    <2> QED
      BY <1>2, <2>3 DEF Meets
  <1> QED
    BY <1>3, <1>4

(* A join behind the registrations stays there, unless one of those        *)
(* follows.                                                                *)
LEMMA BehindAppend ==
    ASSUME NEW T, NEW s \in Seq(T), NEW e \in T, NEW J, NEW R, e \notin R
    PROVE  /\ Behind(s, J, R) => Behind(Append(s, e), J, R)
           /\ e \in J => Behind(Append(s, e), J, R)
  <1>1. /\ Len(s) \in Nat /\ Len(Append(s, e)) = Len(s) + 1
        /\ \A i \in 1 .. Len(s) : Append(s, e)[i] = s[i]
        /\ Append(s, e)[Len(s) + 1] = e
    BY AppendPlaces
  <1>2. ASSUME NEW i \in 1 .. Len(Append(s, e)), Append(s, e)[i] \in R
        PROVE  i \in 1 .. Len(s) /\ s[i] \in R /\ i < Len(s) + 1
    <2>1. i # Len(s) + 1
      BY <1>1, <1>2
    <2>2. i \in 1 .. Len(s) /\ i < Len(s) + 1
      BY <1>1, <2>1
    <2> QED
      BY <1>1, <1>2, <2>2
  <1>3. ASSUME Behind(s, J, R) PROVE Behind(Append(s, e), J, R)
    <2>1. PICK j \in 1 .. Len(s) : s[j] \in J /\ \A i \in 1 .. Len(s) : s[i] \in R => i < j
      BY <1>3 DEF Behind
    <2>2. j \in 1 .. Len(Append(s, e)) /\ Append(s, e)[j] \in J
      BY <1>1, <2>1
    <2> QED
      BY <1>2, <2>1, <2>2 DEF Behind
  <1>4. ASSUME e \in J PROVE Behind(Append(s, e), J, R)
    <2>1. Len(s) + 1 \in 1 .. Len(Append(s, e))
      BY <1>1
    <2> QED
      BY <1>1, <1>2, <1>4, <2>1 DEF Behind
  <1> QED
    BY <1>3, <1>4

(* Nor is it overtaken.                                                    *)
LEMMA BehindTail ==
    ASSUME NEW T, NEW s \in Seq(T), s # << >>, NEW J, NEW R, Behind(s, J, R)
    PROVE  \/ Behind(Tail(s), J, R) /\ Meets(Tail(s), J)
           \/ Head(s) \in J /\ \A i \in 1 .. Len(s) : s[i] \notin R
  <1>1. /\ Len(s) \in Nat \ {0} /\ Len(Tail(s)) = Len(s) - 1 /\ Head(s) = s[1]
        /\ \A i \in 1 .. Len(s) - 1 : Tail(s)[i] = s[i + 1]
    BY TailPlaces
  <1>2. PICK j \in 1 .. Len(s) : s[j] \in J /\ \A i \in 1 .. Len(s) : s[i] \in R => i < j
    BY DEF Behind
  <1>3. CASE j = 1
    <2>1. \A i \in 1 .. Len(s) : ~(i < 1)
      BY <1>1
    <2> QED
      BY <1>1, <1>2, <1>3, <2>1
  <1>4. CASE j # 1
    <2>1. PICK k : k = j - 1
      OBVIOUS
    <2>2. k \in 1 .. Len(s) - 1 /\ k + 1 = j
      BY <1>1, <1>4, <2>1
    <2>3. k \in 1 .. Len(Tail(s)) /\ Tail(s)[k] \in J
      BY <1>1, <1>2, <2>2
    <2>4. ASSUME NEW i \in 1 .. Len(Tail(s)), Tail(s)[i] \in R PROVE i < k
      <3>1. i \in 1 .. Len(s) - 1 /\ i + 1 \in 1 .. Len(s)
        BY <1>1
      <3>2. i + 1 < j
        BY <1>1, <1>2, <2>4, <3>1
      <3> QED
        BY <2>2, <3>1, <3>2
    <2> QED
      BY <2>3, <2>4 DEF Behind, Meets
  <1> QED
    BY <1>3, <1>4

(* One stays one if another follows only where there is none,              *)
LEMMA SingleAppend ==
    ASSUME NEW T, NEW s \in Seq(T), NEW e \in T, NEW R, Single(s, R),
           e \notin R \/ \A i \in 1 .. Len(s) : s[i] \notin R
    PROVE  Single(Append(s, e), R)
  <1>1. /\ Len(s) \in Nat /\ Len(Append(s, e)) = Len(s) + 1
        /\ \A i \in 1 .. Len(s) : Append(s, e)[i] = s[i]
        /\ Append(s, e)[Len(s) + 1] = e
    BY AppendPlaces
  <1>2. ASSUME NEW i \in 1 .. Len(Append(s, e)), i # Len(s) + 1
        PROVE  i \in 1 .. Len(s) /\ Append(s, e)[i] = s[i]
    BY <1>1, <1>2
  <1> QED
    BY <1>1, <1>2 DEF Single

(* and is gone when it is taken.                                           *)
LEMMA SingleTail ==
    ASSUME NEW T, NEW s \in Seq(T), s # << >>, NEW R, Single(s, R)
    PROVE  /\ Single(Tail(s), R)
           /\ Head(s) \in R => \A i \in 1 .. Len(Tail(s)) : Tail(s)[i] \notin R
  <1>1. /\ Len(s) \in Nat \ {0} /\ Len(Tail(s)) = Len(s) - 1 /\ Head(s) = s[1]
        /\ \A i \in 1 .. Len(s) - 1 : Tail(s)[i] = s[i + 1]
    BY TailPlaces
  <1>2. ASSUME NEW i \in 1 .. Len(Tail(s))
        PROVE  i + 1 \in 1 .. Len(s) /\ Tail(s)[i] = s[i + 1] /\ i + 1 # 1 /\ i \in Int
    BY <1>1
  <1>3. Single(Tail(s), R)
    <2>1. ASSUME NEW i \in 1 .. Len(Tail(s)), NEW j \in 1 .. Len(Tail(s)),
                 Tail(s)[i] \in R, Tail(s)[j] \in R
          PROVE  i = j
      <3>1. i + 1 = j + 1
        BY <1>2, <2>1 DEF Single
      <3> QED
        BY <1>2, <3>1
    <2> QED
      BY <2>1 DEF Single
  <1>4. 1 \in 1 .. Len(s)
    BY <1>1
  <1> QED
    BY <1>1, <1>2, <1>3, <1>4 DEF Single

(* A queue without what is not in a set is a queue of the set.             *)
LEMMA SeqWithin ==
    ASSUME NEW T, NEW s \in Seq(T), NEW U, \A i \in 1 .. Len(s) : s[i] \in U
    PROVE  s \in Seq(U)
  <1>1. Len(s) \in Nat
    BY LenProperties
  <1>2. s \in [1 .. Len(s) -> T]
    BY LenProperties
  <1>3. s \in [1 .. Len(s) -> U]
    BY <1>2
  <1> QED
    BY <1>1, <1>3, SeqDef

------------------------------------------------------------------------------
(* What the steps keep.                                                    *)

(* One step of the browser's world.                                        *)
Turned ==
    \/ Speaking \/ ws' # "open" \/ LoggingIn \/ Opened
    \/ Serving \/ Elsewhere \/ Delivering

(* A WebSocket that nobody has logged in on stays untouched.               *)
LEMMA FreshStep ==
    ASSUME Sound, Sound', Fresh, Turned
    PROVE  Fresh'
  <1> SUFFICES ASSUME ws' = "open", hook'.profile = Nobody
               PROVE  /\ up' = << >> /\ toServer'[sock'] = << >>
                      /\ down' \in Seq(Scraps)
                      /\ sock' \notin DOMAIN usersById' /\ session'[sock'].username = NoHandle
    BY DEF Fresh
  <1>0. Nobody \notin Handle /\ down \in Seq(Told) /\ << >> \in Seq(Scraps)
    BY ClientAssumption, EmptySeq DEF Sound, Kinds, Wire
  <1>1. CASE Speaking
    BY <1>1 DEF Speaking, Fresh, gateway, bridge, registry
  <1>2. CASE LoggingIn
    BY <1>0, <1>2 DEF LoggingIn
  <1>3. CASE Opened
    <2>1. Greeting = << >>
      BY <1>3, GreetingType DEF Opened, Sound, Kinds
    <2> QED
      BY <1>0, <1>3, <2>1 DEF Opened, registry
  <1>4. CASE Serving
    BY <1>4 DEF Serving, Fresh
  <1>5. CASE ws = "open" /\ Aside
    <2>1. /\ up = << >> /\ toServer[sock] = << >>
          /\ down \in Seq(Scraps)
          /\ sock \notin DOMAIN usersById /\ session[sock].username = NoHandle
      BY <1>5 DEF Aside, Alone, Fresh
    <2>2. ASSUME NEW events, down' = down \o events, Overheard(events)
          PROVE  down' \in Seq(Scraps)
      <3>1. Words \subseteq Scraps
        BY <2>1 DEF Words, Scraps
      <3>2. events \in Seq(Scraps)
        BY <2>1, <2>2, <3>1, SeqMonotonic DEF Overheard
      <3> QED
        BY <2>1, <2>2, <3>2, ConcatProperties
    <2>3. down' \in Seq(Scraps)
      BY <1>5, <2>1, <2>2 DEF Aside
    <2> QED
      BY <1>5, <2>1, <2>3 DEF Aside, Alone, Same, SameUser, SameName
  <1>6. CASE ws = "open" /\ Attending
    BY <1>6 DEF Attending, Alone, Fresh
  <1>7. CASE ws = "open" /\ Cut
    BY <1>7 DEF Cut, Alone, Fresh, SameName
  <1>8. CASE Delivering
    <2>1. /\ up = << >> /\ toServer[sock] = << >>
          /\ down \in Seq(Scraps)
          /\ sock \notin DOMAIN usersById /\ session[sock].username = NoHandle
      BY <1>8 DEF Delivering, Fresh
    <2>2. down' \in Seq(Scraps)
      BY <1>8, <2>1, HeadTailProperties DEF Delivering
    <2> QED
      BY <1>8, <2>1, <2>2 DEF Delivering
  <1>9. CASE Elsewhere /\ ws # "open"
    BY <1>9 DEF Elsewhere, Alone
  <1> QED
    BY <1>1, <1>2, <1>3, <1>4, <1>5, <1>6, <1>7, <1>8, <1>9 DEF Turned, Elsewhere

(* The events that h may see.                                              *)
LEMMA SafeKinds ==
    ASSUME NEW h \in Handle
    PROVE  /\ Listing(h) \subseteq Safe(h) /\ ForAll \subseteq Safe(h)
           /\ \A e \in Told : e.ev \notin {"whisper", "history"} => e \in Safe(h)
           /\ \A e \in Told : e.ev = "whisper" /\ e.arg.target = h => e \in Safe(h)
           /\ \A why : Error(why) \in Told => Error(why) \in Safe(h)
           /\ (sock \in DOMAIN usersById => usersById[sock].username = h)
                 => Seq(Words) \subseteq Seq(Safe(h))
  <1>1. Listing(h) \subseteq Safe(h)
    <2>1. {m \in Message : OwnMail(h, m)} \subseteq Own(h)
      BY OwnLines
    <2>2. Seq({m \in Message : OwnMail(h, m)}) \subseteq Seq(Own(h))
      BY <2>1, SeqMonotonic
    <2>3. Listing(h) \subseteq Told
      BY ListingKinds
    <2> QED
      BY <2>2, <2>3 DEF Safe, Listing
  <1>2. ForAll \subseteq Listing(h)
    BY ListingKinds
  <1>3. \A why : Error(why).ev = "error"
    BY DEF Error, Event
  <1>4. \A e \in Told : e.ev = "whisper" /\ e.arg.target = h => e \in Safe(h)
    BY DEF Safe, OwnMail
  <1>5. \A e \in Told : e.ev \notin {"whisper", "history"} => e \in Safe(h)
    BY DEF Safe
  <1>6. ASSUME sock \in DOMAIN usersById => usersById[sock].username = h
        PROVE  Seq(Words) \subseteq Seq(Safe(h))
    <2>1. Words \subseteq Safe(h)
      BY <1>4, <1>5, <1>6 DEF Words
    <2> QED
      BY <2>1, SeqMonotonic
  <1> QED
    BY <1>1, <1>2, <1>3, <1>4, <1>5, <1>6

(* An answer to a frame that gives no name but h is one of them.           *)
LEMMA AnsweredSafe ==
    ASSUME NEW h \in Handle, NEW f \in SentAs(h), NEW events, Answered(f, events),
           sock \in DOMAIN usersById => usersById[sock].username = h
    PROVE  /\ events \in Seq(Safe(h))
           /\ sock \in DOMAIN usersById' => usersById'[sock].username = h
  <1>1. /\ Event("welcome", NoRoom) \in Told
        /\ \A r \in RoomName : Event("returned", r) \in Told
        /\ \A r \in ValidRoomName : Event("joined", r) \in Told
        /\ General \in RoomName
    BY GatewayAssumption DEF Event, Told
  <1>2. \A ev, arg : Event(ev, arg).ev = ev
    BY DEF Event
  <1>3. /\ Event("welcome", NoRoom) \in Safe(h)
        /\ \A r \in RoomName : Event("returned", r) \in Safe(h)
        /\ \A r \in ValidRoomName : Event("joined", r) \in Safe(h)
    BY <1>1, <1>2, SafeKinds
  <1>4. ASSUME NEW e \in Safe(h) PROVE <<e>> \in Seq(Safe(h))
    <2>1. PICK T : T = Safe(h)
      OBVIOUS
    <2>2. <<e>> \in Seq(T)
      BY <1>4, <2>1
    <2> QED
      BY <2>1, <2>2
  <1>5. Seq(Words) \subseteq Seq(Safe(h))
    BY SafeKinds
  <1>6. CASE Unmoved(events)
    <2>1. << >> \in Seq(Safe(h))
      BY EmptySeq
    <2>2. ASSUME NEW e \in Told, events = <<e>>, e.ev = "error" PROVE events \in Seq(Safe(h))
      BY <1>4, <2>2, SafeKinds
    <2> QED
      BY <1>6, <2>1, <2>2 DEF Unmoved, SameUser
  <1>7. CASE /\ f.type = "USER_REGISTER" /\ events = <<Event("welcome", NoRoom)>>
             /\ usersById'[sock] = [username |-> f.arg, currentRoom |-> General]
    <2>1. f.arg = h
      BY <1>7 DEF SentAs
    <2> QED
      BY <1>3, <1>4, <1>7, <2>1
  <1>8. CASE f.arg \in ValidRoomName /\ Admitted(f.arg, events)
    <2>1. PICK n \in Seq(Words) : events = n \o <<Event("joined", f.arg)>>
      BY <1>8 DEF Admitted
    <2>2. n \in Seq(Safe(h)) /\ <<Event("joined", f.arg)>> \in Seq(Safe(h))
      BY <1>3, <1>4, <1>5, <1>8
    <2>3. events \in Seq(Safe(h))
      BY <2>1, <2>2, ConcatProperties
    <2> QED
      BY <1>8, <2>3 DEF Admitted
  <1>9. CASE Dismissed(events)
    <2>1. PICK r \in RoomName : events = <<Event("returned", General)>> \o <<Event("returned", r)>>
      BY <1>9 DEF Dismissed
    <2>2. /\ <<Event("returned", General)>> \in Seq(Safe(h))
          /\ <<Event("returned", r)>> \in Seq(Safe(h))
      BY <1>1, <1>3, <1>4
    <2>3. events \in Seq(Safe(h))
      BY <2>1, <2>2, ConcatProperties
    <2> QED
      BY <1>9, <2>3 DEF Dismissed
  <1>10. CASE SameUser(sock) /\ events \in Seq(Words)
    BY <1>5, <1>10 DEF SameUser
  <1> QED
    BY <1>6, <1>7, <1>8, <1>9, <1>10 DEF Answered

(* Nobody else's name or mail gets under way.                              *)
LEMMA ApartStep ==
    ASSUME Whole, Sound, Sound', Fresh, Apart, Turned
    PROVE  Apart'
  <1> DEFINE h == hook'.profile
             As(q, d, u) == d \in Seq(Safe(h)) /\ u \in Seq(AsksAs(h)) /\ q \in Seq(SentAs(h))
  <1> SUFFICES ASSUME ws' = "open", h \in Handle \ mixed'
               PROVE  /\ As(toServer'[sock'], down', up')
                      /\ sock' \in DOMAIN usersById' => usersById'[sock'].username = h
    BY DEF Apart
  <1>0. /\ Nobody \notin Handle /\ down \in Seq(Told) /\ sock \in Client
        /\ << >> \in Seq(Safe(h)) /\ << >> \in Seq(AsksAs(h)) /\ << >> \in Seq(SentAs(h))
        /\ toServer[sock] \in Seq(Sent) /\ up \in Seq(Asking)
    BY ClientAssumption, EmptySeq DEF Sound, Kinds, Wire, Whole, Linked
  <1>1. ASSUME ws = "open", hook.profile = h, UNCHANGED mixed
        PROVE  /\ As(toServer[sock], down, up)
               /\ sock \in DOMAIN usersById => usersById[sock].username = h
    BY <1>1 DEF Apart
  <1> HIDE DEF h
  <1>2. CASE Speaking
    <2>1. ws = "open" /\ hook.profile = h /\ UNCHANGED <<mixed, sock, down, toServer, usersById>>
      BY <1>2 DEF Speaking, gateway, bridge, registry, h
    <2>2. ASSUME NEW q \in Asking, q.do # "register", up' = Append(up, q)
          PROVE  up' \in Seq(AsksAs(h))
      <3>1. q \in AsksAs(h)
        BY <2>2 DEF AsksAs
      <3> QED
        BY <1>1, <2>1, <2>2, <3>1, AppendProperties
    <2>3. up' \in Seq(AsksAs(h))
      BY <1>1, <1>2, <2>1, <2>2 DEF Speaking
    <2> QED
      BY <1>1, <2>1, <2>3
  <1>3. CASE LoggingIn
    <2>1. /\ ws = "open" /\ UNCHANGED <<sock, down, toServer, usersById>>
          /\ mixed' = IF hook.profile \notin {Nobody, h} THEN mixed \cup {h} ELSE mixed
      BY <1>3 DEF LoggingIn, gateway, bridge, registry, h
    <2>2. PICK a \in Address \cup {NoEmail} : up' = Append(up, RegisterRequest(h, a))
      BY <1>3, <2>1 DEF LoggingIn, h
    <2>3. hook.profile \in {Nobody, h} /\ UNCHANGED mixed
      BY <2>1
    <2> DEFINE q == RegisterRequest(h, a)
    <2>4. q \in AsksAs(h)
      BY AskingKinds DEF AsksAs, RegisterRequest, Request
    <2> HIDE DEF q
    <2>5. /\ As(toServer[sock], down, up)
          /\ sock \in DOMAIN usersById => usersById[sock].username = h
      <3>1. CASE hook.profile = h
        BY <1>1, <2>1, <2>3, <3>1
      <3>2. CASE hook.profile = Nobody
        <4>1. /\ up = << >> /\ toServer[sock] = << >> /\ sock \notin DOMAIN usersById
              /\ down \in Seq(Scraps)
          BY <2>1, <3>2 DEF Fresh
        <4>2. Scraps \subseteq Safe(h)
          BY DEF Safe, Scraps
        <4>3. down \in Seq(Safe(h))
          BY <4>1, <4>2, SeqMonotonic
        <4> QED
          BY <1>0, <4>1, <4>3
      <3> QED
        BY <2>3, <3>1, <3>2
    <2>6. up' \in Seq(AsksAs(h))
      BY <2>2, <2>4, <2>5, AppendProperties DEF q
    <2> QED
      BY <2>1, <2>5, <2>6
  <1>4. CASE Opened
    <2>1. /\ Page /\ hook.profile = h /\ hook.profile # Nobody
          /\ up' = Greeting /\ down' = << >> /\ toServer'[sock'] = << >>
          /\ sock' \notin DOMAIN usersById'
      BY <1>0, <1>4 DEF Opened, Sound, Kinds, registry, h
    <2>2. /\ Greeting \in Seq(Asking) /\ Greeting[1] = RegisterRequest(h, hook.email)
          /\ Len(Greeting) \in 1 .. 2
          /\ Len(Greeting) = 2 => Greeting[2] = JoinRequest(hook.room, NoPassword)
      BY <2>1, GreetingType
    <2>3. \A i \in 1 .. Len(Greeting) : Greeting[i] \in Asking
      BY <2>2, ElementOfSeq
    <2>4. ASSUME NEW i \in 1 .. Len(Greeting) PROVE Greeting[i] \in AsksAs(h)
      <3>1. i = 1 \/ (i = 2 /\ Len(Greeting) = 2)
        <4>1. PICK n : n = Len(Greeting)
          OBVIOUS
        <4>2. n \in 1 .. 2 /\ i \in 1 .. n
          BY <2>2, <4>1
        <4>3. i = 1 \/ (i = 2 /\ n = 2)
          BY <4>2
        <4> QED
          BY <4>1, <4>3
      <3> QED
        BY <2>2, <2>3, <3>1 DEF AsksAs, RegisterRequest, JoinRequest, Request
    <2>5. Greeting \in Seq(AsksAs(h))
      BY <2>2, <2>4, SeqWithin
    <2> QED
      BY <1>0, <2>1, <2>5
  <1>5. CASE Serving
    <2>1. /\ ws = "open" /\ hook.profile = h /\ up # << >> /\ up' = Tail(up)
          /\ UNCHANGED <<mixed, sock, usersById>>
      BY <1>5 DEF Serving, registry, h
    <2>2. /\ As(toServer[sock], down, up)
          /\ sock \in DOMAIN usersById => usersById[sock].username = h
      BY <1>1, <2>1
    <2>3. PICK q : q = Head(up)
      OBVIOUS
    <2>4. q \in AsksAs(h) /\ up' \in Seq(AsksAs(h))
      BY <2>1, <2>2, <2>3, HeadTailProperties
    <2>5. PICK events \in Seq(Told) : down' = down \o events /\ Service(q, events)
      BY <1>5, <2>1, <2>3 DEF Serving
    <2>6. ASSUME NEW why \in SUBSET {"name", "room"} PROVE <<Error(why)>> \in Seq(Safe(h))
      <3>1. Error(why) \in Safe(h)
        BY <2>6, SafeKinds, ListingKinds
      <3> QED
        BY <3>1
    <2>7. Seq(ForAll) \subseteq Seq(Safe(h)) /\ Seq(Listing(h)) \subseteq Seq(Safe(h))
      BY SafeKinds, SeqMonotonic
    <2>8. ASSUME NEW f \in Sent, Sends(f), f \in SentAs(h) PROVE toServer'[sock] \in Seq(SentAs(h))
      <3>1. toServer[sock] \in Seq(SentAs(h))
        BY <2>2
      <3>2. Append(toServer[sock], f) \in Seq(SentAs(h))
        BY <2>8, <3>1, AppendProperties
      <3> QED
        BY <2>8, <3>1, <3>2 DEF Sends
    <2>9. events \in Seq(Safe(h)) /\ toServer'[sock] \in Seq(SentAs(h))
      <3>1. CASE q.do = "register"
        <4>1. q.arg.user = h
          BY <2>4, <3>1 DEF AsksAs
        <4>2. Frame("USER_REGISTER", h) \in Sent /\ Frame("USER_REGISTER", h) \in SentAs(h)
          BY SentFrames DEF SentAs, Frame
        <4>3. CASE events \in Seq(Listing(h)) /\ Sends(Frame("USER_REGISTER", h))
          BY <2>7, <2>8, <4>2, <4>3
        <4>4. CASE events = <<Error({"name"})>> /\ toServer'[sock] = toServer[sock]
          BY <2>2, <2>6, <4>4
        <4> QED
          BY <2>5, <3>1, <4>1, <4>3, <4>4 DEF Service
      <3>2. CASE q.do = "join_room"
        <4> DEFINE f == Frame("JOIN_ROOM", q.arg.room)
        <4>1. q.arg.room \in RoomName
          BY <2>4, <3>2, AskingMay DEF AsksAs, MayAsk
        <4>2. f \in Sent /\ f \in SentAs(h)
          BY <4>1, SentFrames DEF SentAs, Frame
        <4>3. CASE events \in Seq(ForAll) /\ Sends(f)
          BY <2>7, <2>8, <4>2, <4>3
        <4>4. CASE events = <<Error({"room"})>> /\ toServer'[sock] = toServer[sock]
          BY <2>2, <2>6, <4>4
        <4> QED
          BY <2>5, <3>2, <4>3, <4>4 DEF Service
      <3>3. CASE q.do \notin {"register", "join_room"}
        <4>1. events \in Seq(ForAll)
          BY <2>5, <3>3 DEF Service
        <4>2. CASE toServer'[sock] = toServer[sock]
          BY <2>2, <2>7, <4>1, <4>2
        <4>3. ASSUME NEW f \in Sent, f.type \notin {"USER_REGISTER", "JOIN_ROOM"}, Sends(f)
              PROVE  toServer'[sock] \in Seq(SentAs(h))
          BY <2>8, <4>3 DEF SentAs
        <4> QED
          BY <2>5, <2>7, <3>3, <4>1, <4>2, <4>3 DEF Service
      <3> QED
        BY <3>1, <3>2, <3>3
    <2>10. down' \in Seq(Safe(h))
      BY <2>2, <2>5, <2>9, ConcatProperties
    <2> QED
      BY <2>1, <2>2, <2>4, <2>9, <2>10
  <1>6. CASE ws = "open" /\ Aside
    <2>1. hook.profile = h /\ UNCHANGED <<mixed, up, sock>> /\ toServer'[sock] = toServer[sock] /\ SameUser(sock)
      BY <1>6 DEF Aside, Alone, Same, h
    <2>2. /\ As(toServer[sock], down, up)
          /\ sock \in DOMAIN usersById => usersById[sock].username = h
      BY <1>1, <1>6, <2>1
    <2>3. ASSUME NEW events, down' = down \o events, Overheard(events)
          PROVE  down' \in Seq(Safe(h))
      <3>1. Seq(Words) \subseteq Seq(Safe(h))
        BY <2>2, SafeKinds
      <3>2. Event("returned", General) \in Safe(h)
        <4>1. Event("returned", General) \in Told /\ Event("returned", General).ev = "returned"
          BY GatewayAssumption DEF Event, Told
        <4> QED
          BY <4>1, SafeKinds
      <3>3. ASSUME NEW S, NEW n \in Seq(S), NEW e \in S PROVE n \o <<e>> \in Seq(S)
        BY <3>3, OneMore
      <3>4. events \in Seq(Safe(h))
        BY <2>3, <3>1, <3>2, <3>3 DEF Overheard
      <3> QED
        BY <2>2, <2>3, <3>4, ConcatProperties
    <2>4. down' \in Seq(Safe(h))
      BY <1>6, <2>2, <2>3 DEF Aside
    <2> QED
      BY <2>1, <2>2, <2>4 DEF SameUser
  <1>7. CASE ws = "open" /\ Attending
    <2>1. hook.profile = h /\ UNCHANGED <<mixed, up, sock>>
      BY <1>7 DEF Attending, Alone, h
    <2>2. /\ As(toServer[sock], down, up)
          /\ sock \in DOMAIN usersById => usersById[sock].username = h
      BY <1>1, <1>7, <2>1
    <2>3. PICK f : f = Head(toServer[sock])
      OBVIOUS
    <2>4. PICK events : events = Answer(sock, f)
      OBVIOUS
    <2>5. /\ toServer[sock] # << >> /\ toServer'[sock] = Tail(toServer[sock])
          /\ down' = down \o events /\ Answered(f, events)
      BY <1>7, <2>3, <2>4 DEF Attending
    <2>6. f \in SentAs(h) /\ toServer'[sock] \in Seq(SentAs(h))
      BY <2>2, <2>3, <2>5, HeadTailProperties
    <2>7. /\ events \in Seq(Safe(h))
          /\ sock \in DOMAIN usersById' => usersById'[sock].username = h
      BY <2>2, <2>5, <2>6, AnsweredSafe
    <2>8. down' \in Seq(Safe(h))
      BY <2>2, <2>5, <2>7, ConcatProperties
    <2> QED
      BY <2>1, <2>2, <2>6, <2>7, <2>8
  <1>8. CASE ws = "open" /\ Cut
    <2>1. hook.profile = h /\ UNCHANGED <<mixed, up, sock, down>>
      BY <1>8 DEF Cut, Alone, h
    <2> QED
      BY <1>0, <1>1, <1>8, <2>1 DEF Cut
  <1>9. CASE Delivering
    <2>1. /\ ws = "open" /\ hook.profile = h /\ UNCHANGED <<mixed, up, sock, toServer, usersById>>
          /\ down # << >> /\ down' = Tail(down)
      BY <1>9 DEF Delivering, h
    <2>2. /\ As(toServer[sock], down, up)
          /\ sock \in DOMAIN usersById => usersById[sock].username = h
      BY <1>1, <2>1
    <2>3. down' \in Seq(Safe(h))
      BY <2>1, <2>2, HeadTailProperties
    <2> QED
      BY <2>1, <2>2, <2>3
  <1>10. CASE Elsewhere /\ ws # "open"
    BY <1>10 DEF Elsewhere, Alone
  <1> QED
    BY <1>2, <1>3, <1>4, <1>5, <1>6, <1>7, <1>8, <1>9, <1>10 DEF Turned, Elsewhere

------------------------------------------------------------------------------
(* Where the events under way lead the page.                               *)

(* Read from room r0 on, they lead to r, and nothing parts the two rooms.  *)
Reads(d, r0, r) ==
    \E g : /\ g[0] = r0 /\ g[Len(d)] = r
           /\ \A i \in 1 .. Len(d) :
                 g[i] = After(g[i - 1], d[i]) /\ ~Parts(g[i - 1], d[i])

(* Wherever they lead, that is t.                                          *)
Arrives(d, r0, t) == \A r : Reads(d, r0, r) => r = t

(* Events that turn the page, and those that leave the two rooms alone.    *)
Turns == {e \in Told : e.ev \in {"joined", "returned"}}

Stays(e) == e.ev \notin {"joined", "returned"} /\ ~(e.ev = "error" /\ "room" \in e.arg)

(* Nothing under way: the page stays.                                      *)
LEMMA ArrivesEmpty ==
    ASSUME NEW r, NEW t
    PROVE  Arrives(<< >>, r, t) <=> r = t
  <1>1. Len(<< >>) = 0 /\ \A i : i \notin 1 .. 0
    BY EmptySeq
  <1>2. Reads(<< >>, r, r)
    <2> DEFINE g == [i \in {0} |-> r]
    <2>1. g[0] = r /\ g[Len(<< >>)] = r
      BY <1>1
    <2> HIDE DEF g
    <2> QED
      BY <1>1, <2>1 DEF Reads
  <1>3. \A s : Reads(<< >>, r, s) => s = r
    BY <1>1 DEF Reads
  <1> QED
    BY <1>2, <1>3 DEF Arrives

(* One queue after the other.                                              *)
LEMMA ReadsConcat ==
    ASSUME NEW d \in Seq(Told), NEW n \in Seq(Told), NEW r0, NEW r, Reads(d \o n, r0, r)
    PROVE  \E s : Reads(d, r0, s) /\ Reads(n, s, r)
  <1>1. /\ Len(d) \in Nat /\ Len(n) \in Nat /\ Len(d \o n) = Len(d) + Len(n)
        /\ \A i \in 1 .. Len(d) + Len(n) : (d \o n)[i] = IF i <= Len(d) THEN d[i] ELSE n[i - Len(d)]
    BY ConcatProperties, LenProperties
  <1>2. PICK g : /\ g[0] = r0 /\ g[Len(d) + Len(n)] = r
                 /\ \A i \in 1 .. Len(d) + Len(n) :
                       g[i] = After(g[i - 1], (d \o n)[i]) /\ ~Parts(g[i - 1], (d \o n)[i])
    BY <1>1 DEF Reads
  <1>3. PICK m : m = Len(d)
    OBVIOUS
  <1>4. Reads(d, r0, g[m])
    <2>1. \A i \in 1 .. Len(d) : i \in 1 .. Len(d) + Len(n) /\ i <= Len(d)
      BY <1>1
    <2> QED
      BY <1>1, <1>2, <1>3, <2>1 DEF Reads
  <1>5. Reads(n, g[m], r)
    <2> DEFINE k == [i \in 0 .. Len(n) |-> g[m + i]]
    <2>1. k[0] = g[m] /\ k[Len(n)] = r
      BY <1>1, <1>2, <1>3
    <2>2. ASSUME NEW i \in 1 .. Len(n)
          PROVE  k[i] = After(k[i - 1], n[i]) /\ ~Parts(k[i - 1], n[i])
      <3>1. PICK j : j = m + i
        OBVIOUS
      <3>2. /\ j \in 1 .. Len(d) + Len(n) /\ ~(j <= Len(d)) /\ j - Len(d) = i
            /\ i - 1 \in 0 .. Len(n) /\ i \in 0 .. Len(n) /\ m + (i - 1) = j - 1
        BY <1>1, <1>3, <3>1
      <3>3. (d \o n)[j] = n[i] /\ k[i] = g[j] /\ k[i - 1] = g[j - 1]
        BY <1>1, <3>1, <3>2
      <3> QED
        BY <1>2, <3>2, <3>3
    <2> HIDE DEF k
    <2> QED
      BY <2>1, <2>2 DEF Reads
  <1> QED
    BY <1>4, <1>5

(* Without events that turn the page it stays, or the rooms are parted.    *)
LEMMA ReadsStaying ==
    ASSUME NEW n \in Seq(Told), NEW s, NEW r, Reads(n, s, r), ~Meets(n, Turns)
    PROVE  r = s
  <1>0. Len(n) \in Nat /\ \A i \in 1 .. Len(n) : n[i] \in Told /\ n[i] \notin Turns
    BY LenProperties, ElementOfSeq DEF Meets
  <1>1. PICK g : /\ g[0] = s /\ g[Len(n)] = r
                 /\ \A i \in 1 .. Len(n) :
                       g[i] = After(g[i - 1], n[i]) /\ ~Parts(g[i - 1], n[i])
    BY DEF Reads
  <1> DEFINE U == {k \in Nat : k <= Len(n) => g[k] = s}
  <1>2. 0 \in U
    BY <1>1
  <1>3. ASSUME NEW k \in Nat, k \in U PROVE k + 1 \in U
    <2> SUFFICES ASSUME k + 1 <= Len(n) PROVE g[k + 1] = s
      OBVIOUS
    <2>1. k + 1 \in 1 .. Len(n) /\ k <= Len(n) /\ (k + 1) - 1 = k
      BY <1>0
    <2>2. g[k] = s
      BY <1>3, <2>1
    <2>3. g[k + 1] = After(s, n[k + 1]) /\ ~Parts(s, n[k + 1])
      BY <1>1, <2>1, <2>2
    <2> QED
      BY <1>0, <2>1, <2>3 DEF After, Parts, Turns
  <1>4. Nat \subseteq U
    <2> HIDE DEF U
    <2> QED
      BY <1>2, <1>3, Ascent
  <1> QED
    BY <1>0, <1>1, <1>4

(* Words do not turn it.                                                   *)
LEMMA WordsStay ==
    ASSUME NEW n \in Seq(Words)
    PROVE  n \in Seq(Told) /\ ~Meets(n, Turns)
  <1>1. Seq(Words) \subseteq Seq(Told)
    BY NoticeWords, SeqMonotonic
  <1>2. \A i \in 1 .. Len(n) : n[i] \in Words
    BY ElementOfSeq
  <1> QED
    BY <1>1, <1>2 DEF Meets, Words, Turns

(* Nor do such events matter behind others.                                *)
LEMMA ArrivesStill ==
    ASSUME NEW d \in Seq(Told), NEW n \in Seq(Told), NEW r0, NEW t, Arrives(d, r0, t),
           ~Meets(n, Turns)
    PROVE  Arrives(d \o n, r0, t)
  <1> SUFFICES ASSUME NEW r, Reads(d \o n, r0, r) PROVE r = t
    BY DEF Arrives
  <1>1. PICK s : Reads(d, r0, s) /\ Reads(n, s, r)
    BY ReadsConcat
  <1>2. r = s
    BY <1>1, ReadsStaying
  <1> QED
    BY <1>1, <1>2 DEF Arrives

(* They leave a page at General there.                                     *)
LEMMA ArrivesUnturned ==
    ASSUME NEW d \in Seq(Told), ~Meets(d, Turns)
    PROVE  Arrives(d, General, General)
  BY ReadsStaying DEF Arrives

(* The last event decides.                                                 *)
LEMMA ArrivesAt ==
    ASSUME NEW d \in Seq(Told), NEW e \in Told, NEW r0, ~Stays(e)
    PROVE  Arrives(d \o <<e>>, r0, IF e.ev = "joined" THEN e.arg ELSE General)
  <1> DEFINE t == IF e.ev = "joined" THEN e.arg ELSE General
  <1> SUFFICES ASSUME NEW r, Reads(d \o <<e>>, r0, r) PROVE r = t
    BY DEF Arrives
  <1>1. PICK n : n = <<e>>
    OBVIOUS
  <1>2. n \in Seq(Told) /\ Len(n) = 1 /\ n[1] = e
    BY <1>1, OneTold
  <1>3. PICK s : Reads(d, r0, s) /\ Reads(n, s, r)
    BY <1>1, <1>2, ReadsConcat
  <1>4. PICK g : g[0] = s /\ g[1] = r /\ g[1] = After(g[0], e) /\ ~Parts(g[0], e)
    <2>1. 1 \in 1 .. 1 /\ 1 - 1 = 0
      OBVIOUS
    <2> QED
      BY <1>2, <1>3, <2>1 DEF Reads
  <1>5. r = After(s, e) /\ ~Parts(s, e)
    BY <1>4
  <1>6. e.ev = "joined" => e.arg # NoRoom
    BY GatewayAssumption DEF Told
  <1> QED
    BY <1>5, <1>6 DEF After, Parts, Stays

(* An event is read.                                                       *)
LEMMA ArrivesTail ==
    ASSUME NEW d \in Seq(Told), d # << >>, NEW r0, NEW t, Arrives(d, r0, t), ~Parts(r0, Head(d))
    PROVE  Arrives(Tail(d), After(r0, Head(d)), t)
  <1>1. /\ Len(d) \in Nat \ {0} /\ Len(Tail(d)) = Len(d) - 1 /\ Head(d) = d[1]
        /\ \A i \in 1 .. Len(d) - 1 : Tail(d)[i] = d[i + 1]
    BY TailPlaces
  <1> SUFFICES ASSUME NEW r, Reads(Tail(d), After(r0, d[1]), r) PROVE Reads(d, r0, r)
    BY <1>1 DEF Arrives
  <1>2. PICK g : /\ g[0] = After(r0, d[1]) /\ g[Len(d) - 1] = r
                 /\ \A i \in 1 .. Len(d) - 1 :
                       g[i] = After(g[i - 1], Tail(d)[i]) /\ ~Parts(g[i - 1], Tail(d)[i])
    BY <1>1 DEF Reads
  <1> DEFINE k == [i \in 0 .. Len(d) |-> IF i = 0 THEN r0 ELSE g[i - 1]]
  <1>3. k[0] = r0 /\ k[Len(d)] = r
    BY <1>1, <1>2
  <1>4. ASSUME NEW i \in 1 .. Len(d)
        PROVE  k[i] = After(k[i - 1], d[i]) /\ ~Parts(k[i - 1], d[i])
    <2>1. k[i] = g[i - 1] /\ i - 1 \in 0 .. Len(d)
      BY <1>1
    <2>2. CASE i = 1
      BY <1>1, <1>2, <1>3, <2>1, <2>2
    <2>3. CASE i # 1
      <3>1. PICK j : j = i - 1
        OBVIOUS
      <3>2. j \in 1 .. Len(d) - 1 /\ j + 1 = i /\ j # 0 /\ j \in 0 .. Len(d)
        BY <1>1, <2>3, <3>1
      <3>3. k[j] = g[j - 1] /\ Tail(d)[j] = d[i]
        BY <1>1, <3>2
      <3> HIDE DEF k
      <3> QED
        BY <1>2, <2>1, <3>1, <3>2, <3>3
    <2> QED
      BY <2>2, <2>3
  <1> HIDE DEF k
  <1> QED
    BY <1>3, <1>4 DEF Reads

(* What is in two queues.                                                  *)
LEMMA MeetsConcat ==
    ASSUME NEW T, NEW s \in Seq(T), NEW n \in Seq(T), NEW J, Meets(s \o n, J)
    PROVE  Meets(s, J) \/ Meets(n, J)
  <1>1. /\ Len(s) \in Nat /\ Len(n) \in Nat /\ Len(s \o n) = Len(s) + Len(n)
        /\ \A i \in 1 .. Len(s) + Len(n) : (s \o n)[i] = IF i <= Len(s) THEN s[i] ELSE n[i - Len(s)]
    BY ConcatProperties, LenProperties
  <1>2. PICK i \in 1 .. Len(s) + Len(n) : (s \o n)[i] \in J
    BY <1>1 DEF Meets
  <1>3. CASE i <= Len(s)
    <2>1. i \in 1 .. Len(s) /\ s[i] \in J
      BY <1>1, <1>2, <1>3
    <2> QED
      BY <2>1 DEF Meets
  <1>4. CASE ~(i <= Len(s))
    <2>1. PICK k : k = i - Len(s)
      OBVIOUS
    <2>2. k \in 1 .. Len(n) /\ n[k] \in J
      BY <1>1, <1>2, <1>4, <2>1
    <2> QED
      BY <2>2 DEF Meets
  <1> QED
    BY <1>3, <1>4

(* What is not in a queue.                                                 *)
LEMMA MeetsLess ==
    ASSUME NEW T, NEW s \in Seq(T), NEW J
    PROVE  /\ ~Meets(<< >>, J)
           /\ \A e \in T : e \notin J /\ ~Meets(s, J) => ~Meets(Append(s, e), J)
           /\ s # << >> /\ ~Meets(s, J) => ~Meets(Tail(s), J) /\ Head(s) \notin J
  <1>1. ~Meets(<< >>, J)
    <2>1. Len(<< >>) = 0 /\ \A i : i \notin 1 .. 0
      BY EmptySeq
    <2> QED
      BY <2>1 DEF Meets
  <1>2. ASSUME NEW e \in T, e \notin J, ~Meets(s, J), Meets(Append(s, e), J) PROVE FALSE
    <2>1. /\ Len(s) \in Nat /\ Len(Append(s, e)) = Len(s) + 1
          /\ \A i \in 1 .. Len(s) : Append(s, e)[i] = s[i]
          /\ Append(s, e)[Len(s) + 1] = e
      BY AppendPlaces
    <2>2. PICK i \in 1 .. Len(s) + 1 : Append(s, e)[i] \in J
      BY <1>2, <2>1 DEF Meets
    <2>3. i \in 1 .. Len(s)
      BY <1>2, <2>1, <2>2
    <2> QED
      BY <1>2, <2>1, <2>2, <2>3 DEF Meets
  <1>3. ASSUME s # << >>, ~Meets(s, J) PROVE ~Meets(Tail(s), J) /\ Head(s) \notin J
    <2>1. /\ Len(s) \in Nat \ {0} /\ Len(Tail(s)) = Len(s) - 1 /\ Head(s) = s[1]
          /\ \A i \in 1 .. Len(s) - 1 : Tail(s)[i] = s[i + 1]
      BY <1>3, TailPlaces
    <2>2. 1 \in 1 .. Len(s)
      BY <2>1
    <2>3. \A i \in 1 .. Len(Tail(s)) : i + 1 \in 1 .. Len(s) /\ Tail(s)[i] = s[i + 1]
      BY <2>1
    <2> QED
      BY <1>3, <2>1, <2>2, <2>3 DEF Meets
  <1> QED
    BY <1>1, <1>2, <1>3

------------------------------------------------------------------------------
(* One login on a WebSocket.                                               *)

(* What asks for a name, and for a room there may be: requests and frames. *)
AsksName == {q \in Asking : q.do = "register"}
AsksRoom == {q \in Asking : q.do = "join_room" /\ q.arg.room \in ValidRoomName}
Registering == {f \in Sent : f.type = "USER_REGISTER"}
Joining == {f \in Sent : f.type = "JOIN_ROOM" /\ f.arg \in ValidRoomName}

(* Only the first may be one.                                              *)
First(s, R) == \A i \in 1 .. Len(s) : s[i] \in R => i = 1

(* A request that is not one of R follows, or the queue was empty.         *)
LEMMA FirstAppend ==
    ASSUME NEW T, NEW s \in Seq(T), NEW e \in T, NEW R, First(s, R), e \notin R \/ s = << >>
    PROVE  First(Append(s, e), R)
  <1>1. /\ Len(s) \in Nat /\ Len(Append(s, e)) = Len(s) + 1
        /\ \A i \in 1 .. Len(s) : Append(s, e)[i] = s[i]
        /\ Append(s, e)[Len(s) + 1] = e /\ (s = << >> => Len(s) = 0)
    BY AppendPlaces
  <1> QED
    BY <1>1 DEF First

(* Behind the first there is none.                                         *)
LEMMA FirstTail ==
    ASSUME NEW T, NEW s \in Seq(T), s # << >>, NEW R, First(s, R)
    PROVE  First(Tail(s), R) /\ ~Meets(Tail(s), R)
  <1>1. /\ Len(s) \in Nat \ {0} /\ Len(Tail(s)) = Len(s) - 1
        /\ \A i \in 1 .. Len(s) - 1 : Tail(s)[i] = s[i + 1]
    BY TailPlaces
  <1>2. ASSUME NEW i \in 1 .. Len(s) - 1 PROVE Tail(s)[i] \notin R
    <2>1. i + 1 \in 1 .. Len(s) /\ i + 1 # 1 /\ Tail(s)[i] = s[i + 1]
      BY <1>1
    <2> QED
      BY <2>1 DEF First
  <1> QED
    BY <1>1, <1>2 DEF First, Meets

(* Unless a login has parted the two rooms, a name is asked for once.      *)
Once ==
    ws = "open" =>
        /\ sock \in DOMAIN usersById \/ Meets(toServer[sock], Registering)
              => session[sock].username # NoHandle
        /\ ~astray =>
              /\ session[sock].username # NoHandle => ~Meets(up, AsksName)
              /\ First(up, AsksName)
              /\ sock \in DOMAIN usersById => ~Meets(toServer[sock], Registering)
              /\ Single(toServer[sock], Registering)

(* The room of a user, and what will take him to another.                  *)
Heading(q, u) == Meets(u, AsksRoom) \/ Meets(q, Joining)

(* A name is not asked for any more, and joining comes behind registering. *)
Unnamed(q, u) ==
    /\ ~Meets(u, AsksName)
    /\ ~Meets(q, Registering) \/ Behind(q, Joining, Registering)

(* What is under way leads the page to the room the server has the user    *)
(* in, or will have him in once it knows him, unless a room is asked for.  *)
Places ==
    ws = "open" /\ sock \in conn =>
        /\ sock \notin DOMAIN usersById =>
              /\ ~Meets(down, Turns)
              /\ ~astray =>
                    \/ Arrives(down, hook.room, General)
                    \/ Meets(up, AsksRoom)
                    \/ Unnamed(toServer[sock], up)
        /\ sock \in DOMAIN usersById /\ ~astray =>
              \/ Arrives(down, hook.room, usersById[sock].currentRoom)
              \/ usersById[sock].currentRoom = General /\ Heading(toServer[sock], up)

(* What the page is sent of a request does not turn it.                    *)
LEMMA ServiceEvents ==
    ASSUME NEW events,
           \/ \E h : events \in Seq(Listing(h))
           \/ events \in Seq(ForAll)
           \/ \E why \in SUBSET {"name", "room"} : events = <<Error(why)>>
    PROVE  ~Meets(events, Turns)
  <1>1. ASSUME NEW h, events \in Seq(Listing(h)) PROVE ~Meets(events, Turns)
    <2>1. \A i \in 1 .. Len(events) : events[i] \in Listing(h)
      BY <1>1, ElementOfSeq
    <2> QED
      BY <2>1 DEF Meets, Listing, Turns
  <1>2. ASSUME events \in Seq(ForAll) PROVE ~Meets(events, Turns)
    <2>1. \A i \in 1 .. Len(events) : events[i] \in ForAll
      BY <1>2, ElementOfSeq
    <2> QED
      BY <2>1 DEF Meets, ForAll, Turns
  <1>3. ASSUME NEW why \in SUBSET {"name", "room"}, events = <<Error(why)>>
        PROVE  ~Meets(events, Turns)
    <2>1. Len(events) = 1 /\ events[1] = Error(why)
      BY <1>3
    <2> QED
      BY <2>1 DEF Meets, Error, Event, Turns
  <1> QED
    BY <1>1, <1>2, <1>3

(* Requests and frames of these kinds.                                     *)
LEMMA AskingFrames ==
    /\ \A h \in Handle, a \in Address \cup {NoEmail} : RegisterRequest(h, a) \in AsksName
    /\ \A q \in AsksName : q \in Asking /\ q \notin AsksRoom
    /\ \A q \in Asking : q.do # "register" => q \notin AsksName
    /\ \A f \in Sent : f.type # "USER_REGISTER" => f \notin Registering
    /\ \A f \in Sent : f.type # "JOIN_ROOM" => f \notin Joining
    /\ \A f \in Registering : f \notin Joining
    /\ \A h \in Handle : Frame("USER_REGISTER", h) \in Registering
    /\ \A r \in RoomName : /\ Frame("JOIN_ROOM", r) \in Sent \ Registering
                           /\ r \in ValidRoomName => Frame("JOIN_ROOM", r) \in Joining
  <1>1. \A h \in Handle, a \in Address \cup {NoEmail} :
           RegisterRequest(h, a) \in Asking /\ RegisterRequest(h, a).do = "register"
    BY AskingKinds DEF RegisterRequest, Request
  <1>2. \A type, arg : Frame(type, arg).type = type /\ Frame(type, arg).arg = arg
    BY DEF Frame
  <1> QED
    BY <1>1, <1>2, SentFrames DEF AsksName, AsksRoom, Registering, Joining

(* A step asks for a second name only where it parts the two rooms.        *)
LEMMA OnceStep ==
    ASSUME Whole, Sound, Sound', Once, Turned
    PROVE  Once'
  <1> DEFINE Claimed(q, named, in) == in \/ Meets(q, Registering) => named
             Calm(q, u, named, in) ==
                /\ named => ~Meets(u, AsksName)
                /\ First(u, AsksName)
                /\ in => ~Meets(q, Registering)
                /\ Single(q, Registering)
             q0 == toServer[sock]
             q1 == toServer'[sock']
             n0 == session[sock].username # NoHandle
             n1 == session'[sock'].username # NoHandle
             in0 == sock \in DOMAIN usersById
             in1 == sock' \in DOMAIN usersById'
  <1> SUFFICES ASSUME ws' = "open"
               PROVE  Claimed(q1, n1, in1) /\ (~astray' => Calm(q1, up', n1, in1))
    BY DEF Once
  <1>0. /\ sock \in Client /\ q0 \in Seq(Sent) /\ up \in Seq(Asking)
        /\ up' \in Seq(Asking)
    BY DEF Sound, Kinds, Wire, Whole, Linked
  <1>1. ASSUME ws = "open"
        PROVE  Claimed(q0, n0, in0) /\ (~astray => Calm(q0, up, n0, in0))
    BY <1>1 DEF Once
  <1> HIDE DEF q0, q1, n0, n1, in0, in1
  <1>2. CASE Speaking
    <2>1. ws = "open" /\ q1 = q0 /\ (n1 <=> n0) /\ (in1 <=> in0) /\ (astray' <=> astray)
      BY <1>2 DEF Speaking, gateway, bridge, registry, q0, q1, n0, n1, in0, in1
    <2>2. ASSUME NEW q \in Asking, q.do # "register", up' = Append(up, q)
          PROVE  /\ First(up, AsksName) => First(up', AsksName)
                 /\ ~Meets(up, AsksName) => ~Meets(up', AsksName)
      <3>1. q \notin AsksName
        BY <2>2 DEF AsksName
      <3> QED
        BY <1>0, <2>2, <3>1, FirstAppend, MeetsLess
    <2>3. /\ First(up, AsksName) => First(up', AsksName)
          /\ ~Meets(up, AsksName) => ~Meets(up', AsksName)
      BY <1>2, <2>2 DEF Speaking
    <2> QED
      BY <1>1, <2>1, <2>3
  <1>3. CASE LoggingIn
    <2>1. ws = "open" /\ q1 = q0 /\ (n1 <=> n0) /\ (in1 <=> in0) /\ hook'.profile \in Handle
      BY <1>3 DEF LoggingIn, gateway, bridge, registry, q0, q1, n0, n1, in0, in1
    <2>2. ASSUME ~astray' PROVE up = << >> /\ ~n0 /\ ~astray
      BY <1>3, <2>2 DEF LoggingIn, n0
    <2>3. ASSUME ~astray' PROVE First(up', AsksName)
      <3>1. PICK a \in Address \cup {NoEmail} : up' = Append(up, RegisterRequest(hook'.profile, a))
        BY <1>3, <2>1 DEF LoggingIn
      <3>2. RegisterRequest(hook'.profile, a) \in Asking
        BY <2>1, AskingKinds
      <3> QED
        BY <1>1, <1>0, <2>1, <2>2, <2>3, <3>1, <3>2, FirstAppend
    <2> QED
      BY <1>1, <2>1, <2>2, <2>3
  <1>4. CASE Opened
    <2>1. q1 = << >> /\ ~n1 /\ ~in1 /\ up' = Greeting
      BY <1>4 DEF Opened, q1, n1, in1, registry
    <2>2. ~Meets(q1, Registering) /\ Single(q1, Registering)
      <3>1. Len(q1) = 0 /\ \A i : i \notin 1 .. 0
        BY <2>1
      <3> QED
        BY <3>1 DEF Meets, Single
    <2>3. First(Greeting, AsksName)
      <3>1. CASE hook.profile = Nobody
        <4>1. Len(Greeting) = 0 /\ \A i : i \notin 1 .. 0
          BY <3>1, GreetingType DEF Sound, Kinds
        <4> QED
          BY <4>1 DEF First
      <3>2. CASE hook.profile # Nobody
        <4>1. PICK n : n = Len(Greeting)
          OBVIOUS
        <4>2. n \in 1 .. 2 /\ (n = 2 => Greeting[2] = JoinRequest(hook.room, NoPassword))
          BY <3>2, <4>1, GreetingType DEF Sound, Kinds
        <4>3. JoinRequest(hook.room, NoPassword) \notin AsksName
          BY DEF JoinRequest, Request, AsksName
        <4>4. \A i \in 1 .. n : i = 1 \/ (i = 2 /\ n = 2)
          BY <4>2
        <4> QED
          BY <4>1, <4>2, <4>3, <4>4 DEF First
      <3> QED
        BY <3>1, <3>2
    <2> QED
      BY <2>1, <2>2, <2>3
  <1>5. CASE Serving
    <2>1. /\ ws = "open" /\ up # << >> /\ up' = Tail(up) /\ (in1 <=> in0)
          /\ UNCHANGED sock /\ (astray' <=> astray)
      BY <1>5 DEF Serving, registry, in0, in1
    <2>2. PICK q : q = Head(up)
      OBVIOUS
    <2>3. PICK events \in Seq(Told) : Service(q, events)
      BY <1>5, <2>1, <2>2 DEF Serving
    <2>4. q \in Asking
      BY <1>0, <2>1, <2>2, HeadTailProperties
    <2>5. /\ First(up, AsksName) => First(up', AsksName) /\ ~Meets(up', AsksName)
          /\ ~Meets(up, AsksName) => q \notin AsksName
      BY <1>0, <2>1, <2>2, FirstTail, MeetsLess
    <2>6. ASSUME NEW f \in Sent, Sends(f), f \notin Registering
          PROVE  /\ ~Meets(q0, Registering) => ~Meets(q1, Registering)
                 /\ Single(q0, Registering) => Single(q1, Registering)
      <3>1. q1 = q0 \/ q1 = Append(q0, f)
        BY <2>1, <2>6 DEF Sends, q0, q1
      <3>2. ~Meets(q0, Registering) => ~Meets(Append(q0, f), Registering)
        BY <1>0, <2>6, MeetsLess
      <3>3. Single(q0, Registering) => Single(Append(q0, f), Registering)
        BY <1>0, <2>6, SingleAppend
      <3> QED
        BY <3>1, <3>2, <3>3
    <2>7. CASE q.do = "register" /\ Sends(Frame("USER_REGISTER", q.arg.user))
                  /\ session'[sock].username = q.arg.user
      <3> DEFINE f == Frame("USER_REGISTER", q.arg.user)
      <3>1. q.arg.user \in Handle /\ q \in AsksName
        BY <2>4, <2>7, AskingMay DEF MayAsk, AsksName
      <3>2. n1 /\ f \in Sent
        BY <2>1, <2>7, <3>1, ClosedType, SentFrames DEF n1
      <3>3. ASSUME ~astray PROVE ~in0 /\ Single(q1, Registering)
        <4>1. ~n0 /\ ~in0 /\ ~Meets(q0, Registering) /\ Single(q0, Registering)
          BY <1>1, <2>1, <2>5, <3>1, <3>3
        <4>2. \A i \in 1 .. Len(q0) : q0[i] \notin Registering
          BY <4>1 DEF Meets
        <4>3. q1 = q0 \/ q1 = Append(q0, f)
          BY <2>1, <2>7 DEF Sends, q0, q1
        <4> QED
          BY <1>0, <3>2, <4>1, <4>2, <4>3, SingleAppend
      <3> QED
        BY <1>1, <2>1, <2>5, <3>2, <3>3
    <2>8. ASSUME ~(q.do = "register" /\ Sends(Frame("USER_REGISTER", q.arg.user))
                     /\ session'[sock].username = q.arg.user)
          PROVE  /\ n1 <=> n0
                 /\ ~Meets(q0, Registering) => ~Meets(q1, Registering)
                 /\ Single(q0, Registering) => Single(q1, Registering)
      <3>1. SameName /\ (toServer'[sock] = toServer[sock] \/ \E f \in Sent \ Registering : Sends(f))
        <4>1. CASE q.do = "join_room"
          <5>1. q.arg.room \in RoomName
            BY <2>4, <4>1, AskingMay DEF MayAsk
          <5>2. Frame("JOIN_ROOM", q.arg.room) \in Sent \ Registering
            BY <5>1, AskingFrames
          <5> QED
            BY <2>3, <4>1, <5>2 DEF Service
        <4>2. \A f \in Sent : f.type \notin {"USER_REGISTER", "JOIN_ROOM"} => f \in Sent \ Registering
          BY AskingFrames
        <4> QED
          BY <2>3, <2>8, <4>1, <4>2 DEF Service
      <3>2. n1 <=> n0
        BY <2>1, <3>1 DEF SameName, n0, n1
      <3>3. CASE toServer'[sock] = toServer[sock]
        BY <2>1, <3>2, <3>3 DEF q0, q1
      <3> QED
        BY <2>6, <3>1, <3>2, <3>3
    <2> QED
      BY <1>1, <2>1, <2>5, <2>7, <2>8
  <1>6. CASE ws = "open" /\ Aside
    <2>1. q1 = q0 /\ (n1 <=> n0) /\ (in1 <=> in0) /\ UNCHANGED <<up, astray>>
      BY <1>6 DEF Aside, Alone, Same, SameUser, SameName, q0, q1, n0, n1, in0, in1
    <2> QED
      BY <1>1, <1>6, <2>1
  <1>7. CASE ws = "open" /\ Attending
    <2>1. PICK f : f = Head(q0)
      OBVIOUS
    <2>2. PICK events : events = Answer(sock, f)
      OBVIOUS
    <2>3. /\ UNCHANGED <<up, astray, sock>> /\ (n1 <=> n0)
          /\ q0 # << >> /\ q1 = Tail(q0) /\ Answered(f, events)
      BY <1>7, <2>1, <2>2 DEF Attending, Alone, SameName, q0, q1, n0, n1
    <2>4. f \in Sent
      BY <1>0, <2>1, <2>3, HeadTailProperties
    <2>5. in1 => in0 \/ f \in Registering
      BY <2>3, <2>4 DEF Answered, Admitted, Dismissed, Unmoved, SameUser, Registering, in0, in1
    <2>6. /\ ~Meets(q0, Registering) => ~Meets(q1, Registering) /\ f \notin Registering
          /\ Single(q0, Registering) =>
                Single(q1, Registering) /\ (f \in Registering => ~Meets(q1, Registering))
      <3>1. ~Meets(q0, Registering) => ~Meets(q1, Registering) /\ f \notin Registering
        BY <1>0, <2>1, <2>3, MeetsLess
      <3>2. Single(q0, Registering) =>
              /\ Single(q1, Registering)
              /\ f \in Registering => \A i \in 1 .. Len(q1) : q1[i] \notin Registering
        BY <1>0, <2>1, <2>3, SingleTail
      <3> QED
        BY <3>1, <3>2 DEF Meets
    <2> QED
      BY <1>1, <1>7, <2>3, <2>5, <2>6
  <1>8. CASE ws = "open" /\ Cut
    <2>1. UNCHANGED <<up, astray>> /\ (n1 <=> n0) /\ q1 = << >> /\ ~in1
      BY <1>8 DEF Cut, Alone, SameName, q1, n0, n1, in1
    <2>2. ~Meets(q1, Registering) /\ Single(q1, Registering)
      <3>1. Len(q1) = 0 /\ \A i : i \notin 1 .. 0
        BY <2>1
      <3> QED
        BY <3>1 DEF Meets, Single
    <2> QED
      BY <1>1, <1>8, <2>1, <2>2
  <1>9. CASE Delivering
    <2>1. /\ ws = "open" /\ q1 = q0 /\ (n1 <=> n0) /\ (in1 <=> in0) /\ UNCHANGED up
          /\ astray => astray'
      BY <1>9 DEF Delivering, q0, q1, n0, n1, in0, in1
    <2> QED
      BY <1>1, <2>1
  <1>10. CASE Elsewhere /\ ws # "open"
    BY <1>10 DEF Elsewhere, Alone
  <1> QED
    BY <1>2, <1>3, <1>4, <1>5, <1>6, <1>7, <1>8, <1>9, <1>10 DEF Turned, Elsewhere

(* What the queues of requests and frames still hold of a way to a room.   *)
LEMMA AskedLess ==
    ASSUME NEW u \in Seq(Asking), u # << >>, First(u, AsksName)
    PROVE  /\ ~Meets(Tail(u), AsksName)
           /\ Meets(u, AsksRoom) => Meets(Tail(u), AsksRoom) \/ Head(u) \in AsksRoom
           /\ Head(u) \in AsksName => Meets(u, AsksName)
  BY FirstTail, MeetsTail, MeetsLess

(* A frame that registers nobody joins the queue.                          *)
LEMMA QueueGrows ==
    ASSUME NEW q \in Seq(Sent), NEW f \in Sent, f \notin Registering
    PROVE  /\ Meets(q, Joining) => Meets(Append(q, f), Joining)
           /\ ~Meets(q, Registering) => ~Meets(Append(q, f), Registering)
           /\ Behind(q, Joining, Registering) => Behind(Append(q, f), Joining, Registering)
           /\ f \in Joining => /\ Meets(Append(q, f), Joining)
                               /\ Behind(Append(q, f), Joining, Registering)
  BY MeetsAppend, MeetsLess, BehindAppend

(* Places, when the gateway serves a request,                              *)
LEMMA PlacesServing ==
    ASSUME Whole, Sound, Once, Places, ws = "open", sock \in conn, Serving
    PROVE  Places'
  <1>0. /\ up \in Seq(Asking) /\ down \in Seq(Told) /\ sock \in Client
        /\ toServer[sock] \in Seq(Sent)
    BY DEF Sound, Kinds, Wire, Whole, Linked
  <1>1. /\ UNCHANGED <<ws, sock, hook, astray, usersById, conn>>
        /\ up # << >> /\ up' = Tail(up)
    BY DEF Serving, registry
  <1>2. PICK q : q = Head(up)
    OBVIOUS
  <1>3. PICK events \in Seq(Told) : down' = down \o events /\ Service(q, events)
    BY <1>1, <1>2 DEF Serving
  <1>4. q \in Asking /\ (q.do = "register" => q \in AsksName) /\ (q.do # "register" => q \notin AsksName)
    BY <1>0, <1>1, <1>2, HeadTailProperties DEF AsksName
  <1>5. ~Meets(events, Turns)
    BY <1>3, ServiceEvents DEF Service
  <1>6. ~Meets(down, Turns) => ~Meets(down', Turns)
    BY <1>0, <1>3, <1>5, MeetsConcat
  <1>7. \A r, t : Arrives(down, r, t) => Arrives(down', r, t)
    BY <1>0, <1>3, <1>5, ArrivesStill
  <1>8. ASSUME ~astray
        PROVE  /\ ~Meets(up', AsksName)
               /\ Meets(up, AsksRoom) => Meets(up', AsksRoom) \/ q \in AsksRoom
               /\ q \in AsksName => Meets(up, AsksName)
    <2>1. First(up, AsksName)
      BY <1>8 DEF Once
    <2> QED
      BY <1>0, <1>1, <1>2, <2>1, AskedLess
  <1>9. ASSUME NEW f \in Sent, Sends(f)
        PROVE  toServer'[sock] = Append(toServer[sock], f)
    BY <1>9 DEF Sends
  <1> DEFINE q0 == toServer[sock]
             q1 == toServer'[sock]
             in == sock \in DOMAIN usersById
             cr == usersById[sock].currentRoom
  (* Outside a login the queue of frames only gains.                       *)
  <1>10. ASSUME q.do # "register"
         PROVE  /\ Meets(q0, Joining) => Meets(q1, Joining)
                /\ ~Meets(q0, Registering) => ~Meets(q1, Registering)
                /\ Behind(q0, Joining, Registering) => Behind(q1, Joining, Registering)
                /\ \/ q \notin AsksRoom
                   \/ Meets(q1, Joining) /\ Behind(q1, Joining, Registering)
                   \/ events = <<Error({"room"})>>
    <2>1. CASE q.do = "join_room"
      <3> DEFINE f == Frame("JOIN_ROOM", q.arg.room)
      <3>1. q.arg.room \in RoomName
        BY <1>4, <2>1, AskingMay DEF MayAsk
      <3>2. f \in Sent /\ f \notin Registering /\ (q \in AsksRoom => f \in Joining)
        BY <3>1, AskingFrames DEF AsksRoom
      <3> HIDE DEF f
      <3>3. CASE Sends(f)
        BY <1>0, <1>9, <3>2, <3>3, QueueGrows
      <3>4. CASE events = <<Error({"room"})>> /\ toServer'[sock] = toServer[sock]
        BY <3>4
      <3> QED
        BY <1>3, <2>1, <3>3, <3>4 DEF Service, f
    <2>2. CASE q.do # "join_room"
      <3>1. q \notin AsksRoom
        BY <2>2 DEF AsksRoom
      <3>2. ASSUME NEW f \in Sent, f.type \notin {"USER_REGISTER", "JOIN_ROOM"}, Sends(f)
            PROVE  /\ Meets(q0, Joining) => Meets(q1, Joining)
                   /\ ~Meets(q0, Registering) => ~Meets(q1, Registering)
                   /\ Behind(q0, Joining, Registering) => Behind(q1, Joining, Registering)
        <4>1. f \notin Registering
          BY <3>2 DEF Registering
        <4> QED
          BY <1>0, <1>9, <3>2, <4>1, QueueGrows
      <3> QED
        BY <1>3, <1>10, <2>2, <3>1, <3>2 DEF Service
    <2> QED
      BY <2>1, <2>2
  <1> HIDE DEF q0, q1, in, cr
  <1>11. ASSUME ~in PROVE ~Meets(down, Turns) /\ (~astray => \/ Arrives(down, hook.room, General)
                                                           \/ Meets(up, AsksRoom)
                                                           \/ Unnamed(q0, up))
    BY <1>11 DEF Places, in, q0
  <1>12. ASSUME in, ~astray
         PROVE  \/ Arrives(down, hook.room, cr)
                \/ cr = General /\ Heading(q0, up)
    BY <1>12 DEF Places, in, cr, q0
  <1>13. ASSUME events = <<Error({"room"})>> PROVE Arrives(down', hook.room, General)
    <2>1. PICK e : e = Error({"room"})
      OBVIOUS
    <2>2. e \in Told /\ ~Stays(e) /\ e.ev # "joined"
      <3>1. {"room"} \in SUBSET {"name", "room"}
        OBVIOUS
      <3>2. e \in Told
        BY <2>1, <3>1, ListingKinds
      <3> QED
        BY <2>1, <3>2 DEF Stays, Error, Event
    <2> QED
      BY <1>0, <1>3, <1>13, <2>1, <2>2, ArrivesAt
  <1>14. ASSUME ~in, ~astray
         PROVE  \/ Arrives(down', hook.room, General)
                \/ Meets(up', AsksRoom)
                \/ Unnamed(q1, up')
    <2>1. CASE Arrives(down, hook.room, General)
      BY <1>7, <2>1
    <2>2. CASE Meets(up, AsksRoom)
      <3>1. q \in AsksRoom => q.do # "register"
        BY DEF AsksRoom
      <3> QED
        BY <1>8, <1>10, <1>13, <1>14, <2>2, <3>1 DEF Unnamed
    <2>3. CASE Unnamed(q0, up)
      <3>1. q.do # "register"
        BY <1>4, <1>8, <1>14, <2>3 DEF Unnamed
      <3> QED
        BY <1>8, <1>10, <1>14, <2>3, <3>1 DEF Unnamed
    <2> QED
      BY <1>11, <1>14, <2>1, <2>2, <2>3
  <1>15. ASSUME in, ~astray
         PROVE  \/ Arrives(down', hook.room, cr)
                \/ cr = General /\ Heading(q1, up')
    <2>1. ~Meets(up, AsksName)
      BY <1>15 DEF Once, in
    <2>2. q.do # "register"
      BY <1>4, <1>8, <1>15, <2>1
    <2>3. CASE Arrives(down, hook.room, cr)
      BY <1>7, <2>3
    <2>4. CASE cr = General /\ Heading(q0, up)
      BY <1>8, <1>10, <1>13, <1>15, <2>2, <2>4 DEF Heading
    <2> QED
      BY <1>12, <1>15, <2>3, <2>4
  <1>16. ASSUME ~in PROVE ~Meets(down', Turns)
    BY <1>6, <1>11, <1>16
  <1> QED
    BY <1>1, <1>14, <1>15, <1>16 DEF Places, in, cr, q1

(* when others do something,                                               *)
LEMMA PlacesAside ==
    ASSUME Whole, Sound, Places, ws = "open", sock \in conn, Aside
    PROVE  Places'
  <1>0. down \in Seq(Told)
    BY DEF Sound, Kinds, Wire
  <1>1. /\ UNCHANGED <<ws, sock, hook, up, astray>> /\ toServer'[sock] = toServer[sock]
        /\ sock \in DOMAIN usersById' <=> sock \in DOMAIN usersById
        /\ sock \in DOMAIN usersById => usersById'[sock] = usersById[sock]
    BY DEF Aside, Alone, Same, SameUser
  <1>2. CASE UNCHANGED down
    BY <1>1, <1>2 DEF Places
  <1>3. ASSUME NEW n \in Seq(Words), down' = down \o n
        PROVE  Places'
    <2>1. n \in Seq(Told) /\ ~Meets(n, Turns)
      BY WordsStay
    <2>2. ~Meets(down, Turns) => ~Meets(down', Turns)
      BY <1>0, <1>3, <2>1, MeetsConcat
    <2>3. \A r, t : Arrives(down, r, t) => Arrives(down', r, t)
      BY <1>0, <1>3, <2>1, ArrivesStill
    <2> QED
      BY <1>1, <2>2, <2>3 DEF Places
  <1>4. ASSUME NEW n \in Seq(Words), down' = down \o (n \o <<Event("returned", General)>>),
               sock \in DOMAIN usersById, usersById[sock].currentRoom = General
        PROVE  Places'
    <2>1. PICK e : e = Event("returned", General)
      OBVIOUS
    <2>2. e \in Told /\ ~Stays(e) /\ e.ev # "joined"
      BY <2>1, GatewayAssumption DEF Event, Told, Stays
    <2>3. n \in Seq(Told) /\ <<e>> \in Seq(Told)
      BY <2>2, WordsStay, OneTold
    <2>4. down \o n \in Seq(Told) /\ down' = (down \o n) \o <<e>>
      BY <1>0, <1>4, <2>1, <2>3, ConcatProperties, ConcatAssociative
    <2>5. Arrives(down', hook.room, General)
      BY <2>2, <2>4, ArrivesAt
    <2> QED
      BY <1>1, <1>4, <2>5 DEF Places
  <1> QED
    BY <1>2, <1>3, <1>4 DEF Aside, Overheard

(* The answers of the server that do not turn the page.                    *)
LEMMA AnswerStays ==
    ASSUME NEW events,
           Unmoved(events) \/ events = <<Event("welcome", NoRoom)>>
    PROVE  ~Meets(events, Turns)
  <1>1. CASE events = << >>
    <2>1. Len(events) = 0 /\ \A i : i \notin 1 .. 0
      BY <1>1
    <2> QED
      BY <2>1 DEF Meets
  <1>2. ASSUME NEW e, events = <<e>>, e.ev \notin {"joined", "returned"}
        PROVE  ~Meets(events, Turns)
    <2>1. Len(events) = 1 /\ events[1] = e
      BY <1>2
    <2> QED
      BY <1>2, <2>1 DEF Meets, Turns
  <1>3. Event("welcome", NoRoom).ev \notin {"joined", "returned"}
    BY DEF Event
  <1>4. CASE Unmoved(events)
    BY <1>1, <1>2, <1>4 DEF Unmoved
  <1> QED
    BY <1>2, <1>3, <1>4

(* when the server takes up a frame of the browser's,                      *)
LEMMA PlacesAttending ==
    ASSUME Whole, Sound, Once, Places, ws = "open", sock \in conn, Attending
    PROVE  Places'
  <1>0. down \in Seq(Told) /\ sock \in Client /\ toServer[sock] \in Seq(Sent)
    BY DEF Sound, Kinds, Wire, Whole, Linked
  <1>1. PICK f : f = Head(toServer[sock])
    OBVIOUS
  <1>2. PICK events : events = Answer(sock, f)
    OBVIOUS
  <1>3. /\ UNCHANGED <<ws, sock, hook, up, astray>>
        /\ toServer[sock] # << >> /\ toServer'[sock] = Tail(toServer[sock])
        /\ down' = down \o events /\ Answered(f, events)
    BY <1>1, <1>2 DEF Attending, Alone
  <1>4. f \in Sent
    BY <1>0, <1>1, <1>3, HeadTailProperties
  <1> DEFINE q0 == toServer[sock]
             q1 == toServer'[sock]
             in0 == sock \in DOMAIN usersById
             in1 == sock \in DOMAIN usersById'
             cr0 == usersById[sock].currentRoom
             cr1 == usersById'[sock].currentRoom
  <1>5. /\ ~Meets(q0, Registering) => f \notin Registering /\ ~Meets(q1, Registering)
        /\ Meets(q0, Joining) => f \in Joining \/ Meets(q1, Joining)
        /\ Behind(q0, Joining, Registering) =>
              \/ Behind(q1, Joining, Registering) /\ Meets(q1, Joining)
              \/ f \in Joining /\ ~Meets(q1, Registering)
    <2>1. ~Meets(q0, Registering) => f \notin Registering /\ ~Meets(q1, Registering)
      BY <1>0, <1>1, <1>3, MeetsLess
    <2>2. Meets(q0, Joining) => f \in Joining \/ Meets(q1, Joining)
      BY <1>0, <1>1, <1>3, MeetsTail
    <2>3. Behind(q0, Joining, Registering) =>
              \/ Behind(q1, Joining, Registering) /\ Meets(q1, Joining)
              \/ f \in Joining /\ ~Meets(q0, Registering)
      BY <1>0, <1>1, <1>3, BehindTail DEF Meets
    <2> QED
      BY <2>1, <2>2, <2>3
  <1>6. ASSUME ~Meets(events, Turns), events \in Seq(Told)
        PROVE  /\ ~Meets(down, Turns) => ~Meets(down', Turns)
               /\ \A r, t : Arrives(down, r, t) => Arrives(down', r, t)
    BY <1>0, <1>3, <1>6, MeetsConcat, ArrivesStill
  <1>7. /\ Event("welcome", NoRoom) \in Told
        /\ \A r \in RoomName : Event("returned", r) \in Told
        /\ \A r \in ValidRoomName : Event("joined", r) \in Told
        /\ \A ev, arg : Event(ev, arg).ev = ev /\ Event(ev, arg).arg = arg
    BY DEF Event, Told
  <1>8. General \in RoomName
    BY GatewayAssumption
  <1> HIDE DEF q0, q1, in0, in1, cr0, cr1
  <1>9. ASSUME ~in0
        PROVE  /\ ~Meets(down, Turns)
               /\ ~astray => \/ Arrives(down, hook.room, General)
                             \/ Meets(up, AsksRoom)
                             \/ Unnamed(q0, up)
    BY <1>9 DEF Places, in0, q0
  <1>10. ASSUME in0, ~astray
         PROVE  /\ \/ Arrives(down, hook.room, cr0)
                   \/ cr0 = General /\ Heading(q0, up)
                /\ f \notin Registering
    <2>1. ~Meets(q0, Registering)
      BY <1>10 DEF Once, in0, q0
    <2> QED
      BY <1>5, <1>10, <2>1 DEF Places, in0, cr0, q0
  <1> DEFINE Settled ==
                /\ ~in1 => /\ ~Meets(down', Turns)
                           /\ ~astray => \/ Arrives(down', hook.room, General)
                                         \/ Meets(up, AsksRoom)
                                         \/ Unnamed(q1, up)
                /\ in1 /\ ~astray => \/ Arrives(down', hook.room, cr1)
                                     \/ cr1 = General /\ Heading(q1, up)
  <1> SUFFICES Settled
    BY <1>3 DEF Places, in1, cr1, q1
  (* The user is left where he was, and so is the page.                    *)
  <1>11. ASSUME in1 <=> in0, in0 => cr1 = cr0, in0 => f \notin Joining,
                ~Meets(events, Turns), events \in Seq(Told)
         PROVE  Settled
    <2>1. ASSUME ~in0, ~astray
          PROVE  \/ Arrives(down', hook.room, General)
                 \/ Meets(up, AsksRoom)
                 \/ Unnamed(q1, up)
      BY <1>5, <1>6, <1>9, <1>11, <2>1 DEF Unnamed
    <2>2. ASSUME in0, ~astray
          PROVE  \/ Arrives(down', hook.room, cr0)
                 \/ cr0 = General /\ Heading(q1, up)
      BY <1>5, <1>6, <1>10, <1>11, <2>2 DEF Heading
    <2> QED
      BY <1>6, <1>9, <1>11, <2>1, <2>2
  <1>12. CASE /\ f.type = "USER_REGISTER" /\ events = <<Event("welcome", NoRoom)>>
              /\ in1 /\ usersById'[sock] = [username |-> f.arg, currentRoom |-> General]
    <2>1. cr1 = General
      BY <1>12 DEF cr1
    <2>2. ~Meets(events, Turns) /\ events \in Seq(Told)
      BY <1>7, <1>12, AnswerStays, OneTold
    <2>3. f \in Registering /\ f \notin Joining
      BY <1>4, <1>12 DEF Registering, Joining
    <2>4. ASSUME ~astray
          PROVE  Arrives(down', hook.room, General) \/ Heading(q1, up)
      <3>1. ~in0
        BY <1>10, <2>3, <2>4
      <3> QED
        BY <1>5, <1>6, <1>9, <2>2, <2>3, <2>4, <3>1 DEF Unnamed, Heading
    <2> QED
      BY <1>12, <2>1, <2>4
  <1>13. CASE f.arg \in ValidRoomName /\ Admitted(f.arg, events)
    <2>1. PICK n \in Seq(Words) : events = n \o <<Event("joined", f.arg)>>
      BY <1>13 DEF Admitted
    <2>2. in1 /\ cr1 = f.arg
      BY <1>13 DEF Admitted, in1, cr1
    <2>3. PICK e : e = Event("joined", f.arg)
      OBVIOUS
    <2>4. e \in Told /\ e.ev = "joined" /\ e.arg = cr1 /\ ~Stays(e)
      BY <1>7, <1>13, <2>2, <2>3 DEF Stays
    <2>5. n \in Seq(Told) /\ <<e>> \in Seq(Told)
      BY <2>4, WordsStay, OneTold
    <2>6. down \o n \in Seq(Told) /\ down' = (down \o n) \o <<e>>
      BY <1>0, <1>3, <2>1, <2>3, <2>5, ConcatProperties, ConcatAssociative
    <2>7. Arrives(down', hook.room, cr1)
      BY <2>4, <2>6, ArrivesAt
    <2> QED
      BY <2>2, <2>7
  <1>14. CASE Dismissed(events)
    <2>1. PICK r \in RoomName : events = <<Event("returned", General)>> \o <<Event("returned", r)>>
      BY <1>14 DEF Dismissed
    <2>2. in1 /\ cr1 = General
      BY <1>14 DEF Dismissed, in1, cr1
    <2>3. PICK n, e : n = <<Event("returned", General)>> /\ e = Event("returned", r)
      OBVIOUS
    <2>4. e \in Told /\ ~Stays(e) /\ e.ev # "joined"
      BY <1>7, <2>3 DEF Stays
    <2>5. n \in Seq(Told) /\ <<e>> \in Seq(Told)
      BY <1>7, <1>8, <2>3, <2>4, OneTold
    <2>6. down \o n \in Seq(Told) /\ down' = (down \o n) \o <<e>>
      BY <1>0, <1>3, <2>1, <2>3, <2>5, ConcatProperties, ConcatAssociative
    <2>7. Arrives(down', hook.room, General)
      BY <2>4, <2>6, ArrivesAt
    <2> QED
      BY <2>2, <2>7
  <1>15. CASE /\ f.type \in {"CHAT_MESSAGE", "PRIVATE_MESSAGE"} /\ SameUser(sock)
              /\ events \in Seq(Words)
    <2>1. ~Meets(events, Turns) /\ events \in Seq(Told)
      BY <1>15, WordsStay
    <2>2. f \notin Registering /\ f \notin Joining
      BY <1>15 DEF Registering, Joining
    <2>3. (in1 <=> in0) /\ (in0 => cr1 = cr0)
      BY <1>15 DEF SameUser, in0, in1, cr0, cr1
    <2> QED
      BY <1>11, <2>1, <2>2, <2>3
  <1>16. CASE /\ f.type = "JOIN_ROOM" => f.arg \notin ValidRoomName \/ ~in0
              /\ Unmoved(events)
    <2>1. ~Meets(events, Turns)
      BY <1>16, AnswerStays
    <2>2. events \in Seq(Told)
      BY <1>16, OneTold, EmptySeq DEF Unmoved
    <2>3. (in1 <=> in0) /\ (in0 => cr1 = cr0)
      BY <1>16 DEF Unmoved, SameUser, in0, in1, cr0, cr1
    <2>4. in0 => f \notin Joining
      BY <1>16 DEF Joining
    <2> QED
      BY <1>11, <2>1, <2>2, <2>3, <2>4
  <1> QED
    BY <1>3, <1>12, <1>13, <1>14, <1>15, <1>16 DEF Answered, in0, in1

(* and in every step.                                                      *)
LEMMA PlacesStep ==
    ASSUME Whole, Sound, Sound', Once, Places, Turned
    PROVE  Places'
  <1> SUFFICES ASSUME ws' = "open", sock' \in conn'
               PROVE  Places'
    BY DEF Places
  <1>0. down \in Seq(Told) /\ up \in Seq(Asking)
    BY DEF Sound, Kinds, Wire
  <1>1. CASE Speaking
    <2>1. UNCHANGED <<ws, sock, down, toServer, conn, usersById, astray>> /\ hook'.room = hook.room
      BY <1>1 DEF Speaking, gateway, bridge, registry
    <2>2. ASSUME NEW q \in Asking, q.do # "register", up' = Append(up, q)
          PROVE  /\ Meets(up, AsksRoom) => Meets(up', AsksRoom)
                 /\ ~Meets(up, AsksName) => ~Meets(up', AsksName)
      <3>1. q \notin AsksName
        BY <2>2 DEF AsksName
      <3> QED
        BY <1>0, <2>2, <3>1, MeetsAppend, MeetsLess
    <2>3. /\ Meets(up, AsksRoom) => Meets(up', AsksRoom)
          /\ ~Meets(up, AsksName) => ~Meets(up', AsksName)
      BY <1>1, <2>2 DEF Speaking
    <2> QED
      BY <2>1, <2>3 DEF Places, Unnamed, Heading
  <1>2. CASE LoggingIn
    <2>1. UNCHANGED <<ws, sock, down, toServer, conn, usersById>>
      BY <1>2 DEF LoggingIn, gateway, bridge, registry
    <2>2. ASSUME ~astray'
          PROVE  hook'.room = General /\ sock \notin DOMAIN usersById
      BY <1>2, <2>1, <2>2 DEF LoggingIn, Once
    <2>3. sock \notin DOMAIN usersById => ~Meets(down, Turns)
      BY <2>1 DEF Places
    <2>4. ASSUME ~astray' PROVE Arrives(down, hook'.room, General)
      BY <1>0, <2>2, <2>3, <2>4, ArrivesUnturned
    <2> QED
      BY <2>1, <2>2, <2>3, <2>4 DEF Places
  <1>3. CASE Opened
    <2>1. /\ toServer'[sock'] = << >> /\ sock' \notin DOMAIN usersById'
          /\ up' = Greeting /\ down' = << >> /\ UNCHANGED hook
          /\ astray' = (hook.room \notin ValidRoomName)
      BY <1>3 DEF Opened, registry
    <2>2. ~Meets(down', Turns) /\ ~Meets(toServer'[sock'], Registering) /\ down' \in Seq(Told)
      <3>1. Len(<< >>) = 0 /\ \A i : i \notin 1 .. 0
        OBVIOUS
      <3> QED
        BY <2>1, <3>1 DEF Meets, Sound, Kinds, Wire
    <2>3. CASE hook.room = General
      <3>1. Arrives(down', hook'.room, General)
        BY <2>1, <2>2, <2>3, ArrivesUnturned
      <3> QED
        BY <2>1, <2>2, <3>1 DEF Places
    <2>4. CASE hook.profile = Nobody
      <3>1. up' = << >>
        BY <2>1, <2>4, GreetingType DEF Sound, Kinds
      <3>2. ~Meets(up', AsksName)
        <4>1. Len(up') = 0 /\ \A i : i \notin 1 .. 0
          BY <3>1
        <4> QED
          BY <4>1 DEF Meets
      <3> QED
        BY <2>1, <2>2, <3>2 DEF Places, Unnamed
    <2>5. CASE hook.room # General /\ hook.profile # Nobody
      <3>1. Len(up') = 2 /\ up'[2] = JoinRequest(hook.room, NoPassword)
        BY <2>1, <2>5, GreetingType DEF Sound, Kinds
      <3>2. hook.room \in RoomName
        BY DEF Sound, Kinds, Page, Hook
      <3>3. 2 \in 1 .. 2
        OBVIOUS
      <3>4. ASSUME ~astray' PROVE JoinRequest(hook.room, NoPassword) \in AsksRoom
        BY <2>1, <3>2, <3>4, AskingKinds DEF AsksRoom, JoinRequest, Request
      <3>5. ~astray' => Meets(up', AsksRoom)
        BY <3>1, <3>3, <3>4 DEF Meets
      <3> QED
        BY <2>1, <2>2, <3>5 DEF Places
    <2> QED
      BY <2>3, <2>4, <2>5
  <1>4. CASE Serving
    <2>1. ws = "open" /\ sock \in conn
      BY <1>4 DEF Serving
    <2> QED
      BY <1>4, <2>1, PlacesServing
  <1>5. CASE ws = "open" /\ Aside
    <2>1. sock \in conn
      BY <1>5 DEF Aside, Alone, Same
    <2> QED
      BY <1>5, <2>1, PlacesAside
  <1>6. CASE ws = "open" /\ Attending
    BY <1>6, PlacesAttending DEF Attending
  <1>7. CASE ws = "open" /\ Cut
    BY <1>7 DEF Cut, Alone
  <1>8. CASE Delivering
    <2>1. /\ UNCHANGED <<ws, sock, conn, toServer, usersById, up>>
          /\ down # << >> /\ down' = Tail(down)
          /\ hook'.room = After(hook.room, Head(down))
      BY <1>8 DEF Delivering
    <2>2. ASSUME ~astray' PROVE ~astray /\ ~Parts(hook.room, Head(down))
      BY <1>8, <2>2 DEF Delivering
    <2>3. ~Meets(down, Turns) => ~Meets(down', Turns)
      BY <1>0, <2>1, MeetsLess
    <2>4. ASSUME ~astray'
          PROVE  \A t : Arrives(down, hook.room, t) => Arrives(down', hook'.room, t)
      BY <1>0, <2>1, <2>2, <2>4, ArrivesTail
    <2> QED
      BY <2>1, <2>2, <2>3, <2>4 DEF Places
  <1>9. CASE Elsewhere /\ ws # "open"
    BY <1>9 DEF Elsewhere, Alone
  <1> QED
    BY <1>1, <1>2, <1>3, <1>4, <1>5, <1>6, <1>7, <1>8, <1>9 DEF Turned, Elsewhere

------------------------------------------------------------------------------
(* The whole.                                                              *)

ClientInv == Whole /\ Sound /\ NoStray /\ Fresh /\ Apart /\ Once /\ Places

(* Strays come from a user who registers again, outside General.           *)
LEMMA NoStrayStep ==
    ASSUME Whole, NoStray, [Next]_vars
    PROVE  NoStray'
  <1>1. [RMP!Next]_(RMP!vars)
    BY Steps DEF registry, RMP!vars
  <1>2. RMP!IInv /\ General \in RoomName
    BY GatewayAssumption DEF Whole
  <1>3. ASSUME NEW c \in Client, RMP!Stray(c, General)' PROVE FALSE
    <2>1. ~RMP!Stray(c, General)
      BY <1>3 DEF NoStray
    <2>2. RMP!RenamesIn(c, General)
      BY <1>1, <1>2, <1>3, <2>1, RegistryAssumption, RMP!StrayStep
    <2> QED
      BY <2>2 DEF RMP!RenamesIn
  <1> QED
    BY <1>3 DEF NoStray

(* Nothing happens.                                                        *)
LEMMA StillStep ==
    ASSUME Whole, Sound, UNCHANGED cvars
    PROVE  Sound' /\ Aside
  <1>1. /\ UNCHANGED <<ws, timer, sock, up, down, hook, saved, modal, mixed, astray>>
        /\ UNCHANGED <<session, toServer, conn, usersById>>
    BY DEF cvars, browser, channel, cookies, histories, gateway, bridge, registry
  <1>2. Alone /\ Aside
    BY <1>1 DEF Alone, Aside, Same, SameUser, SameName, Known
  <1>3. down' \in Seq(Told) /\ (ws = "open" => session'[sock].open)
    BY <1>1 DEF Sound, Kinds, Wire
  <1> QED
    BY <1>1, <1>2, <1>3, AloneSound

(* Every step of the browser's world is one of Turned.                     *)
LEMMA TurnedStep ==
    ASSUME Whole, Whole', NoStray, Sound, Fresh, Apart, [ClientNext]_cvars
    PROVE  Sound' /\ Turned
  <1>1. CASE Reconnect \/ OnClose \/ Reload \/ Logout
    BY <1>1, OfflineStep DEF Offline, Turned
  <1>2. CASE LogsIn
    BY <1>2, LogsInStep DEF Turned
  <1>3. CASE UserDoes /\ ~Logout
    BY <1>3, UserStep DEF Turned
  <1>4. CASE OnMessage
    BY <1>4, ServingStep DEF Turned
  <1>5. CASE Deliver
    BY <1>5, DeliverStep DEF Turned
  <1>6. CASE PeerDoes
    BY <1>6, PeerStep DEF Turned, Elsewhere, Aside
  <1>7. ASSUME NEW c \in Client, OnOpen(c)
        PROVE  Sound' /\ Turned
    BY <1>7, OpenedStep DEF Turned
  <1>8. ASSUME NEW c \in Client, Server(c)
        PROVE  Sound' /\ Turned
    BY <1>8, ServerStep DEF Turned
  <1>9. ASSUME NEW c \in Client, GatewayLearns(c) \/ BridgeCloses(c) \/ ServerDrops(c)
        PROVE  Sound' /\ Turned
    BY <1>9, EndsStep DEF Turned
  <1>10. CASE UNCHANGED cvars
    BY <1>10, StillStep DEF Turned, Elsewhere, Aside
  <1> QED
    BY <1>1, <1>2, <1>3, <1>4, <1>5, <1>6, <1>7, <1>8, <1>9, <1>10 DEF ClientNext

(* So the invariant is inductive, and every step one of the gateway's,     *)
LEMMA ClientInvStep ==
    ASSUME ClientInv, [ClientNext]_cvars
    PROVE  ClientInv' /\ [Next]_vars
  <1>0. Whole /\ Sound /\ NoStray /\ Fresh /\ Apart /\ Once /\ Places
    BY DEF ClientInv
  <1>1. [Next]_vars
    BY <1>0, GatewaySteps DEF Whole, Sound
  <1>2. Whole' /\ NoStray'
    BY <1>0, <1>1, WholeStep, NoStrayStep
  <1>3. Sound' /\ Turned
    BY <1>0, <1>2, TurnedStep
  <1>4. Fresh' /\ Apart' /\ Once' /\ Places'
    BY <1>0, <1>3, FreshStep, ApartStep, OnceStep, PlacesStep
  <1> QED
    BY <1>1, <1>2, <1>3, <1>4 DEF ClientInv

(* The peer alone.                                                         *)
LEMMA PeerWhole == ClientInit => Whole /\ NoStray
  <1> SUFFICES ASSUME ClientInit PROVE Whole /\ NoStray
    OBVIOUS
  <1>0. Peer \in Client /\ PeerName \in Handle /\ General \in RoomName /\ General # NoRoom
    BY ClientAssumption, GatewayAssumption
  <1>1. Types
    <2>1. [h \in {PeerName} |-> NoEmail] \in Accounts
      <3>1. {PeerName} \in SUBSET Handle
        BY <1>0
      <3>2. [h \in {PeerName} |-> NoEmail] \in [{PeerName} -> Address \cup {NoEmail}]
        OBVIOUS
      <3> QED
        BY <3>1, <3>2 DEF Accounts
    <2>2. store \in Data
      BY <2>1, DefaultsType DEF ClientInit, Data, Accounts
    <2>3. [Closed EXCEPT !.open = TRUE, !.username = PeerName] \in Session
      BY <1>0, ClosedType DEF Session
    <2>4. session \in [Client -> Session]
      BY <2>3, ClosedType DEF ClientInit
    <2>5. DOMAIN presence \subseteq Handle /\ presence \in [DOMAIN presence -> Entry]
      BY <1>0, GatewayAssumption DEF ClientInit, Entry
    <2> QED
      BY <2>2, <2>4, <2>5 DEF Types
  <1>2. Linked
    <2>1. << >> \in Seq(Sent) /\ Len(<< >>) = 0 /\ 0 <= MaxQueue /\ 0 <= MaxQueue + 1
      BY EmptySeq, GatewayAssumption
    <2>2. toServer \in [Client -> Seq(Sent)] /\ \A c \in Client : toServer[c] = << >>
      BY <2>1 DEF ClientInit
    <2>3. tcp \in [Client -> {"open", "ended", "destroyed"}] /\ tcp[Peer] = "open"
          /\ \A c \in Client : tcp[c] # "ended"
      BY <1>0 DEF ClientInit
    <2>4. \A c \in Client : session[c].room = General
      BY ClosedType DEF ClientInit, Session
    <2>5. conn = {Peer} /\ DOMAIN usersById = {Peer}
      BY DEF ClientInit
    <2> QED
      BY <1>0, <2>1, <2>2, <2>3, <2>4, <2>5 DEF Linked
  <1>3. /\ usersById = [c \in {Peer} |-> [username |-> PeerName, currentRoom |-> General]]
        /\ usersByName = [h \in {PeerName} |-> Peer]
        /\ rooms = [r \in {General} |-> {Peer}]
    BY DEF ClientInit
  <1>4. RMP!Handle(Peer) = PeerName
    BY <1>0, <1>3 DEF RMP!Handle
  <1>5. RMP!TypeOK
    BY <1>0, <1>3 DEF RMP!TypeOK, RMP!UserInfo
  <1>6. RMP!NameIndexExact
    BY <1>3, <1>4 DEF RMP!NameIndexExact
  <1>7. RMP!UserInOwnRoom /\ RMP!NoEmptyRoom /\ NoStray
    BY <1>3 DEF RMP!UserInOwnRoom, RMP!NoEmptyRoom, NoStray, RMP!Stray, RMP!RoomMembers,
                RMP!MembersIn
  <1> QED
    BY <1>1, <1>2, <1>5, <1>6, <1>7 DEF Whole, RMP!IInv

(* it holds at the start,                                                  *)
LEMMA ClientInvInit == ClientInit => ClientInv
  <1> SUFFICES ASSUME ClientInit PROVE ClientInv
    OBVIOUS
  <1>0. << >> \in Seq(Line) /\ Len(<< >>) = 0 /\ \A S : << >> \in Seq(S)
    BY EmptySeq
  <1>1. hook = [profile |-> Nobody, email |-> NoEmail, registered |-> FALSE,
                room |-> General, dm |-> Nobody, feed |-> << >>]
    BY DEF ClientInit
  <1>2. saved = [feeds |-> [h \in Handle |-> << >>],
                 handles |-> [a \in Address |-> Nobody],
                 unlocked |-> [r \in {LowerRoom[n] : n \in RoomName} |-> NoPassword]]
    BY DEF ClientInit
  <1>3. Page /\ Mail
    <2>1. hook \in Hook
      BY <1>0, <1>1, GatewayAssumption DEF Hook
    <2>2. saved \in Saved
      BY <1>0, <1>2 DEF Saved
    <2>3. \A h \in Handle : saved.feeds[h] = << >>
      BY <1>2
    <2>4. mixed = {} /\ KeptMessages \in Nat /\ Nobody \notin Handle
      BY ClientAssumption DEF ClientInit
    <2>5. Page
      BY <1>0, <1>1, <2>1, <2>2, <2>3, <2>4 DEF Page
    <2>6. \A h \in Handle : saved.feeds[h] \in Seq(Own(h))
      BY <1>0, <2>3
    <2>7. hook.profile \notin Handle
      BY <1>1, <2>4
    <2> QED
      BY <2>5, <2>6, <2>7 DEF Mail
  <1>4. Dialog
    <2>1. modal = [google |-> NoEmail, fetch |-> NoFetch]
      BY DEF ClientInit
    <2>2. NoFetch \in Fetch /\ NoFetch.left = 0
      BY DEF NoFetch, Fetch
    <2> QED
      BY <2>1, <2>2 DEF Dialog, Modal
  <1>5. ws = "connecting" /\ Wire
    BY <1>0 DEF ClientInit, Wire
  <1> QED
    BY <1>3, <1>4, <1>5, PeerWhole DEF ClientInv, Sound, Kinds, Fresh, Apart, Once, Places

(* and always.                                                             *)
LEMMA ClientInvHolds == ClientSpec => []ClientInv
  BY ClientInvInit, ClientInvStep, PTL DEF ClientSpec

------------------------------------------------------------------------------
(* The browser adds nothing to what may happen at the gateway: each of its *)
(* steps is one of the gateway's, or leaves the gateway alone.             *)
THEOREM ClientFollowsGateway == ClientSpec => [][Next]_vars
  BY ClientInvHolds, ClientInvStep, PTL DEF ClientSpec

(* The hook, what it persists, its dialog and its channel keep their       *)
(* types; a closed WebSocket always has its timer.                         *)
THEOREM ClientTypes == ClientSpec => []ClientTypeOK
  <1>1. ClientInv => ClientTypeOK
    <2> SUFFICES ASSUME ClientInv PROVE ClientTypeOK
      OBVIOUS
    <2>1. Page /\ Dialog /\ Wire
      BY DEF ClientInv, Sound, Kinds
    <2>2. hook.room \in RoomName
      BY <2>1 DEF Page, Hook
    <2>3. /\ hook.profile \in Handle \cup {Nobody} /\ hook.dm \in Handle \cup {Nobody}
          /\ DOMAIN saved.feeds = Handle
      BY <2>1 DEF Page, Hook, Saved
    <2> QED
      BY <2>1, <2>2, <2>3 DEF ClientTypeOK, Page, Dialog, Wire
  <1> QED
    BY <1>1, ClientInvHolds, PTL

(* Nobody finds another user's private messages in his feed, persisted or  *)
(* under way, unless he logged in on a WebSocket that somebody else had    *)
(* logged in on.                                                           *)
THEOREM FeedsStayApart == ClientSpec => []FeedsApart
  <1>1. ClientInv => FeedsApart
    <2> SUFFICES ASSUME ClientInv PROVE FeedsApart
      OBVIOUS
    <2>1. Mail /\ Fresh /\ Apart /\ Page
      BY DEF ClientInv, Sound, Kinds
    <2>2. ASSUME NEW h, NEW S, S \subseteq Own(h), NEW s \in Seq(S), NEW m \in ToSet(s)
          PROVE  OwnMail(h, m)
      <3>1. PICK i \in DOMAIN s : m = s[i]
        BY DEF ToSet
      <3>2. s[i] \in S
        BY ElementOfSeq
      <3> QED
        BY <2>2, <3>1, <3>2 DEF Own
    <2>3. ASSUME NEW h \in Handle \ mixed, NEW m \in ToSet(saved.feeds[h])
          PROVE  OwnMail(h, m)
      BY <2>1, <2>2, <2>3 DEF Mail
    <2>4. ASSUME ws = "open", hook.profile \notin mixed, NEW i \in DOMAIN down
          PROVE  /\ down[i].ev = "whisper" => OwnMail(hook.profile, down[i].arg)
                 /\ down[i].ev = "history" =>
                       \A m \in ToSet(down[i].arg) : OwnMail(hook.profile, m)
      <3>1. CASE hook.profile = Nobody
        <4>1. down \in Seq(Scraps)
          BY <2>1, <2>4, <3>1 DEF Fresh
        <4>2. down[i] \in Scraps
          BY <2>4, <4>1, ElementOfSeq
        <4> QED
          BY <4>2 DEF Scraps
      <3>2. CASE hook.profile # Nobody
        <4>1. hook.profile \in Handle \ mixed
          BY <2>1, <2>4, <3>2 DEF Page, Hook
        <4>2. down \in Seq(Safe(hook.profile))
          BY <2>1, <2>4, <4>1 DEF Apart
        <4>3. down[i] \in Safe(hook.profile)
          BY <2>4, <4>2, ElementOfSeq
        <4> QED
          BY <2>2, <4>3 DEF Safe
      <3> QED
        BY <3>1, <3>2
    <2> QED
      BY <2>3, <2>4 DEF FeedsApart
  <1> QED
    BY <1>1, ClientInvHolds, PTL

(* When nothing is under way the server hears what the user writes from    *)
(* the name that the page shows, unless he logged in over another user,    *)
(* and in the very room that it shows, unless one of the things that       *)
(* ShownAsHeard lists has happened on this WebSocket: a login with another *)
(* room shown or on a WebSocket in use, a room whose name is not read in   *)
(* full, an error taken for a refused room, or a notice that quotes words  *)
(* which read like another.                                                *)
THEOREM PageShowsTheTruth == ClientSpec => []ShownAsHeard
  <1>1. ClientInv => ShownAsHeard
    <2> SUFFICES ASSUME ClientInv, Quiet
                 PROVE  /\ hook.profile \notin mixed => usersById[sock].username = hook.profile
                        /\ ~astray => hook.room = usersById[sock].currentRoom
      BY DEF ShownAsHeard
    <2>1. Page /\ Wire /\ Apart /\ Places /\ Linked
      BY DEF ClientInv, Sound, Kinds, Whole
    <2>2. /\ up = << >> /\ down = << >> /\ sock \in Client /\ toServer[sock] = << >>
          /\ ws = "open" /\ hook.registered /\ sock \in DOMAIN usersById /\ sock \in conn
      BY <2>1 DEF Quiet, Wire, Linked
    <2>3. hook.profile \in Handle
      BY <2>1, <2>2 DEF Page, Hook
    <2>4. ASSUME ~astray PROVE hook.room = usersById[sock].currentRoom
      <3>1. ~Meets(up, AsksRoom) /\ ~Meets(toServer[sock], Joining)
        <4>1. Len(<< >>) = 0 /\ \A i : i \notin 1 .. 0
          OBVIOUS
        <4> QED
          BY <2>2, <4>1 DEF Meets
      <3>2. Arrives(<< >>, hook.room, usersById[sock].currentRoom)
        BY <2>1, <2>2, <2>4, <3>1 DEF Places, Heading
      <3> QED
        BY <3>2, ArrivesEmpty
    <2> QED
      BY <2>1, <2>2, <2>3, <2>4 DEF Apart
  <1> QED
    BY <1>1, ClientInvHolds, PTL

(* The peer starts out as the server knows him.                            *)
LEMMA PeerAgreed == ClientInit => AllAgreed
  <1> SUFFICES ASSUME ClientInit PROVE Agreed(Peer) /\ conn = {Peer}
    BY DEF AllAgreed, Agreed
  <1>0. Peer \in Client /\ PeerName \in Handle /\ General \in RoomName
    BY ClientAssumption, GatewayAssumption
  <1>1. conn = {Peer} /\ toServer[Peer] = << >>
    BY <1>0 DEF ClientInit
  <1>2. session[Peer].username = PeerName /\ session[Peer].room = General
    BY <1>0, ClosedType DEF ClientInit, Session, Closed
  <1>3. usersById = [c \in {Peer} |-> [username |-> PeerName, currentRoom |-> General]]
    BY DEF ClientInit
  <1>4. Known(usersById, Peer) = [username |-> PeerName, room |-> General]
    BY <1>3 DEF Known
  <1>5. Known(usersById, Peer) \in Who
    BY <1>0, <1>4 DEF Who
  <1>6. /\ Len(<< >>) = 0 /\ << >> \in Seq(Sent)
        /\ Course(Known(usersById, Peer), << >>)[0] = Known(usersById, Peer)
    BY <1>5, EmptySeq, CourseFacts
  <1>7. Placed(Known(usersById, Peer), << >>)
    BY <1>6 DEF Placed
  <1> QED
    BY <1>1, <1>2, <1>4, <1>6, <1>7 DEF Agreed, Speaker

(* With a browser and its peer at it the gateway keeps all that it keeps   *)
(* alone: names, presence, and messages heard where they were stored.      *)
THEOREM GatewayBehindBrowser ==
    ClientSpec => /\ []TypeOK
                  /\ NameLostOnlyByOwnClaim
                  /\ PresenceFollowsSessions
                  /\ DriftOnlyByRefusal
                  /\ HeardWhereStored
  <1>1. ClientSpec => []Whole /\ [][Next]_vars
    <2>1. ClientInv => Whole
      BY DEF ClientInv
    <2> QED
      BY <2>1, ClientInvHolds, ClientFollowsGateway, PTL
  <1>2. ClientSpec => AllAgreed
    BY PeerAgreed DEF ClientSpec
  <1>3. []Whole /\ [][Next]_vars /\ AllAgreed => [](Whole /\ AllAgreed)
    BY AgreedStep, PTL
  <1>4. Whole => Types
    BY DEF Whole
  <1> QED
    BY <1>1, <1>2, <1>3, <1>4, WholeTypes, NamesFollow, PresenceSteps, DriftSteps, HeardSteps, PTL

------------------------------------------------------------------------------
(* Private messages that arrive.                                           *)

(* Events only come to a queue, unless the page reads the first.           *)
LEMMA OnlyDelivered ==
    ASSUME Whole, Whole', NoStray, Sound, Fresh, Apart, [ClientNext]_cvars,
           ws = "open", ws' = "open", down # << >>, down' = Tail(down)
    PROVE  Deliver
  <1>1. down \in Seq(Told)
    BY DEF Sound, Kinds, Wire
  <1>2. ASSUME NEW events \in Seq(Told) PROVE down' # down \o events
    <2>1. Len(Tail(down)) = Len(down) - 1 /\ Len(down) \in Nat
      BY <1>1, HeadTailProperties, LenProperties
    <2>2. Len(down \o events) = Len(down) + Len(events) /\ Len(events) \in Nat
      BY <1>1, <1>2, ConcatProperties, LenProperties
    <2>3. PICK n \in Nat, k \in Nat : n = Len(down) /\ k = Len(events)
      BY <2>1, <2>2
    <2>4. n - 1 # n + k
      OBVIOUS
    <2>5. Len(Tail(down)) = n - 1 /\ Len(down \o events) = n + k
      BY <2>1, <2>2, <2>3
    <2> QED
      BY <2>4, <2>5
  <1>3. down' # down
    <2>1. << >> \in Seq(Told) /\ down \o << >> = down
      BY <1>1, EmptySeq, ConcatEmptySeq
    <2> QED
      BY <1>2, <2>1
  <1>4. ~Speaking /\ ~LoggingIn
    BY <1>3 DEF Speaking, LoggingIn
  <1>5. ~Serving
    BY <1>2 DEF Serving
  <1>6. ~Elsewhere
    <2>1. ~Aside
      <3>1. \A events : Overheard(events) => down' # down \o events
        BY <1>2, OverheardTold
      <3> QED
        BY <1>3, <3>1 DEF Aside
    <2>2. ~Attending
      BY <1>2, AnsweredTold DEF Attending
    <2> QED
      BY <1>3, <2>1, <2>2 DEF Elsewhere, Cut
  <1>7. CASE Reconnect \/ OnClose \/ Reload \/ Logout
    BY <1>7, OfflineStep DEF Offline
  <1>8. CASE LogsIn
    BY <1>4, <1>8, LogsInStep
  <1>9. CASE UserDoes /\ ~Logout
    BY <1>4, <1>9, UserStep
  <1>10. CASE OnMessage
    BY <1>5, <1>10, ServingStep
  <1>11. CASE PeerDoes
    BY <1>6, <1>11, PeerStep DEF Elsewhere, Aside
  <1>12. ASSUME NEW c \in Client, OnOpen(c) PROVE FALSE
    BY <1>12 DEF OnOpen
  <1>13. ASSUME NEW c \in Client, Server(c) PROVE FALSE
    BY <1>6, <1>13, ServerStep
  <1>14. ASSUME NEW c \in Client, GatewayLearns(c) \/ BridgeCloses(c) \/ ServerDrops(c)
         PROVE  FALSE
    BY <1>6, <1>14, EndsStep
  <1>15. CASE UNCHANGED cvars
    BY <1>3, <1>15 DEF cvars, browser, channel
  <1> QED
    BY <1>7, <1>8, <1>9, <1>10, <1>11, <1>12, <1>13, <1>14, <1>15 DEF ClientNext

(* A feed with a private message has it, where nobody is called as a room. *)
LEMMA WithMessageHas ==
    ASSUME \A r \in RoomName : LowerRoom[r] \notin Handle,
           NEW feed \in Seq(Line), NEW m \in Message, m.private
    PROVE  m \in ToSet(WithMessage(feed, m))
  <1> DEFINE last == Slice(feed, DedupWindow)
             T == ToSet(feed)
  <1>0. m = [target |-> m.target, sender |-> m.sender, text |-> m.text, private |-> TRUE]
        /\ m.target \in Handle
    BY DEF Message
  <1>1. T \subseteq Line /\ feed \in Seq(T)
    <2>1. \A i \in 1 .. Len(feed) : feed[i] \in T
      BY LenProperties DEF ToSet
    <2>2. feed \in Seq(T)
      BY <2>1, SeqWithin
    <2>3. \A i \in DOMAIN feed : feed[i] \in Line
      BY ElementOfSeq, LenProperties
    <2> QED
      BY <2>2, <2>3 DEF ToSet
  <1>2. ToSet(last) \subseteq T
    <2>1. PICK U : U = T
      OBVIOUS
    <2>2. last \in Seq(U)
      BY <1>1, <2>1, SliceType, ClientAssumption
    <2>3. \A i \in DOMAIN last : last[i] \in U
      BY <2>2, ElementOfSeq, LenProperties
    <2> QED
      BY <2>1, <2>3 DEF ToSet
  <1>3. ASSUME NEW p \in ToSet(last), p.sender = m.sender, p.text = m.text, Scope(p) = Scope(m)
        PROVE  p = m
    <2>1. p \in Line /\ Scope(m) = m.target
      BY <1>0, <1>1, <1>2, <1>3 DEF Scope
    <2>2. CASE ~p.private
      <3>1. p.room \in {LowerRoom[r] : r \in RoomName} /\ Scope(p) = p.room
        BY <2>1, <2>2 DEF Line, Message, Scope
      <3> QED
        BY <1>0, <1>3, <2>1, <3>1
    <2>3. CASE p.private
      <3>1. p \in [target : Handle, sender : Handle, text : Text, private : {TRUE}]
        BY <2>1, <2>3 DEF Line, Message
      <3>2. p.target = m.target
        BY <1>3, <2>1, <2>3 DEF Scope
      <3> QED
        BY <1>0, <1>3, <3>1, <3>2
    <2> QED
      BY <2>2, <2>3
  <1>4. CASE WithMessage(feed, m) = Append(feed, m)
    <2>1. Len(feed) \in Nat /\ Len(feed) + 1 \in 1 .. Len(feed) + 1
      BY LenProperties
    <2>2. m \in Line
      BY DEF Line
    <2>3. Append(feed, m)[Len(feed) + 1] = m /\ DOMAIN Append(feed, m) = 1 .. Len(feed) + 1
      <3>1. /\ Append(feed, m) \in Seq(Line) /\ Len(Append(feed, m)) = Len(feed) + 1
            /\ Append(feed, m)[Len(feed) + 1] = m
        BY <2>2, AppendProperties
      <3> QED
        BY <3>1, LenProperties
    <2> QED
      BY <1>4, <2>1, <2>3 DEF ToSet
  <1>5. CASE WithMessage(feed, m) # Append(feed, m)
    <2>1. PICK p \in ToSet(last) : p.sender = m.sender /\ p.text = m.text /\ Scope(p) = Scope(m)
      BY <1>5 DEF WithMessage
    <2>2. WithMessage(feed, m) = feed
      BY <1>5 DEF WithMessage
    <2> QED
      BY <1>2, <1>3, <2>1, <2>2
  <1> QED
    BY <1>4, <1>5

(* Where nobody is called as a room is, a private message that the browser *)
(* takes up is in the feed afterwards.                                     *)
THEOREM WhispersAreShown ==
    (\A r \in RoomName : LowerRoom[r] \notin Handle) /\ ClientSpec => WhispersShown
  <1> SUFFICES ASSUME \A r \in RoomName : LowerRoom[r] \notin Handle
               PROVE  ClientSpec => WhispersShown
    OBVIOUS
  <1> DEFINE P == LET e == Head(down)
                  IN  ws = "open" /\ ws' = "open" /\ down # << >> /\ down' = Tail(down)
                      /\ e.ev = "whisper"
                         => DirectMessage(e.arg.sender, hook.profile, e.arg.text)
                               \in ToSet(hook'.feed)
  <1>1. ClientInv /\ ClientInv' /\ [ClientNext]_cvars => [P]_cvars
    <2> SUFFICES ASSUME ClientInv, ClientInv', [ClientNext]_cvars, ws = "open", ws' = "open",
                        down # << >>, down' = Tail(down), Head(down).ev = "whisper"
                 PROVE  DirectMessage(Head(down).arg.sender, hook.profile, Head(down).arg.text)
                           \in ToSet(hook'.feed)
      OBVIOUS
    <2>1. PICK e : e = Head(down)
      OBVIOUS
    <2>2. Whole /\ Sound /\ NoStray /\ Fresh /\ Apart /\ Whole' /\ Page /\ down \in Seq(Told)
      BY DEF ClientInv, Sound, Kinds, Wire
    <2>3. Deliver
      BY <2>2, OnlyDelivered
    <2>4. e \in Told /\ e.ev = "whisper"
      BY <2>1, <2>2, HeadTailProperties
    <2>5. hook.profile \in Handle
      <3>1. hook.profile = Nobody => e \in Scraps
        BY <2>1, <2>2, HeadTailProperties DEF Fresh
      <3> QED
        BY <2>2, <2>4, <3>1 DEF Page, Hook, Scraps
    <2>6. PICK m : m = DirectMessage(e.arg.sender, hook.profile, e.arg.text)
      OBVIOUS
    <2>7. m \in Message /\ m.private
      BY <2>4, <2>5, <2>6 DEF Told, Private, DirectMessage, Message
    <2>8. hook' = [hook EXCEPT !.feed = WithMessage(hook.feed, m)]
      BY <2>1, <2>3, <2>4, <2>6
         DEF Deliver, Listed, Welcomed, Joined, Returned, Quoted, Spoken, Refused, SetHook, Persist
    <2>9. hook \in Hook /\ hook.feed \in Seq(Line)
      BY <2>2 DEF Page, Hook
    <2>10. hook'.feed = WithMessage(hook.feed, m)
      BY <2>8, <2>9 DEF Hook
    <2> QED
      BY <2>1, <2>6, <2>7, <2>9, <2>10, WithMessageHas
  <1> QED
    BY <1>1, ClientInvHolds, PTL DEF ClientSpec, WhispersShown
==============================================================================
