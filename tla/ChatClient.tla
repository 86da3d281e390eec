------------------------------ MODULE ChatClient ------------------------------
(***************************************************************************)
(* One browser of the web client (frontend/src/hooks/usePulseChat.ts and   *)
(* the components that drive it) at the gateway, next to a peer of whom    *)
(* only the requests are followed.  The browser reconnects through new     *)
(* connections while old ones may linger at the gateway and the server.    *)
(*                                                                         *)
(* React renders and runs effects after every handler, so the refs that    *)
(* mirror state are the state, and what is persisted on every change is    *)
(* what a reload finds.  An answer of the server reaches the browser's     *)
(* queue when the server gives it: a delay on the way back looks the same  *)
(* as a server that takes the frame up later.  Lists that are only shown   *)
(* (presence, rooms, metrics, telemetry), toasts, chimes, connection       *)
(* lights and the heartbeat are left out.  So are notices in the feed,     *)
(* which count among the last messages as others do: with many of them the *)
(* code looks back over fewer than DedupWindow messages, and keeps fewer.  *)
(*                                                                         *)
(* The page learns its room and its name from the words of notices and     *)
(* errors, and these quote what people call rooms and write to each other. *)
(* Of a text or a name the model knows what the page reads in it.          *)
(***************************************************************************)
EXTENDS Gateway, SequencesExt

CONSTANTS
    Peer,         (* the connection of the other user                       *)
    PeerName,     (* and his name                                           *)
    Nobody,       (* no active private conversation, no profile             *)
    ShownRoom,    (* what /You joined room #([\w-]+)/ reads in the notice   *)
                  (* of having joined a room; NoRoom if nothing             *)
    JoinRead,     (* what it reads in a text or in a room's name            *)
    Returning,    (* texts and names that contain 'returned to #general'    *)
    Welcoming,    (* and those that contain 'Welcome to PulseChat'          *)
    ErrorRead,    (* what an error that quotes a room's name is taken to    *)
                  (* refuse: the "name" of the user, the "room", or both    *)
    DedupWindow,  (* 15: how far back a repeated message is looked for      *)
    KeptMessages, (* 300: how many messages of a user are persisted         *)
    Handoffs,     (* how often a token of Google's arrives: 2, or 3 times   *)
    Person,       (* bound: the names the browser's users log in with,      *)
    Contact,      (* to whom they write,                                    *)
    Visited,      (* the rooms they enter                                   *)
    PeerAction,   (* and the requests of the peer                           *)
    MaxUp,        (* bound on requests and events under way to and from     *)
    MaxDown,      (* the browser                                            *)
    MaxMoves      (* bound on what the user does and what goes wrong        *)

ASSUME ClientAssumption ==
    /\ Peer \in Client /\ PeerName \in ValidHandle
    /\ Nobody \notin Handle
    /\ Handle \subseteq Username /\ \A h \in Handle : HandleOf[h] = h
    /\ Address \cup {NoEmail} \subseteq Email
    /\ \A a \in Address \cup {NoEmail} : CleanEmail[a] = a
    /\ {DedupWindow, KeptMessages, MaxUp, MaxDown, MaxMoves} \subseteq Nat
    /\ {HistoryLimit, DmLimit} \subseteq Nat
    /\ Handoffs \subseteq 2 .. 3 /\ Handoffs # {}
    /\ Person \cup Contact \subseteq Handle
    /\ Visited \subseteq RoomName

Quotable == Text \cup RoomName

(* The pattern reads a name, or nothing.                                   *)
ASSUME PatternAssumption ==
    /\ ShownRoom \in [RoomName -> RoomName \cup {NoRoom}]
    /\ ShownRoom[General] = General
    /\ JoinRead \in [Quotable -> RoomName \cup {NoRoom}]
    /\ JoinRead[General] = NoRoom
    /\ Returning \cup Welcoming \subseteq Quotable \ {General}
    /\ ErrorRead \in [RoomName -> SUBSET {"name", "room"}]

(* What a browser may ask for.                                             *)
MayAsk(q) ==
    \/ /\ q.do = "register"
       /\ q.arg \in [user : Handle, email : Address \cup {NoEmail}]
    \/ /\ q.do = "join_room"
       /\ q.arg \in [room : RoomName, password : Password \cup {NoPassword}]
    \/ q.do = "leave_room"
    \/ q.do = "chat" /\ q.arg \in Text
    \/ q.do = "private_message" /\ q.arg \in [target : Handle, text : Text]

ASSUME PeerAssumption == \A q \in PeerAction : MayAsk(q)

VARIABLES
    ws,           (* wsRef: "connecting", "open", "closing" or "closed"     *)
    timer,        (* reconnectTimerRef is set                               *)
    sock,         (* the connection of the current WebSocket                *)
    hook,         (* profile and email, isRegistered, currentRoom,          *)
                  (* activeDmUser, messages                                 *)
    saved,        (* localStorage: messages by user, handles by address,    *)
                  (* passwords by room                                      *)
    modal,        (* the login dialog: the Google user who is to choose a   *)
                  (* name; fetches of user info under way, for whom, and    *)
                  (* whether the dialog they began in is still shown        *)
    up,           (* requests on their way to the gateway                   *)
    down,         (* events on their way to the browser                     *)
    moves,        (* bound                                                  *)
    mixed,        (* history: users who logged in on a WebSocket that       *)
                  (* somebody else had logged in on                         *)
    astray,       (* history: something has happened on this WebSocket that *)
                  (* may part the room shown from the room the server has   *)
                  (* the user in                                            *)
    missed        (* history: the server took up a private message for the  *)
                  (* user before it had taken up his login                  *)

cookies == <<saved, modal>>
channel == <<ws, timer, sock, up, down>>
histories == <<mixed, astray, missed>>
browser == <<channel, hook, cookies, moves, histories>>
gateway == <<store, session, presence, bridge, registry, drifted, asked>>
cvars == <<gateway, browser>>

NoFetch == [left |-> 0, email |-> NoEmail, shown |-> FALSE]

(* The peer has come first: a guest, whose connection and name the server  *)
(* has accepted.                                                           *)
ClientInit ==
    /\ store = [Defaults EXCEPT !.users = [h \in {PeerName} |-> NoEmail]]
    /\ session = [c \in Client |->
          IF c = Peer THEN [Closed EXCEPT !.open = TRUE, !.username = PeerName]
          ELSE Closed]
    /\ presence = [h \in {PeerName} |-> [room |-> General, status |-> Online]]
    /\ tcp = [c \in Client |-> IF c = Peer THEN "open" ELSE "destroyed"]
    /\ toServer = [c \in Client |-> << >>]
    /\ conn = {Peer}
    /\ usersById = [c \in {Peer} |-> [username |-> PeerName, currentRoom |-> General]]
    /\ usersByName = [h \in {PeerName} |-> Peer]
    /\ rooms = [r \in {General} |-> {Peer}]
    /\ drifted = {}
    /\ asked = 0
    /\ ws = "connecting" /\ timer = FALSE
    /\ sock \in Client \ {Peer}
    /\ hook = [profile |-> Nobody, email |-> NoEmail, registered |-> FALSE,
               room |-> General, dm |-> Nobody, feed |-> << >>]
    /\ saved = [feeds |-> [h \in Handle |-> << >>],
                handles |-> [a \in Address |-> Nobody],
                unlocked |-> [r \in {LowerRoom[n] : n \in RoomName} |-> NoPassword]]
    /\ modal = [google |-> NoEmail, fetch |-> NoFetch]
    /\ up = << >> /\ down = << >>
    /\ moves = 0
    /\ mixed = {} /\ astray = FALSE /\ missed = FALSE

------------------------------------------------------------------------------
(* State of the hook.                                                      *)

(* The hook's state changes, and with it what is persisted under the       *)
(* user's name; kept is the rest of what is persisted.                     *)
Persist(state, kept) ==
    /\ hook' = state
    /\ saved' = IF state.profile = Nobody THEN kept
                ELSE [kept EXCEPT !.feeds[state.profile] =
                        Slice(state.feed, KeptMessages)]

SetHook(state) == Persist(state, saved)

Scope(m) == IF m.private THEN m.target ELSE m.room

(* Repetitions are known by their text alone.                              *)
BadWithMessage(feed, m) ==
    IF \E p \in ToSet(Slice(feed, DedupWindow)) : p.text = m.text
    THEN feed ELSE Append(feed, m)

(* appendMessage: a message like one of the last few is dropped.           *)
WithMessage(feed, m) ==
    IF \E p \in ToSet(Slice(feed, DedupWindow)) :
          p.sender = m.sender /\ p.text = m.text /\ Scope(p) = Scope(m)
    THEN feed ELSE Append(feed, m)

(* room_history, dm_history: what the feed does not have goes to its end.  *)
Merge(feed, loaded) ==
    feed \o Picked(loaded, {i \in DOMAIN loaded : loaded[i] \notin ToSet(feed)})

Request(do, arg) == [do |-> do, arg |-> arg]

(* sendAction: without an open WebSocket nothing is sent, or kept.         *)
SendAction(requests) ==
    /\ ws = "open" => Len(up) + Len(requests) <= MaxUp
    /\ up' = IF ws = "open" THEN up \o requests ELSE up

------------------------------------------------------------------------------
(* The life of the WebSocket.                                              *)

Move == moves < MaxMoves /\ moves' = moves + 1

RegisterRequest(h, a) == Request("register", [user |-> h, email |-> a])

JoinRequest(r, p) == Request("join_room", [room |-> r, password |-> p])

(* What onopen sends: a stored profile, and the room it was in, without a  *)
(* password.                                                               *)
BadGreeting ==
    IF hook.profile = Nobody THEN << >>
    ELSE <<RegisterRequest(hook.profile, hook.email)>>

Greeting ==
    IF hook.profile = Nobody THEN << >>
    ELSE <<RegisterRequest(hook.profile, hook.email)>> \o
            (IF hook.room = General THEN << >>
             ELSE <<JoinRequest(hook.room, NoPassword)>>)

(* The gateway has made a session and onopen runs.                         *)
OnOpen(c) ==
    /\ ws = "connecting" /\ c # Peer
    /\ Connect(c)
    /\ sock' = c /\ ws' = "open"
    /\ up' = Greeting /\ down' = << >>
    /\ astray' = (hook.room \notin ValidRoomName) /\ missed' = FALSE
    /\ UNCHANGED <<timer, hook, cookies, moves, mixed>>

(* No timer is set.                                                        *)
BadOnClose ==
    /\ \/ ws = "closing" /\ UNCHANGED moves
       \/ ws \in {"connecting", "open"} /\ Move
    /\ ws' = "closed"
    /\ up' = << >> /\ down' = << >>
    /\ UNCHANGED <<gateway, timer, sock, hook, cookies, histories>>

(* onclose, after an error or not: a timer is set unless one is running.   *)
(* The gateway may learn of it later.  What is under way is lost; what of  *)
(* it the gateway would still get after this counts as come before it.     *)
OnClose ==
    /\ \/ ws = "closing" /\ UNCHANGED moves
       \/ ws \in {"connecting", "open"} /\ Move
    /\ ws' = "closed" /\ timer' = TRUE
    /\ up' = << >> /\ down' = << >>
    /\ UNCHANGED <<gateway, sock, hook, cookies, histories>>

(* The timer is over: connect.                                             *)
Reconnect ==
    /\ timer
    /\ timer' = FALSE
    /\ ws' = IF ws \in {"closed", "closing"} THEN "connecting" ELSE ws
    /\ UNCHANGED <<gateway, sock, hook, cookies, up, down, moves, histories>>

(* The page is loaded again: its WebSocket is gone, with what was under    *)
(* way (see OnClose), and the state is what was persisted.                 *)
Reload ==
    /\ Move
    /\ ws' = "connecting" /\ timer' = FALSE
    /\ up' = << >> /\ down' = << >>
    /\ hook' = [hook EXCEPT
                  !.registered = hook.profile # Nobody,
                  !.feed = IF hook.profile = Nobody THEN << >>
                           ELSE saved.feeds[hook.profile]]
    /\ modal' = [google |-> NoEmail, fetch |-> NoFetch]
    /\ UNCHANGED <<gateway, sock, saved, histories>>

------------------------------------------------------------------------------
(* The login dialog, shown while the hook is not registered.               *)

(* login: the user's own messages are loaded, and the name is asked for if *)
(* the WebSocket is open.  The room shown stays.                           *)
Login(h, a) ==
    /\ SetHook([hook EXCEPT !.profile = h, !.email = a,
                            !.feed = saved.feeds[h]])
    /\ SendAction(<<RegisterRequest(h, a)>>)
    /\ mixed' = IF ws = "open" /\ hook.profile \notin {Nobody, h}
                THEN mixed \cup {h} ELSE mixed
    /\ astray' = (astray \/ hook.room # General \/ up # << >>
                    \/ session[sock].username # NoHandle)
    /\ UNCHANGED <<gateway, ws, timer, sock, down, missed>>

HandleLocalSubmit(h) ==
    /\ ~hook.registered /\ Move
    /\ Login(h, NoEmail)
    /\ UNCHANGED modal

HandleFinalSubmit(h) ==
    /\ ~hook.registered /\ Move
    /\ modal.google # NoEmail
    /\ Login(h, modal.google)
    /\ UNCHANGED modal

(* The popup hands its token over on up to three ways: a BroadcastChannel, *)
(* a storage event and, if it still knows its opener, a message to it.     *)
(* Each one that arrives starts a fetch.                                   *)
OAuthHandoff(a) ==
    /\ ~hook.registered /\ modal.fetch.left = 0
    /\ Move
    /\ \E n \in Handoffs :
          modal' = [modal EXCEPT !.fetch = [left |-> n, email |-> a, shown |-> TRUE]]
    /\ UNCHANGED <<gateway, channel, hook, saved, histories>>

(* A fetchGoogleUserInfo ends, or fails, whether the dialog is still shown *)
(* or not: who has had a name before is logged in under it.                *)
FetchEnds ==
    LET a == modal.fetch.email
    IN  /\ modal.fetch.left > 0
        /\ \E google \in {modal.google, IF modal.fetch.shown THEN a ELSE modal.google} :
              modal' = [google |-> google,
                        fetch |-> IF modal.fetch.left = 1 THEN NoFetch
                                  ELSE [modal.fetch EXCEPT !.left = @ - 1]]
        /\ \/ saved.handles[a] # Nobody /\ Login(saved.handles[a], a)
           \/ UNCHANGED <<gateway, channel, hook, saved, histories>>
        /\ UNCHANGED moves

------------------------------------------------------------------------------
(* What a logged-in user does.                                             *)

Acts ==
    /\ hook.registered /\ Move
    /\ UNCHANGED <<gateway, ws, timer, sock, modal, down, histories>>

(* The WebSocket stays open for the next user.                             *)
BadLogoutKeepsSocket ==
    /\ hook.registered /\ Move
    /\ SetHook([hook EXCEPT !.profile = Nobody, !.email = NoEmail,
                  !.registered = FALSE, !.dm = Nobody, !.feed = << >>])
    /\ UNCHANGED <<gateway, channel, modal, histories>>

(* The room shown stays.                                                   *)
Logout ==
    /\ hook.registered /\ Move
    /\ SetHook([hook EXCEPT !.profile = Nobody, !.email = NoEmail,
                  !.registered = FALSE, !.dm = Nobody, !.feed = << >>])
    /\ ws' = IF ws \in {"open", "connecting"} THEN "closing" ELSE ws
    /\ UNCHANGED <<gateway, timer, sock, modal, up, down, histories>>

(* joinRoom: the hook's room follows when the server has answered.         *)
AskToJoin(r, p) ==
    /\ Acts
    /\ SendAction(<<JoinRequest(r, p)>>)

(* /join room password                                                     *)
TypeJoin(r, p) ==
    /\ AskToJoin(r, p)
    /\ SetHook([hook EXCEPT !.dm = Nobody])

(* The dialogs that make a room and ask for a password: it is remembered   *)
(* before the gateway has looked at it.                                    *)
Unlock(r, p) ==
    /\ p # NoPassword
    /\ AskToJoin(r, p)
    /\ Persist([hook EXCEPT !.dm = Nobody], [saved EXCEPT !.unlocked[LowerRoom[r]] = p])

(* A room in the list: with the password remembered, or without one if the *)
(* list does not show (yet) that it is protected.                          *)
HandleRoomClick(r) ==
    /\ LowerRoom[r] = LowerRoom[hook.room] => hook.dm # Nobody
    /\ \E p \in {NoPassword, saved.unlocked[LowerRoom[r]]} : AskToJoin(r, p)
    /\ SetHook([hook EXCEPT !.dm = Nobody])

ClientLeaveRoom ==
    /\ Acts
    /\ SendAction(<<Request("leave_room", NoRoom)>>)
    /\ SetHook([hook EXCEPT !.dm = Nobody])

SetActiveDmUser(t) ==
    /\ Acts
    /\ hook.dm # t
    /\ SetHook([hook EXCEPT !.dm = t])
    /\ UNCHANGED up

(* A private message is shown at once, sent or not.                        *)
SendPrivateMessage(t, x) ==
    /\ Acts
    /\ SendAction(<<Request("private_message", [target |-> t, text |-> x])>>)
    /\ SetHook([hook EXCEPT !.feed = WithMessage(@, DirectMessage(hook.profile, t, x))])

(* To the active conversation, or else to the room; /msg to anybody.       *)
SendMessage(x) ==
    \/ hook.dm # Nobody /\ SendPrivateMessage(hook.dm, x)
    \/ \E t \in Contact : SendPrivateMessage(t, x)
    \/ /\ Acts
       /\ hook.dm = Nobody
       /\ SendAction(<<Request("chat", x)>>)
       /\ UNCHANGED <<hook, saved>>

------------------------------------------------------------------------------
(* What the gateway and the server tell the browser.                       *)

Tell(c, events) ==
    down' = IF c = sock /\ ws = "open" /\ session[c].open THEN down \o events ELSE down

Event(ev, arg) == [ev |-> ev, arg |-> arg]

(* An error, and what the page takes it to refuse: the name ('already      *)
(* taken', 'Must register'), the room ('Password', 'Access denied').       *)
Error(refused) == Event("error", refused)

(* Only the room's messages are sent.                                      *)
BadHistories(d, r, h) == <<Event("history", RoomHistory(d, r))>>

(* An empty list of private messages is not sent.                          *)
Histories(d, r, h) ==
    <<Event("history", RoomHistory(d, r))>> \o
    (IF DirectMessages(d, h) = << >> THEN << >>
     ELSE <<Event("history", DirectMessages(d, h))>>)

(* The gateway's handler does what Gateway says and sends what is stored,  *)
(* or does nothing and says why.                                           *)
HandleRegister(c, u, a) ==
    \/ /\ Register(c, u, a, Online)
       /\ Tell(c, Histories(store', session[c].room, HandleOf[u]))
    \/ /\ ~AccountGranted(store, u, a)
       /\ Tell(c, <<Error({"name"})>>)
       /\ UNCHANGED gateway

HandleJoinRoom(c, r, p) ==
    \/ /\ JoinRoom(c, r, p)
       /\ Tell(c, <<Event("history", RoomHistory(store', r))>>)
    \/ /\ ~RoomGranted(store, r, p)
       /\ Tell(c, <<Error({"room"})>>)
       /\ UNCHANGED gateway

HandleLeaveRoom(c) ==
    /\ LeaveRoom(c)
    /\ Tell(c, <<Event("history", RoomHistory(store, General))>>)

(* Without a name, or without text, nothing is said of it.                 *)
HandleMessage(c, said) ==
    /\ \/ said
       \/ session[c].username = NoHandle /\ UNCHANGED gateway
    /\ UNCHANGED down

HandleRequest(c, q) ==
    \/ q.do = "register" /\ HandleRegister(c, q.arg.user, q.arg.email)
    \/ q.do = "join_room" /\ HandleJoinRoom(c, q.arg.room, q.arg.password)
    \/ q.do = "leave_room" /\ HandleLeaveRoom(c)
    \/ q.do = "chat" /\ HandleMessage(c, Chat(c, q.arg))
    \/ /\ q.do = "private_message"
       /\ HandleMessage(c, PrivateMessage(c, q.arg.target, q.arg.text))

OnMessage ==
    /\ up # << >> /\ ws \in {"open", "closing"} /\ session[sock].open
    /\ Len(down) < MaxDown
    /\ HandleRequest(sock, Head(up))
    /\ up' = Tail(up)
    /\ UNCHANGED <<ws, timer, sock, hook, cookies, moves, histories>>

(* A notice that quotes x and y.  It matters if the page reads something   *)
(* in what is quoted.                                                      *)
Notice(x, y) ==
    IF \E q \in {x, y} : q \in Returning \cup Welcoming \/ JoinRead[q] # NoRoom
    THEN <<Event("notice", <<x, y>>)>> ELSE << >>

Hears(r) == sock \in RM!RoomMembers(r)

OnlyIf(told, events) == IF told THEN events ELSE << >>

(* join_room: those left behind are told, then those in the room, the      *)
(* newcomer among them, and then he himself.                               *)
JoinAnswer(c, r) ==
    LET prev == usersById[c].currentRoom
    IN  OnlyIf(prev # r /\ c # sock /\ Hears(prev), Notice(prev, r))
          \o OnlyIf(prev # r /\ (c = sock \/ Hears(r)), Notice(r, r))
          \o OnlyIf(c = sock, <<Event("joined", r)>>)

(* leave_room: the room left, general, and the one who has returned there. *)
LeaveAnswer(c) ==
    LET left == usersById[c].currentRoom
    IN  OnlyIf(c # sock /\ Hears(left), Notice(left, left))
          \o OnlyIf(c = sock \/ Hears(General), <<Event("returned", General)>>)
          \o OnlyIf(c = sock, <<Event("returned", left)>>)

ChatAnswer(c, x) ==
    LET r == usersById[c].currentRoom
    IN  OnlyIf(Hears(r), <<Event("heard", [room |-> r, text |-> x,
                                           sender |-> usersById[c].username])>>)

(* private_message: the recipient, if he is online, and in any case an     *)
(* echo to the sender, which is a notice.                                  *)
PrivateAnswer(c, t, x) ==
    OnlyIf(t \in DOMAIN usersByName /\ usersByName[t] = sock,
           <<Event("whisper", DirectMessage(usersById[c].username, t, x))>>)
      \o OnlyIf(c = sock, Notice(x, x))

(* What the server sends to the browser's connection when it takes up a    *)
(* frame of connection c.                                                  *)
Answer(c, f) ==
    LET known == c \in DOMAIN usersById
    IN  CASE f.type = "USER_REGISTER" ->
               OnlyIf(c = sock,
                      <<IF RM!CanRegister(f.arg) THEN Event("welcome", NoRoom)
                        ELSE Error(IF f.arg \in ValidHandle THEN {"name"} ELSE {})>>)
          [] f.type = "JOIN_ROOM" /\ known ->
               IF f.arg \in ValidRoomName THEN JoinAnswer(c, f.arg)
               ELSE OnlyIf(c = sock, <<Error(ErrorRead[f.arg])>>)
          [] f.type = "LEAVE_ROOM" /\ known ->
               IF usersById[c].currentRoom = General THEN << >> ELSE LeaveAnswer(c)
          [] f.type = "CHAT_MESSAGE" /\ known -> ChatAnswer(c, f.arg)
          [] f.type = "PRIVATE_MESSAGE" /\ known -> PrivateAnswer(c, f.target, f.arg)
          [] f.type \in {"JOIN_ROOM", "CHAT_MESSAGE", "PRIVATE_MESSAGE"} /\ ~known ->
               OnlyIf(c = sock, <<Error({"name"})>>)
          [] OTHER -> << >>

Misses(f) ==
    /\ f.type = "PRIVATE_MESSAGE"
    /\ session[sock].open /\ session[sock].username = f.target
    /\ f.target \in DOMAIN usersByName => usersByName[f.target] # sock

Server(c) ==
    /\ \/ /\ Len(down) < MaxDown
          /\ Take(c)
          /\ Tell(sock, Answer(c, Head(toServer[c])))
          /\ missed' = (missed \/ Misses(Head(toServer[c])))
       \/ TakeDisconnect(c) /\ UNCHANGED <<down, missed>>
    /\ UNCHANGED <<ws, timer, sock, hook, cookies, up, moves, mixed, astray>>

------------------------------------------------------------------------------
(* onmessage: what the browser makes of an event.                          *)

(* A room whose name the pattern does not read in full is not recognised:  *)
(* the message goes to the room shown, from nobody.                        *)
HeardMessage(m) ==
    IF ShownRoom[m.room] = m.room THEN RoomMessage(m.room, m.sender, m.text)
    ELSE RoomMessage(hook.room, Nobody, m)

Listed(e) ==
    /\ e.ev = "history"
    /\ SetHook([hook EXCEPT !.feed = Merge(@, e.arg)])
    /\ UNCHANGED <<modal, astray>>

(* A notice, in which the page has read a room, or NoRoom, and whether it  *)
(* says welcome: then the handle is remembered for the Google user, and    *)
(* the dialog goes.  (A page without a profile can be told so only through *)
(* a membership its descriptor inherited: that is left out.)               *)
Notified(r, welcome) ==
    LET seen == IF r = NoRoom THEN hook ELSE [hook EXCEPT !.room = r, !.dm = Nobody]
        known == welcome /\ hook.profile # Nobody
    IN  /\ Persist(IF known THEN [seen EXCEPT !.registered = TRUE] ELSE seen,
                   IF known /\ hook.email # NoEmail
                   THEN [saved EXCEPT !.handles[hook.email] = hook.profile] ELSE saved)
        /\ modal' = IF known
                    THEN [google |-> NoEmail, fetch |-> [modal.fetch EXCEPT !.shown = FALSE]]
                    ELSE modal

Welcomed(e) ==
    /\ e.ev = "welcome"
    /\ Notified(NoRoom, TRUE)
    /\ UNCHANGED astray

(* 'returned to #general' is looked for last, and overrides.               *)
JoinShows(r) == IF r \in Returning THEN General ELSE ShownRoom[r]

Joined(e) ==
    /\ e.ev = "joined"
    /\ Notified(JoinShows(e.arg), e.arg \in Welcoming)
    /\ astray' = (astray \/ JoinShows(e.arg) # e.arg)

(* Whoever it is that has returned.                                        *)
Returned(e) ==
    /\ e.ev = "returned"
    /\ Notified(General, e.arg \in Welcoming)
    /\ UNCHANGED astray

(* Any other notice, for the words of others that it quotes.               *)
QuoteShows(q) ==
    IF q[1] \in Returning \/ q[2] \in Returning THEN General
    ELSE IF JoinRead[q[1]] # NoRoom THEN JoinRead[q[1]] ELSE JoinRead[q[2]]

Quoted(e) ==
    /\ e.ev = "notice"
    /\ Notified(QuoteShows(e.arg), e.arg[1] \in Welcoming \/ e.arg[2] \in Welcoming)
    /\ astray' = (astray \/ QuoteShows(e.arg) \notin {NoRoom, hook.room})

(* The user it is for is not named in it: the profile stands in.           *)
Spoken(e) ==
    /\ \/ /\ e.ev = "heard"
          /\ SetHook([hook EXCEPT !.feed = WithMessage(@, HeardMessage(e.arg))])
       \/ /\ e.ev = "whisper"
          /\ SetHook([hook EXCEPT !.feed =
                WithMessage(@, DirectMessage(e.arg.sender, hook.profile, e.arg.text))])
    /\ UNCHANGED <<modal, astray>>

(* A refusal of the name brings the dialog back, one of a room shows       *)
(* general; other errors are only a toast.                                 *)
Refused(e) ==
    /\ e.ev = "error"
    /\ LET name == "name" \in e.arg
           room == "room" \in e.arg
       IN  /\ Persist([hook EXCEPT !.registered = @ /\ ~name,
                                   !.room = IF room THEN General ELSE @],
                      IF name /\ hook.email # NoEmail
                      THEN [saved EXCEPT !.handles[hook.email] = Nobody] ELSE saved)
           /\ astray' = (astray \/ (room /\ hook.room # General))
    /\ UNCHANGED modal

Deliver ==
    /\ down # << >> /\ ws = "open"
    /\ LET e == Head(down)
       IN  \/ Listed(e) \/ Spoken(e) \/ Refused(e)
           \/ Welcomed(e) \/ Joined(e) \/ Returned(e) \/ Quoted(e)
    /\ down' = Tail(down)
    /\ UNCHANGED <<gateway, ws, timer, sock, up, moves, mixed, missed>>

------------------------------------------------------------------------------
(* Everybody else, and the whole.                                          *)

PeerDoes ==
    /\ \E q \in PeerAction : HandleRequest(Peer, q)
    /\ UNCHANGED <<ws, timer, sock, hook, cookies, up, moves, histories>>

(* The gateway learns that a WebSocket of the browser's is gone.           *)
GatewayLearns(c) ==
    /\ c # Peer
    /\ c = sock => ws # "open"
    /\ WsClose(c)
    /\ UNCHANGED browser

BridgeCloses(c) == TcpClose(c) /\ UNCHANGED browser

ServerDrops(c) ==
    /\ c # Peer /\ Move
    /\ Drop(c)
    /\ UNCHANGED <<channel, hook, cookies, histories>>

LogsIn ==
    \/ \E h \in Person : HandleLocalSubmit(h) \/ HandleFinalSubmit(h)
    \/ \E a \in Address : OAuthHandoff(a)
    \/ FetchEnds

UserDoes ==
    \/ \E r \in Visited :
          \/ HandleRoomClick(r)
          \/ \E p \in Password \cup {NoPassword} : TypeJoin(r, p) \/ Unlock(r, p)
    \/ ClientLeaveRoom
    \/ \E t \in Contact \cup {Nobody} : SetActiveDmUser(t)
    \/ \E x \in Text : SendMessage(x)
    \/ Logout

ClientNext ==
    \/ Reconnect \/ OnClose \/ Reload \/ LogsIn \/ UserDoes
    \/ OnMessage \/ Deliver \/ PeerDoes
    \/ \E c \in Client :
          OnOpen(c) \/ Server(c) \/ GatewayLearns(c) \/ BridgeCloses(c) \/ ServerDrops(c)

ClientSpec == ClientInit /\ [][ClientNext]_cvars

------------------------------------------------------------------------------
(* The types; a closed WebSocket is always about to be opened again.       *)
ClientTypeOK ==
    /\ ws \in {"connecting", "open", "closing", "closed"}
    /\ timer <=> ws = "closed"
    /\ ws = "open" => session[sock].open
    /\ sock # Peer
    /\ hook.profile \in Handle \cup {Nobody}
    /\ hook.registered => hook.profile # Nobody
    /\ hook.room \in RoomName
    /\ hook.dm \in Handle \cup {Nobody}
    /\ DOMAIN saved.feeds = Handle
    /\ \A h \in Handle : Len(saved.feeds[h]) <= KeptMessages
    /\ modal.fetch.left = 0 \/ modal.fetch.left <= Max(Handoffs)

(* "Persist messages per username so accounts never leak DMs to other      *)
(* users on same device" (usePulseChat.ts:94), and nothing on its way to   *)
(* an open WebSocket is another user's mail, except for users who log in   *)
(* on a WebSocket that somebody else has logged in on.                     *)
OwnMail(h, m) == m.private => h \in {m.sender, m.target}

FeedsApart ==
    /\ \A h \in Handle \ mixed :
          \A m \in ToSet(saved.feeds[h]) : OwnMail(h, m)
    /\ ws = "open" /\ hook.profile \notin mixed =>
          \A i \in DOMAIN down :
             /\ down[i].ev = "whisper" => OwnMail(hook.profile, down[i].arg)
             /\ down[i].ev = "history" =>
                   \A m \in ToSet(down[i].arg) : OwnMail(hook.profile, m)

(* The user is logged in and nothing is under way.                         *)
Quiet ==
    /\ up = << >> /\ down = << >> /\ \A c \in Client : toServer[c] = << >>
    /\ ws = "open" /\ hook.registered /\ sock \in DOMAIN usersById

(* When nothing is under way, the server hears what the user writes from   *)
(* the name and in the room that the page shows, through reconnecting and  *)
(* reloading (onopen registers and joins again).  Not so the name of a     *)
(* user who logged in over another, nor, until the next WebSocket, the     *)
(* room, when                                                              *)
(*   - he logged in with another room shown than general, or on a          *)
(*     WebSocket that had been logged in on or had requests under way: the *)
(*     server then puts him in general, of which the page is not told;     *)
(*   - he joined a room whose name the page reads in part, not at all, or  *)
(*     as a return to general;                                             *)
(*   - an error was taken for the refusal of a room outside general;       *)
(*   - a notice quoted words, his own to somebody or the name of a room,   *)
(*     that read like the answer to a join or a leave; even the next       *)
(*     WebSocket does not help if the room read is none the server admits. *)
ShownAsHeard ==
    Quiet =>
       /\ hook.profile \notin mixed => usersById[sock].username = hook.profile
       /\ ~astray => hook.room = usersById[sock].currentRoom

(* "Recipient is offline; gateway persists to DB for delivery upon login"  *)
(* (reactor_server.cpp:326): once a login is over and nothing is under     *)
(* way, the user has been shown every private message that is kept for him *)
(* from senders who are logged in themselves.                              *)
DmsShown ==
    Quiet => \A m \in ToSet(DirectMessages(store, hook.profile)) :
                m.target = hook.profile /\ m.sender \in DOMAIN usersByName
                    => m \in ToSet(hook.feed)

(* That is so unless the message passed the login: sent after the gateway  *)
(* had listed what was stored, taken up before the server knew the user.   *)
(* Lost connections, reloads and logouts hide none. The instance has no    *)
(* user called as a room is (see WhispersShown).                           *)
MissedOnlyDuringLogin == missed \/ hook.profile \in mixed \/ DmsShown

(* "Deduplicate: ignore if last 15 messages already contain the exact same *)
(* sender, scope, and text" (usePulseChat.ts:154): a private message that  *)
(* the browser takes up is in the feed then, or one just like it. Not so   *)
(* for a user called as a room is: the scope is the room or else the       *)
(* recipient, and what was said in the room stands for the same words.     *)
WhispersShown ==
    [][LET e == Head(down)
       IN  ws = "open" /\ ws' = "open" /\ down # << >> /\ down' = Tail(down)
           /\ e.ev = "whisper"
              => DirectMessage(e.arg.sender, hook.profile, e.arg.text) \in ToSet(hook'.feed)]_cvars
==============================================================================
