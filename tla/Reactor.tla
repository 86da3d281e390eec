------------------------------- MODULE Reactor -------------------------------
(***************************************************************************)
(* The epoll server (src/reactor) with its kernel sockets and its clients. *)
(*                                                                         *)
(* One thread runs everything, so what can surprise a handler is not       *)
(* another thread but itself: a failed send closes a connection in the     *)
(* middle of a broadcast, of the loop over received frames or of a batch   *)
(* of events gathered earlier.  The call stack is therefore explicit: todo *)
(* holds what the thread has still to do before it takes the next event,   *)
(* and one step carries out its head.  Clients act between any two steps.  *)
(*                                                                         *)
(* A client is one TCP connection; a program that reconnects is another    *)
(* client.  Frames arrive whole: reassembly is the subject of FrameBuffer. *)
(***************************************************************************)
EXTENDS Integers, Sequences, FiniteSets

CONSTANTS
    Client,         (* TCP connections clients may open                     *)
    MaxFd,          (* descriptors left to the process by its limit         *)
    SendBuffer,     (* messages a kernel send buffer takes                  *)
    Request,        (* frames a client may send: [type, arg]                *)
    MaxFrames,      (* frames the clients send in all                       *)
    MaxFaults,      (* clients that hang up or reset                        *)
    MaxPauses,      (* silences longer than HEARTBEAT_TIMEOUT_SEC           *)
    MayStop,        (* whether SIGINT or SIGTERM may come                   *)
    Username, ValidUsername, NormalizeName, RoomName, ValidRoomName, General

Fd == 1 .. MaxFd
ListenFd == 0

ASSUME ReactorAssumption ==
    /\ MaxFd \in Nat
    /\ SendBuffer \in Nat \ {0}
    /\ MaxFrames \in Nat /\ MaxFaults \in Nat /\ MaxPauses \in Nat
    /\ MayStop \in BOOLEAN

ASSUME NamesAssumption ==
    /\ ValidUsername \subseteq Username
    /\ ValidRoomName \subseteq RoomName
    /\ General \in ValidRoomName

VARIABLES
    sock,       (* the kernel's side of each client's connection            *)
    backlog,    (* connections not yet accepted                             *)
    got,        (* chat and private messages each client has read           *)
    sends,      (* frames sent so far                                       *)
    faults,     (* hang-ups and resets so far                               *)
    pauses,     (* long silences so far                                     *)
    conns,      (* connections_: descriptor |-> [client, out, epollout]     *)
    active,     (* Metrics::active_connections_                             *)
    quiet,      (* descriptors with idle_seconds() > HEARTBEAT_TIMEOUT_SEC  *)
    running,    (* running_                                                 *)
    batch,      (* events returned by epoll_wait and not yet looked at      *)
    inBatch,    (* the thread is between epoll_wait and check_heartbeats    *)
    todo,       (* what it does before the next event, innermost call first *)
    usersById, usersByName, rooms   (* room_manager_                        *)

RM == INSTANCE RoomManager WITH ConnectionId <- Fd

registry == <<usersById, usersByName, rooms>>
kernel == <<sock, backlog, got, sends, faults>>
server == <<conns, active, quiet, running, pauses>>
vars == <<kernel, server, batch, inBatch, todo, registry>>

Without(f, x) == [y \in DOMAIN f \ {x} |-> f[y]]

------------------------------------------------------------------------------
(* Messages to clients.  Only chat and private messages keep who sent them *)
(* and which of its frames it was.                                         *)
Chat(c, n) == [type |-> "CHAT_MESSAGE", from |-> c, n |-> n]
Private(c, n) == [type |-> "PRIVATE_MESSAGE", from |-> c, n |-> n]
Notice == [type |-> "SERVER_NOTIFICATION"]
Error == [type |-> "ERROR_RESPONSE"]
Answer == [type |-> "HEARTBEAT_ACK"]

(* Calls still to be made.                                                 *)
Accept == [op |-> "accept"]
Read(fd) == [op |-> "read", fd |-> fd]
Write(fd) == [op |-> "write", fd |-> fd]
Close(fds, why) == [op |-> "close", fds |-> fds, why |-> why]
Send(fds, m) == [op |-> "send", fds |-> fds, m |-> m]
Cast(r, m, exclude) == [op |-> "cast", room |-> r, m |-> m, exclude |-> exclude]
Frames(fd, c, fs) == [op |-> "frames", fd |-> fd, client |-> c, frames |-> fs]

(* The loop over received frames, as long as there are any.                *)
FrameLoop(fd, c, fs) == IF fs = <<>> THEN <<>> ELSE <<Frames(fd, c, fs)>>

Call == Head(todo)
Calling(op) == todo # <<>> /\ Call.op = op

(* The head of todo is done, and calls come next.                          *)
Do(calls) == todo' = calls \o Tail(todo)

Init ==
    /\ sock = [c \in Client |-> [state |-> "unused", sent |-> 0, rx |-> <<>>,
                                 tx |-> <<>>, fin |-> FALSE, rst |-> FALSE]]
    /\ backlog = <<>>
    /\ got = [c \in Client |-> <<>>]
    /\ sends = 0 /\ faults = 0 /\ pauses = 0
    /\ conns = [fd \in {} |-> fd]
    /\ active = 0
    /\ quiet = {}
    /\ running = TRUE
    /\ batch = {} /\ inBatch = FALSE
    /\ todo = <<>>
    /\ RM!Init

------------------------------------------------------------------------------
(* The clients and their kernels.                                          *)

Connect(c) ==
    /\ running /\ sock[c].state = "unused"
    /\ sock' = [sock EXCEPT ![c].state = "pending"]
    /\ backlog' = Append(backlog, c)
    /\ UNCHANGED <<got, sends, faults, server, batch, inBatch, todo, registry>>

MaySpeak(c) ==
    /\ sock[c].state \in {"pending", "open"}
    /\ ~sock[c].fin /\ ~sock[c].rst

ClientSend(c) ==
    /\ MaySpeak(c)
    /\ sends < MaxFrames /\ sends' = sends + 1
    /\ \E f \in Request :
          sock' = [sock EXCEPT
                     ![c].sent = @ + 1,
                     ![c].rx = Append(@, [type |-> f.type, arg |-> f.arg,
                                          n |-> sock[c].sent + 1])]
    /\ UNCHANGED <<backlog, got, faults, server, batch, inBatch, todo, registry>>

(* An orderly end of the client's stream, after all it has sent.           *)
HangUp(c) ==
    /\ MaySpeak(c)
    /\ faults < MaxFaults /\ faults' = faults + 1
    /\ sock' = [sock EXCEPT ![c].fin = TRUE]
    /\ UNCHANGED <<backlog, got, sends, server, batch, inBatch, todo, registry>>

(* The connection breaks; the server's next send on it fails.  A client    *)
(* that has hung up may answer data with a reset, which is no new fault.   *)
Reset(c) ==
    /\ sock[c].state \in {"pending", "open"} /\ ~sock[c].rst
    /\ \/ sock[c].fin /\ faults' = faults
       \/ ~sock[c].fin /\ faults < MaxFaults /\ faults' = faults + 1
    /\ sock' = [sock EXCEPT ![c].rst = TRUE]
    /\ UNCHANGED <<backlog, got, sends, server, batch, inBatch, todo, registry>>

Spoken(m) == m.type \in {"CHAT_MESSAGE", "PRIVATE_MESSAGE"}

ClientRead(c) ==
    /\ sock[c].tx # <<>>
    /\ got' = [got EXCEPT ![c] = IF Spoken(Head(sock[c].tx))
                                 THEN Append(@, Head(sock[c].tx)) ELSE @]
    /\ sock' = [sock EXCEPT ![c].tx = Tail(@)]
    /\ UNCHANGED <<backlog, sends, faults, server, batch, inBatch, todo, registry>>

(* Nobody is heard of for longer than HEARTBEAT_TIMEOUT_SEC.               *)
Silence ==
    /\ pauses < MaxPauses /\ pauses' = pauses + 1
    /\ quiet' = DOMAIN conns
    /\ UNCHANGED <<kernel, conns, active, running, batch, inBatch, todo, registry>>

------------------------------------------------------------------------------
(* run(): wait, then each event, then check_heartbeats.                    *)

EventOf(fd) ==
    LET s == sock[conns[fd].client]
    IN  [fd  |-> fd,
         hup |-> s.fin \/ s.rst,
         in  |-> s.rx # <<>> \/ s.fin,
         out |-> conns[fd].epollout /\ (Len(s.tx) < SendBuffer \/ s.rst)]

Ready ==
    {e \in {EventOf(fd) : fd \in DOMAIN conns} : e.hup \/ e.in \/ e.out}
      \cup (IF backlog = <<>> THEN {} ELSE {[fd |-> ListenFd]})

(* A wait that times out with nothing to reap changes nothing.             *)
Wait ==
    /\ running /\ ~inBatch /\ todo = <<>>
    /\ Ready # {} \/ quiet # {}
    /\ batch' = Ready
    /\ inBatch' = TRUE
    /\ UNCHANGED <<kernel, server, todo, registry>>

(* (a mistake) The disconnect is skipped instead of handled.               *)
BadHandlersOf(e) ==
    IF e.fd = ListenFd THEN <<Accept>>
    ELSE IF e.hup THEN <<>>
    ELSE (IF e.in THEN <<Read(e.fd)>> ELSE <<>>)
           \o (IF e.out THEN <<Write(e.fd)>> ELSE <<>>)

HandlersOf(e) ==
    IF e.fd = ListenFd THEN <<Accept>>
    ELSE IF e.hup THEN <<Close({e.fd}, "hangup")>>
    ELSE (IF e.in THEN <<Read(e.fd)>> ELSE <<>>)
           \o (IF e.out THEN <<Write(e.fd)>> ELSE <<>>)

(* The events of a batch were gathered together; the handlers of one may   *)
(* outdate the others.                                                     *)
TakeEvent ==
    /\ inBatch /\ todo = <<>>
    /\ \E e \in batch :
          /\ batch' = batch \ {e}
          /\ todo' = HandlersOf(e)
    /\ UNCHANGED <<kernel, server, inBatch, registry>>

(* (a mistake) Only registered users are reaped.                           *)
BadCheckHeartbeats(due) ==
    LET idle == quiet \cap DOMAIN usersById
    IN  /\ inBatch /\ todo = <<>> /\ batch = {}
        /\ inBatch' = FALSE
        /\ todo' = IF due /\ idle # {} THEN <<Close(idle, "timeout")>> ELSE <<>>
        /\ UNCHANGED <<kernel, server, batch, registry>>

(* check_heartbeats, when HEARTBEAT_INTERVAL_SEC has passed and before.    *)
CheckHeartbeats(due) ==
    /\ inBatch /\ todo = <<>> /\ batch = {}
    /\ inBatch' = FALSE
    /\ todo' = IF due /\ quiet # {} THEN <<Close(quiet, "timeout")>> ELSE <<>>
    /\ UNCHANGED <<kernel, server, batch, registry>>

(* stop(), from the signal handler, wherever the thread happens to be.     *)
Stop ==
    /\ MayStop /\ running
    /\ running' = FALSE
    /\ conns' = [fd \in {} |-> fd]
    /\ quiet' = {}
    /\ backlog' = <<>>
    /\ sock' = [c \in Client |->
                  IF sock[c].state = "unused" THEN sock[c]
                  ELSE [sock[c] EXCEPT !.state = "closed"]]
    /\ UNCHANGED <<got, sends, faults, pauses, active, batch, inBatch, todo, registry>>

------------------------------------------------------------------------------
(* handle_accept: one round of its loop, the lowest free descriptor to the *)
(* longest waiting client; without one (EMFILE) the loop ends.             *)
FreeFds == Fd \ DOMAIN conns

HandleAccept ==
    /\ Calling("accept")
    /\ \/ /\ backlog = <<>> \/ FreeFds = {}
          /\ Do(<<>>)
          /\ UNCHANGED <<sock, backlog, conns, active>>
       \/ /\ backlog # <<>> /\ FreeFds # {}
          /\ LET fd == CHOOSE fd \in FreeFds : \A other \in FreeFds : fd <= other
             IN  conns' = [d \in DOMAIN conns \cup {fd} |->
                             IF d = fd THEN [client |-> Head(backlog),
                                             out |-> <<>>, epollout |-> FALSE]
                                       ELSE conns[d]]
          /\ sock' = [sock EXCEPT ![Head(backlog)].state = "open"]
          /\ backlog' = Tail(backlog)
          /\ active' = active + 1
          /\ UNCHANGED todo
    /\ UNCHANGED <<got, sends, faults, pauses, quiet, running, batch, inBatch, registry>>

(* handle_read up to the loop over frames.  At the end of the stream what  *)
(* was read with it is dropped with the connection; rx keeps it here, as   *)
(* what the server never looked at.                                        *)
HandleRead ==
    /\ Calling("read")
    /\ IF Call.fd \notin DOMAIN conns
       THEN Do(<<>>) /\ UNCHANGED <<sock, quiet>>
       ELSE LET c == conns[Call.fd].client
            IN  /\ quiet' = IF sock[c].rx = <<>> THEN quiet ELSE quiet \ {Call.fd}
                /\ IF sock[c].fin \/ sock[c].rst
                   THEN /\ Do(<<Close({Call.fd}, "end of stream")>>)
                        /\ UNCHANGED sock
                   ELSE /\ Do(FrameLoop(Call.fd, c, sock[c].rx))
                        /\ sock' = [sock EXCEPT ![c].rx = <<>>]
    /\ UNCHANGED <<backlog, got, sends, faults, conns, active, running, pauses,
                   batch, inBatch, registry>>

------------------------------------------------------------------------------
(* Output.                                                                 *)

(* flush_outbound: as much of out as the kernel takes.                     *)
Room(c) == SendBuffer - Len(sock[c].tx)
Taken(c, out) == IF Len(out) < Room(c) THEN Len(out) ELSE Room(c)
Rest(c, out) == SubSeq(out, Taken(c, out) + 1, Len(out))
Flush(c, out) ==
    sock' = [sock EXCEPT ![c].tx = @ \o SubSeq(out, 1, Taken(c, out))]

(* The next of the calls that the loop at the head of todo has to make,    *)
(* without those it has made.                                              *)
Loop(fd) ==
    IF Call.fds = {fd} THEN <<>> ELSE <<[Call EXCEPT !.fds = @ \ {fd}]>>

(* (a mistake) A message overtakes those that wait when the kernel has room. *)
BadSendToFd(fd) ==
    IF fd \notin DOMAIN conns
    THEN Do(Loop(fd)) /\ UNCHANGED <<sock, conns>>
    ELSE LET c == conns[fd].client
             out == <<Call.m>> \o conns[fd].out
         IN  /\ Flush(c, out)
             /\ conns' = [conns EXCEPT
                            ![fd].out = Rest(c, out),
                            ![fd].epollout = @ \/ Rest(c, out) # <<>>]
             /\ Do(Loop(fd))

(* (a mistake) A full send buffer is taken for a write error.              *)
BadSendClosesSlow(fd) ==
    IF fd \notin DOMAIN conns
    THEN Do(Loop(fd)) /\ UNCHANGED <<sock, conns>>
    ELSE LET c == conns[fd].client
             out == Append(conns[fd].out, Call.m)
         IN  /\ Flush(c, out)
             /\ conns' = [conns EXCEPT ![fd].out = Rest(c, out)]
             /\ Do(IF Rest(c, out) = <<>> THEN Loop(fd)
                   ELSE <<Close({fd}, "write error")>> \o Loop(fd))

(* send_message_to_fd: queue, flush at once, and ask for EPOLLOUT if some  *)
(* is left.                                                                *)
SendToFd(fd) ==
    IF fd \notin DOMAIN conns
    THEN Do(Loop(fd)) /\ UNCHANGED <<sock, conns>>
    ELSE LET c == conns[fd].client
             out == Append(conns[fd].out, Call.m)
         IN  IF sock[c].rst
             THEN /\ conns' = [conns EXCEPT ![fd].out = out]
                  /\ Do(<<Close({fd}, "write error")>> \o Loop(fd))
                  /\ UNCHANGED sock
             ELSE /\ Flush(c, out)
                  /\ conns' = [conns EXCEPT
                                 ![fd].out = Rest(c, out),
                                 ![fd].epollout = @ \/ Rest(c, out) # <<>>]
                  /\ Do(Loop(fd))

SendMessage ==
    /\ Calling("send")
    /\ \E fd \in Call.fds : SendToFd(fd)
    /\ UNCHANGED <<backlog, got, sends, faults, active, quiet, running, pauses,
                   batch, inBatch, registry>>

(* broadcast_to_room: the members are listed once, then sent to in the     *)
(* order of a hash set.                                                    *)
Broadcast ==
    /\ Calling("cast")
    /\ LET members == RM!RoomMembers(Call.room) \ Call.exclude
       IN  Do(IF members = {} THEN <<>> ELSE <<Send(members, Call.m)>>)
    /\ UNCHANGED <<kernel, server, batch, inBatch, registry>>

(* (a mistake) EPOLLOUT is given up although some output is left.          *)
BadHandleWrite ==
    /\ Calling("write")
    /\ IF Call.fd \notin DOMAIN conns
       THEN UNCHANGED <<sock, conns>>
       ELSE LET c == conns[Call.fd].client
                out == conns[Call.fd].out
            IN  /\ Flush(c, out)
                /\ conns' = [conns EXCEPT ![Call.fd].out = Rest(c, out),
                                          ![Call.fd].epollout = FALSE]
    /\ Do(<<>>)
    /\ UNCHANGED <<backlog, got, sends, faults, active, quiet, running, pauses,
                   batch, inBatch, registry>>

(* handle_write                                                            *)
HandleWrite ==
    /\ Calling("write")
    /\ IF Call.fd \notin DOMAIN conns
       THEN Do(<<>>) /\ UNCHANGED <<sock, conns>>
       ELSE LET c == conns[Call.fd].client
                out == conns[Call.fd].out
            IN  IF out # <<>> /\ sock[c].rst
                THEN /\ Do(<<Close({Call.fd}, "write error")>>)
                     /\ UNCHANGED <<sock, conns>>
                ELSE /\ Flush(c, out)
                     /\ conns' = [conns EXCEPT
                                    ![Call.fd].out = Rest(c, out),
                                    ![Call.fd].epollout = Rest(c, out) # <<>>]
                     /\ Do(<<>>)
    /\ UNCHANGED <<backlog, got, sends, faults, active, quiet, running, pauses,
                   batch, inBatch, registry>>

------------------------------------------------------------------------------
(* handle_close for one of the descriptors of the call.                    *)

(* (a mistake) The close is not recorded in the metrics.                   *)
BadCloseUncounted(fd) ==
    LET c == conns[fd].client
    IN  /\ \/ /\ RM!UnregisterUser(fd)
              /\ Do(<<Cast(usersById[fd].currentRoom, Notice, {})>> \o Loop(fd))
           \/ /\ fd \notin DOMAIN usersById
              /\ Do(Loop(fd))
              /\ UNCHANGED registry
        /\ conns' = Without(conns, fd)
        /\ quiet' = quiet \ {fd}
        /\ active' = active
        /\ sock' = [sock EXCEPT ![c].state = "closed"]

(* (a mistake) The close is recorded twice.                                *)
BadCloseCountedTwice(fd) ==
    LET c == conns[fd].client
    IN  /\ \/ /\ RM!UnregisterUser(fd)
              /\ Do(<<Cast(usersById[fd].currentRoom, Notice, {})>> \o Loop(fd))
           \/ /\ fd \notin DOMAIN usersById
              /\ Do(Loop(fd))
              /\ UNCHANGED registry
        /\ conns' = Without(conns, fd)
        /\ quiet' = quiet \ {fd}
        /\ active' = active - 2
        /\ sock' = [sock EXCEPT ![c].state = "closed"]

(* (a mistake) The user is not taken out of the registry.                  *)
BadCloseKeepsUser(fd) ==
    LET c == conns[fd].client
    IN  /\ Do(Loop(fd))
        /\ UNCHANGED registry
        /\ conns' = Without(conns, fd)
        /\ quiet' = quiet \ {fd}
        /\ active' = active - 1
        /\ sock' = [sock EXCEPT ![c].state = "closed"]

(* The user, if the connection has one, leaves the registry first and its  *)
(* room is told last.                                                      *)
CloseConnection(fd) ==
    LET c == conns[fd].client
    IN  /\ \/ /\ RM!UnregisterUser(fd)
              /\ Do(<<Cast(usersById[fd].currentRoom, Notice, {})>> \o Loop(fd))
           \/ /\ fd \notin DOMAIN usersById
              /\ Do(Loop(fd))
              /\ UNCHANGED registry
        /\ conns' = Without(conns, fd)
        /\ quiet' = quiet \ {fd}
        /\ active' = active - 1
        /\ sock' = [sock EXCEPT ![c].state = "closed"]

HandleClose ==
    /\ Calling("close")
    /\ \E fd \in Call.fds :
          IF fd \in DOMAIN conns
          THEN CloseConnection(fd)
          ELSE Do(Loop(fd)) /\ UNCHANGED <<conns, quiet, active, sock, registry>>
    /\ UNCHANGED <<backlog, got, sends, faults, running, pauses, batch, inBatch>>

------------------------------------------------------------------------------
(* The loop over received frames, and process_message.                     *)

(* The loop holds a reference to the connection.  Once a call it made has  *)
(* destroyed the connection, it reads freed memory.                        *)
Dangling ==
    /\ Calling("frames")
    /\ ~(Call.fd \in DOMAIN conns /\ conns[Call.fd].client = Call.client)

(* The freed buffer looks empty or corrupted: no frame is found in it, and *)
(* the error for a corrupted frame finds no connection to go to.           *)
AbandonFrames ==
    /\ Dangling
    /\ Do(<<>>)
    /\ UNCHANGED <<kernel, server, batch, inBatch, registry>>

(* The frame being processed: the next one of the buffer, freed or not.    *)
Processing(types) ==
    /\ Calling("frames")
    /\ Head(Call.frames).type \in types

Frame == Head(Call.frames)
Me == Call.fd
IsUser == Me \in DOMAIN usersById

(* The frame's calls, then the rest of the frames.                         *)
Process(calls) == Do(calls \o FrameLoop(Me, Call.client, Tail(Call.frames)))

ProcessRegister ==
    /\ Processing({"USER_REGISTER"})
    /\ \/ /\ RM!RegisterUser(Me, Frame.arg)
          /\ Process(<<Send({Me}, Notice), Cast(General, Notice, {Me})>>)
       \/ /\ ~RM!CanRegister(Frame.arg)
          /\ Process(<<Send({Me}, Error)>>)
          /\ UNCHANGED registry

ProcessChat ==
    /\ Processing({"CHAT_MESSAGE"})
    /\ Process(IF IsUser
               THEN <<Cast(usersById[Me].currentRoom, Chat(Call.client, Frame.n), {})>>
               ELSE <<Send({Me}, Error)>>)
    /\ UNCHANGED registry

ProcessJoin ==
    /\ Processing({"JOIN_ROOM"})
    /\ \/ /\ RM!JoinRoom(Me, Frame.arg)
          /\ Process(<<Cast(usersById[Me].currentRoom, Notice, {}),
                       Cast(Frame.arg, Notice, {}), Send({Me}, Notice)>>)
       \/ /\ ~(IsUser /\ Frame.arg \in ValidRoomName)
          /\ Process(<<Send({Me}, Error)>>)
          /\ UNCHANGED registry
       \/ /\ IsUser /\ Frame.arg \in ValidRoomName
          /\ usersById[Me].currentRoom = Frame.arg
          /\ Process(<<Send({Me}, Notice)>>)
          /\ UNCHANGED registry

ProcessLeave ==
    /\ Processing({"LEAVE_ROOM"})
    /\ \/ /\ RM!LeaveRoom(Me)
          /\ Process(<<Cast(usersById[Me].currentRoom, Notice, {}),
                       Cast(General, Notice, {}), Send({Me}, Notice)>>)
       \/ /\ IsUser /\ usersById[Me].currentRoom = General
          /\ Process(<<Send({Me}, Notice)>>)
          /\ UNCHANGED registry
       \/ /\ ~IsUser
          /\ Process(<<>>)
          /\ UNCHANGED registry

(* The argument is the name before the colon, empty if there is none.      *)
ProcessPrivate ==
    /\ Processing({"PRIVATE_MESSAGE"})
    /\ LET name == NormalizeName[Frame.arg]
       IN  Process(IF ~IsUser \/ Frame.arg = ""
                   THEN <<Send({Me}, Error)>>
                   ELSE (IF name \in DOMAIN usersByName
                         THEN <<Send({usersByName[name]}, Private(Call.client, Frame.n))>>
                         ELSE <<>>)
                          \o <<Send({Me}, Notice)>>)
    /\ UNCHANGED registry

(* LIST_ROOMS, LIST_USERS, HEARTBEAT, GET_METRICS and unsupported types    *)
(* are answered to the sender alone.                                       *)
ProcessQuery ==
    /\ Processing({"LIST_ROOMS", "LIST_USERS", "HEARTBEAT", "GET_METRICS"})
    /\ Process(<<Send({Me}, Answer)>>)
    /\ UNCHANGED registry

ProcessDisconnect ==
    /\ Processing({"DISCONNECT"})
    /\ Process(<<Close({Me}, "disconnect")>>)
    /\ UNCHANGED registry

(* extract_message reports a corrupted header: the loop ends.              *)
EndCorrupted ==
    /\ Processing({"CORRUPTED"})
    /\ Do(<<Send({Me}, Error), Close({Me}, "violation")>>)
    /\ UNCHANGED registry

ProcessMessage ==
    /\ \/ ProcessRegister \/ ProcessChat \/ ProcessJoin \/ ProcessLeave
       \/ ProcessPrivate \/ ProcessQuery \/ ProcessDisconnect
       \/ EndCorrupted
    /\ UNCHANGED <<kernel, server, batch, inBatch>>

------------------------------------------------------------------------------
ServerStep ==
    \/ Wait \/ TakeEvent \/ (\E due \in BOOLEAN : CheckHeartbeats(due))
    \/ HandleAccept \/ HandleRead \/ HandleWrite \/ HandleClose
    \/ SendMessage \/ Broadcast \/ AbandonFrames \/ ProcessMessage

ClientStep ==
    \E c \in Client :
        Connect(c) \/ ClientSend(c) \/ HangUp(c) \/ Reset(c) \/ ClientRead(c)

Next == ServerStep \/ ClientStep \/ Silence \/ Stop

Spec == Init /\ [][Next]_vars

(* The thread is always scheduled and no handler blocks; the clock the     *)
(* heartbeat check reads never stops.  Of the clients only those that go   *)
(* on reading are assumed to.                                              *)
Fairness ==
    /\ WF_vars(ServerStep)
    /\ SF_vars(CheckHeartbeats(TRUE))
    /\ \A c \in Client : WF_vars(ClientRead(c))

FairSpec == Spec /\ Fairness

------------------------------------------------------------------------------
(* Shapes of the server's state and of what it has still to do.            *)
CallOK(call) ==
    CASE call.op = "accept" -> TRUE
      [] call.op \in {"read", "write"} -> call.fd \in Fd
      [] call.op = "close" -> call.fds # {} /\ call.fds \subseteq Fd
      [] call.op = "send" -> call.fds # {} /\ call.fds \subseteq Fd
      [] call.op = "cast" -> call.room \in RoomName /\ call.exclude \subseteq Fd
      [] call.op = "frames" -> call.fd \in Fd /\ call.client \in Client /\ call.frames # <<>>

TypeOK ==
    /\ \A c \in Client :
          /\ sock[c].state \in {"unused", "pending", "open", "closed"}
          /\ Len(sock[c].tx) <= SendBuffer
          /\ sock[c].sent \in 0 .. MaxFrames
    /\ DOMAIN conns \subseteq Fd
    /\ \A fd \in DOMAIN conns : /\ conns[fd].client \in Client
                                /\ conns[fd].epollout \in BOOLEAN
    /\ quiet \subseteq DOMAIN conns
    /\ active \in Nat
    /\ \A e \in batch : e.fd \in Fd \cup {ListenFd}
    /\ \A i \in DOMAIN todo : CallOK(todo[i])
    /\ RM!TypeOK

(* No output is forgotten: bytes that flush_outbound left behind wait for  *)
(* EPOLLOUT, unless the connection is broken and about to be closed.       *)
PendingAwaitsEpollout ==
    \A fd \in DOMAIN conns :
        conns[fd].out # <<>> =>
            conns[fd].epollout \/ sock[conns[fd].client].rst

(* Accepting, nested closing and the reuse of descriptors neither lose a   *)
(* connection nor share one, and the count of active connections that      *)
(* GET_METRICS reports is exact as long as the server runs.                *)
ConnectionsExact ==
    /\ \A c \in Client :
          Cardinality({fd \in DOMAIN conns : conns[fd].client = c}) =
             IF sock[c].state = "open" THEN 1 ELSE 0
    /\ running => active = Cardinality(DOMAIN conns)

(* What has been sent to c, without the notices and answers it has read.   *)
Heard(c) ==
    LET queued == {fd \in DOMAIN conns : conns[fd].client = c}
    IN  got[c] \o sock[c].tx
          \o (IF queued = {} THEN <<>> ELSE conns[CHOOSE fd \in queued : TRUE].out)

(* All clients hear one conversation: nothing twice, each speaker's        *)
(* messages in the order sent, and any two messages that two clients both  *)
(* hear in the same order, whatever flush_outbound could write when.       *)
OneConversation ==
    \A c, d \in Client :
        LET a == Heard(c)
            b == Heard(d)
        IN  \A i, j \in DOMAIN a :
               i < j /\ Spoken(a[i]) /\ Spoken(a[j]) =>
                 /\ a[i] # a[j]
                 /\ a[i].from = a[j].from => a[i].n < a[j].n
                 /\ \A k, l \in DOMAIN b : b[k] = a[i] /\ b[l] = a[j] => k < l

(* A user whose connection is gone.                                        *)
Ghost(fd) == fd \in DOMAIN usersById \ DOMAIN conns

(* The registry outlives a connection in two ways only: stop() drops the   *)
(* connections and leaves the registry alone, and the frame loop registers *)
(* a user from the buffer of a connection it has already closed.           *)
GhostOnlyFromFreedBuffer ==
    [][\A fd \in Fd : Ghost(fd)' /\ ~Ghost(fd) => Dangling \/ ~running']_vars

(* A close for a failed write, a read end of stream or a heartbeat timeout *)
(* hits the connection it was meant for: one that is broken, has ended, or *)
(* has been silent, even when earlier closes of the same loop closed       *)
(* others.  (For hang-ups see CloseOnlyHungUp.)                            *)
CloseHasCause ==
    [][\A fd \in DOMAIN conns :
          LET s == sock[conns[fd].client]
          IN  running' /\ fd \notin DOMAIN conns' =>
                 /\ Call.why = "write error" => s.rst
                 /\ Call.why = "end of stream" => s.fin \/ s.rst
                 /\ Call.why = "timeout" => fd \in quiet]_vars

(* "If socket experiences error or disconnect ...: cleans up connection"   *)
(* (docs/architecture.md:69): the connection cleaned up on such an event   *)
(* is the one that experienced it.                                         *)
CloseOnlyHungUp ==
    [][\A fd \in DOMAIN conns :
          running' /\ fd \notin DOMAIN conns' /\ Call.why = "hangup" =>
             sock[conns[fd].client].fin \/ sock[conns[fd].client].rst]_vars

(* Whatever the order of events, output for a client that reads is written *)
(* or its connection closed.                                               *)
OutputDrains ==
    \A fd \in Fd :
        (fd \in DOMAIN conns /\ conns[fd].out # <<>>)
            ~> (fd \notin DOMAIN conns \/ conns[fd].out = <<>>)

(* A client that hangs up or breaks off does not stay connected.           *)
HangUpNoticed ==
    \A c \in Client :
        (sock[c].state = "open" /\ (sock[c].fin \/ sock[c].rst))
            ~> sock[c].state = "closed"

(* A silent connection speaks again or is reaped.                          *)
SilenceEnds == \A fd \in Fd : fd \in quiet ~> fd \notin quiet
==============================================================================
