------------------------------- MODULE Classic -------------------------------
(***************************************************************************)
(* The thread-per-client server (src/classic): a listener, one worker for  *)
(* each accepted connection, the heartbeat reaper, main, which waits for   *)
(* the listener, and stop(), run by main or by a signal handler.  A step   *)
(* is what a thread does between two locks or system calls; todo[t] is the *)
(* call stack of thread t, innermost call first.                           *)
(*                                                                         *)
(* Threads know connections by descriptor, the kernel by open file.  A     *)
(* system call that has begun stays with its file when the descriptor is   *)
(* closed, or closed and given to another connection; the next call with   *)
(* the same descriptor finds whoever has it then.                          *)
(*                                                                         *)
(* Frames arrive whole, as in Reactor; of the messages to clients only the *)
(* room they take up is kept.                                              *)
(***************************************************************************)
EXTENDS Integers, Sequences, FiniteSets

CONSTANTS
    Client,         (* TCP connections clients may open; a worker has the   *)
                    (* name of its connection                               *)
    Reaper,         (* heartbeat_reaper_loop                                *)
    MaxFd,          (* descriptors the process may have for clients         *)
    SendBuffer,     (* messages a kernel send buffer takes                  *)
    Request,        (* frames a client may send: [type, arg]                *)
    MaxEvents,      (* frames sent, hang-ups, long silences and signals     *)
    Username, ValidUsername, NormalizeName, RoomName, ValidRoomName, General

Fd == 1 .. MaxFd
Thread == Client \cup {Reaper}

ASSUME ClassicAssumption ==
    /\ Reaper \notin Client
    /\ MaxFd \in Nat
    /\ SendBuffer \in Nat \ {0}
    /\ MaxEvents \in Nat

VARIABLES
    sock,       (* the kernel's side of each client's connection            *)
    backlog,    (* connections not yet accepted                             *)
    events,     (* how many of those there were so far                      *)
    file,       (* the process's descriptor table: descriptor |-> client    *)
    clients,    (* clients_: descriptor |-> the context made for a client   *)
    quiet,      (* contexts whose last_activity is too long ago             *)
    listening,  (* accept_loop has not ended                                *)
    running,    (* running_                                                 *)
    shut,       (* stop() has closed the clients                            *)
    handler,    (* signal_handler: "none", "stopping" in stop(), "stuck"    *)
                (* there, or "terminated", the process with it              *)
    hand,       (* descriptors accepted and not yet in clients_             *)
    fdOf,       (* client_handler's argument, by worker                     *)
    taken,      (* clients whose descriptor another thread than their       *)
                (* worker closed in handle_disconnect (history)             *)
    todo,       (* what each thread has still to do                         *)
    usersById, usersByName, rooms   (* room_manager_                        *)

RM == INSTANCE RoomManager WITH ConnectionId <- Fd

registry == <<usersById, usersByName, rooms>>
kernel == <<sock, backlog, events>>
table == <<file, clients, quiet, hand, fdOf, taken>>
control == <<listening, running, shut, handler>>
vars == <<kernel, table, control, todo, registry>>

Nothing == [x \in {} |-> x]
Without(f, x) == [y \in DOMAIN f \ {x} |-> f[y]]
With(f, x, v) == [y \in DOMAIN f \cup {x} |-> IF y = x THEN v ELSE f[y]]

------------------------------------------------------------------------------
(* Calls still to be made.                                                 *)
Loop == [op |-> "loop"]
Recv(c) == [op |-> "recv", file |-> c]
Frames(fs) == [op |-> "frames", frames |-> fs]
Carry(f) == [op |-> "carry", frame |-> f]
Send(fds) == [op |-> "send", fds |-> fds]
Lock(fd, c) == [op |-> "lock", fd |-> fd, ctx |-> c]
Write(c, f) == [op |-> "write", ctx |-> c, file |-> f]
Cast(r, exclude) == [op |-> "cast", room |-> r, exclude |-> exclude]
Reap(fds) == [op |-> "reap", fds |-> fds]
Disconnect(fd) == [op |-> "disconnect", fd |-> fd]
Leave(fd) == [op |-> "leave", fd |-> fd]
Unregister(fd) == [op |-> "unregister", fd |-> fd]
Close(fd) == [op |-> "close", fd |-> fd]

(* The rest of a loop over a sequence or a set, as long as there is one.   *)
FrameLoop(fs) == IF fs = <<>> THEN <<>> ELSE <<Frames(fs)>>
SendLoop(fds) == IF fds = {} THEN <<>> ELSE <<Send(fds)>>
ReapLoop(fds) == IF fds = {} THEN <<>> ELSE <<Reap(fds)>>

Call(t) == Head(todo[t])
Calling(t, op) == todo[t] # <<>> /\ Call(t).op = op

(* The head of t's stack is done, and calls come next.                     *)
Do(t, calls) == todo' = [todo EXCEPT ![t] = calls \o Tail(@)]

(* A system call of some thread goes on with the file of c.                *)
Pinned(c) ==
    \E t \in Thread :
        /\ Calling(t, "recv") \/ Calling(t, "write")
        /\ Call(t).file = c

(* The connection exists: closing its descriptor ends it only when no      *)
(* system call uses it any more.                                           *)
Alive(c) ==
    \/ \E i \in DOMAIN backlog : backlog[i] = c
    \/ \E fd \in DOMAIN file : file[fd] = c
    \/ Pinned(c)

Init ==
    /\ sock = [c \in Client |-> [used |-> FALSE, rx |-> <<>>, tx |-> 0,
                                 fin |-> FALSE, down |-> FALSE]]
    /\ backlog = <<>>
    /\ events = 0
    /\ file = [fd \in {} |-> fd]
    /\ clients = [fd \in {} |-> fd]
    /\ quiet = {} /\ hand = {} /\ taken = {}
    /\ listening = TRUE /\ running = TRUE /\ shut = FALSE /\ handler = "none"
    /\ fdOf = [c \in {} |-> c]
    /\ todo = [t \in Thread |-> <<>>]
    /\ RM!Init

------------------------------------------------------------------------------
(* The clients and their kernels.                                          *)

Connect(c) ==
    /\ running /\ ~sock[c].used
    /\ sock' = [sock EXCEPT ![c].used = TRUE]
    /\ backlog' = Append(backlog, c)
    /\ UNCHANGED <<events, table, control, todo, registry>>

MaySpeak(c) == Alive(c) /\ ~sock[c].fin /\ ~sock[c].down

ClientSend(c) ==
    /\ MaySpeak(c)
    /\ events < MaxEvents /\ events' = events + 1
    /\ \E f \in Request : sock' = [sock EXCEPT ![c].rx = Append(@, f)]
    /\ UNCHANGED <<backlog, table, control, todo, registry>>

(* The client closes its socket.                                           *)
HangUp(c) ==
    /\ MaySpeak(c)
    /\ events < MaxEvents /\ events' = events + 1
    /\ sock' = [sock EXCEPT ![c].fin = TRUE]
    /\ UNCHANGED <<backlog, table, control, todo, registry>>

ClientRead(c) ==
    /\ sock[c].tx > 0 /\ ~sock[c].fin
    /\ sock' = [sock EXCEPT ![c].tx = 0]
    /\ UNCHANGED <<backlog, events, table, control, todo, registry>>

(* Nobody is heard of for longer than HEARTBEAT_TIMEOUT_SEC.               *)
Silence ==
    /\ events < MaxEvents /\ events' = events + 1
    /\ quiet' = {clients[fd] : fd \in DOMAIN clients}
    /\ UNCHANGED <<sock, backlog, file, clients, hand, fdOf, taken, control,
                   todo, registry>>

------------------------------------------------------------------------------
(* accept_loop: the kernel gives out the lowest free descriptor; the       *)
(* context is put into clients_ under the lock; then the worker starts.    *)

(* clients_mutex_ is held for less than a step, unless a signal handler    *)
(* keeps its holder from going on.                                         *)
ClientsMutexFree == handler # "stuck"

FreeFds == Fd \ DOMAIN file

Accept ==
    /\ listening /\ running /\ hand = {} /\ backlog # <<>>
    /\ \E fd \in FreeFds :
          /\ \A other \in FreeFds : fd <= other
          /\ file' = With(file, fd, Head(backlog))
          /\ hand' = {fd}
    /\ backlog' = Tail(backlog)
    /\ UNCHANGED <<sock, events, clients, quiet, fdOf, taken, control, todo, registry>>

(* accept fails, for want of a descriptor or of memory, the process's or   *)
(* the system's, and the listener's loop ends.                             *)
AcceptFails ==
    /\ listening /\ running /\ hand = {} /\ backlog # <<>>
    /\ listening' = FALSE
    /\ UNCHANGED <<kernel, table, running, shut, handler, todo, registry>>

StartWorker ==
    /\ ClientsMutexFree
    /\ \E fd \in hand :
        LET c == file[fd]
        IN  /\ clients' = With(clients, fd, c)
            /\ fdOf' = With(fdOf, c, fd)
            /\ todo' = [todo EXCEPT ![c] = <<Loop>>]
            /\ hand' = {}
            /\ UNCHANGED <<kernel, file, quiet, taken, control, registry>>

------------------------------------------------------------------------------
(* client_handler.                                                         *)

Me(t) == fdOf[t]

(* The head of the loop: the end, or a recv on what the descriptor stands  *)
(* for by now; without a file it fails (EBADF) and the loop ends.          *)
BeginRecv(t) ==
    /\ Calling(t, "loop")
    /\ Do(t, IF running /\ Me(t) \in DOMAIN file
             THEN <<Recv(file[Me(t)])>>
             ELSE <<Disconnect(Me(t))>>)
    /\ UNCHANGED <<kernel, table, control, registry>>

(* recv returns: bytes, with the update of last_activity, or the end.      *)
EndRecv(t) ==
    /\ Calling(t, "recv")
    /\ LET c == Call(t).file
       IN  IF sock[c].rx # <<>>
           THEN /\ ClientsMutexFree
                /\ Do(t, <<Frames(sock[c].rx), Loop>>)
                /\ sock' = [sock EXCEPT ![c].rx = <<>>]
                /\ quiet' = IF Me(t) \in DOMAIN clients
                            THEN quiet \ {clients[Me(t)]} ELSE quiet
           ELSE /\ sock[c].fin \/ sock[c].down
                /\ Do(t, <<Disconnect(Me(t))>>)
                /\ UNCHANGED <<sock, quiet>>
    /\ UNCHANGED <<backlog, events, file, clients, hand, fdOf, taken, control, registry>>

------------------------------------------------------------------------------
(* process_client_message.  Each call of the registry is one step; what a  *)
(* command does after get_username is carried out later.                   *)

Frame(t) == Head(Call(t).frames)
Processing(t, types) == Calling(t, "frames") /\ Frame(t).type \in types
IsUser(fd) == fd \in DOMAIN usersById

(* The frame's calls, then the rest of the frames.                         *)
Process(t, calls) == Do(t, calls \o FrameLoop(Tail(Call(t).frames)))

ProcessRegister(t) ==
    /\ Processing(t, {"USER_REGISTER"})
    /\ \/ /\ RM!RegisterUser(Me(t), Frame(t).arg)
          /\ Process(t, <<Send({Me(t)}), Cast(General, {Me(t)})>>)
       \/ /\ ~RM!CanRegister(Frame(t).arg)
          /\ Process(t, <<Send({Me(t)})>>)
          /\ UNCHANGED registry

AskUsername(t) ==
    /\ Processing(t, {"CHAT_MESSAGE", "JOIN_ROOM", "LEAVE_ROOM", "PRIVATE_MESSAGE"})
    /\ Process(t, IF IsUser(Me(t)) THEN <<Carry(Frame(t))>>
                  ELSE IF Frame(t).type = "LEAVE_ROOM" THEN <<>>
                  ELSE <<Send({Me(t)})>>)
    /\ UNCHANGED registry

Carrying(t, type) == Calling(t, "carry") /\ Call(t).frame.type = type

(* get_user_room(...).value_or("general")                                  *)
RoomNow(fd) == IF IsUser(fd) THEN usersById[fd].currentRoom ELSE General

CarryChat(t) ==
    /\ Carrying(t, "CHAT_MESSAGE")
    /\ Do(t, <<Cast(RoomNow(Me(t)), {})>>)
    /\ UNCHANGED registry

CarryJoin(t) ==
    /\ Carrying(t, "JOIN_ROOM")
    /\ LET room == Call(t).frame.arg
       IN  \/ /\ RM!JoinRoom(Me(t), room)
              /\ Do(t, <<Cast(RoomNow(Me(t)), {}), Cast(room, {}), Send({Me(t)})>>)
           \/ /\ \/ ~IsUser(Me(t)) \/ room \notin ValidRoomName
                 \/ RoomNow(Me(t)) = room
              /\ Do(t, <<Send({Me(t)})>>)
              /\ UNCHANGED registry

CarryLeave(t) ==
    /\ Carrying(t, "LEAVE_ROOM")
    /\ \/ /\ RM!LeaveRoom(Me(t))
          /\ Do(t, <<Cast(RoomNow(Me(t)), {}), Cast(General, {}), Send({Me(t)})>>)
       \/ /\ RoomNow(Me(t)) = General
          /\ Do(t, <<Send({Me(t)})>>)
          /\ UNCHANGED registry

CarryPrivate(t) ==
    /\ Carrying(t, "PRIVATE_MESSAGE")
    /\ LET name == NormalizeName[Call(t).frame.arg]
       IN  Do(t, IF name \in DOMAIN usersByName
                 THEN <<Send({usersByName[name]}), Send({Me(t)})>>
                 ELSE <<Send({Me(t)})>>)
    /\ UNCHANGED registry

(* LIST_ROOMS, LIST_USERS, HEARTBEAT, GET_METRICS and unsupported types    *)
(* are answered to the sender alone.                                       *)
ProcessQuery(t) ==
    /\ Processing(t, {"HEARTBEAT"})
    /\ Process(t, <<Send({Me(t)})>>)
    /\ UNCHANGED registry

(* DISCONNECT: handle_disconnect, and on with the loop.                    *)
ProcessDisconnect(t) ==
    /\ Processing(t, {"DISCONNECT"})
    /\ Process(t, <<Disconnect(Me(t))>>)
    /\ UNCHANGED registry

(* A corrupted header: an error, and the end of both loops.                *)
EndCorrupted(t) ==
    /\ Processing(t, {"CORRUPTED"})
    /\ todo' = [todo EXCEPT ![t] = <<Send({Me(t)}), Disconnect(Me(t))>>]
    /\ UNCHANGED registry

ProcessClientMessage(t) ==
    /\ \/ ProcessRegister(t) \/ AskUsername(t) \/ ProcessQuery(t)
       \/ CarryChat(t) \/ CarryJoin(t) \/ CarryLeave(t) \/ CarryPrivate(t)
       \/ ProcessDisconnect(t) \/ EndCorrupted(t)
    /\ UNCHANGED <<kernel, table, control>>

------------------------------------------------------------------------------
(* Output.                                                                 *)

(* send_message_to_fd: the context is looked up under clients_mutex_, for  *)
(* one of the descriptors of the loop; nothing is sent without one.        *)
LookUp(t) ==
    /\ Calling(t, "send") /\ ClientsMutexFree
    /\ \E fd \in Call(t).fds :
          Do(t, (IF fd \in DOMAIN clients THEN <<Lock(fd, clients[fd])>> ELSE <<>>)
                  \o SendLoop(Call(t).fds \ {fd}))
    /\ UNCHANGED <<kernel, table, control, registry>>

Locked(c) == \E t \in Thread : Calling(t, "write") /\ Call(t).ctx = c

(* The context's send_mutex is taken and ::send begins, on what the        *)
(* descriptor stands for by now; without a file it fails at once.          *)
BeginSend(t) ==
    /\ Calling(t, "lock")
    /\ ~Locked(Call(t).ctx)
    /\ Do(t, IF Call(t).fd \in DOMAIN file
             THEN <<Write(Call(t).ctx, file[Call(t).fd])>> ELSE <<>>)
    /\ UNCHANGED <<kernel, table, control, registry>>

(* A blocking send returns when the buffer has taken the message, or the   *)
(* connection is over; an error is left to the receiving side to notice.   *)
EndSend(t) ==
    /\ Calling(t, "write")
    /\ LET c == Call(t).file
       IN  \/ /\ sock[c].tx < SendBuffer
              /\ sock' = [sock EXCEPT ![c].tx = @ + 1]
           \/ /\ sock[c].fin \/ sock[c].down
              /\ UNCHANGED sock
    /\ Do(t, <<>>)
    /\ UNCHANGED <<backlog, events, table, control, registry>>

(* broadcast_to_room: the members are listed once, then sent to in the     *)
(* order of a hash set.                                                    *)
Broadcast(t) ==
    /\ Calling(t, "cast")
    /\ Do(t, SendLoop(RM!RoomMembers(Call(t).room) \ Call(t).exclude))
    /\ UNCHANGED <<kernel, table, control, registry>>

------------------------------------------------------------------------------
(* handle_disconnect: name, room and removal are three calls of the        *)
(* registry, then the descriptor goes if clients_ has it, and at last the  *)
(* room is told.                                                           *)

(* (a mistake) Nothing is done for a descriptor that clients_ has not.     *)
BadHandleDisconnect(t) ==
    /\ Calling(t, "disconnect")
    /\ LET fd == Call(t).fd
       IN  Do(t, IF fd \notin DOMAIN clients THEN <<>>
                 ELSE IF IsUser(fd) THEN <<Leave(fd)>> ELSE <<Close(fd)>>)
    /\ UNCHANGED <<kernel, table, control, registry>>

HandleDisconnect(t) ==
    /\ Calling(t, "disconnect")
    /\ LET fd == Call(t).fd
       IN  Do(t, IF IsUser(fd) THEN <<Leave(fd)>> ELSE <<Close(fd)>>)
    /\ UNCHANGED <<kernel, table, control, registry>>

AskRoom(t) ==
    /\ Calling(t, "leave")
    /\ LET fd == Call(t).fd
       IN  Do(t, <<Unregister(fd), Close(fd), Cast(RoomNow(fd), {})>>)
    /\ UNCHANGED <<kernel, table, control, registry>>

UnregisterUser(t) ==
    /\ Calling(t, "unregister")
    /\ \/ RM!UnregisterUser(Call(t).fd)
       \/ ~IsUser(Call(t).fd) /\ UNCHANGED registry
    /\ Do(t, <<>>)
    /\ UNCHANGED <<kernel, table, control>>

(* (a mistake) The descriptor is closed without a look at clients_.        *)
BadCloseFd(t) ==
    /\ Calling(t, "close") /\ ClientsMutexFree
    /\ LET fd == Call(t).fd
       IN  /\ file' = Without(file, fd)
           /\ clients' = Without(clients, fd)
           /\ \/ /\ fd \in DOMAIN clients
                 /\ quiet' = quiet \ {clients[fd]}
                 /\ taken' = taken \cup ({clients[fd]} \ {t})
              \/ fd \notin DOMAIN clients /\ UNCHANGED <<quiet, taken>>
    /\ Do(t, <<>>)
    /\ UNCHANGED <<kernel, hand, fdOf, control, registry>>

CloseFd(t) ==
    /\ Calling(t, "close") /\ ClientsMutexFree
    /\ LET fd == Call(t).fd
       IN  IF fd \in DOMAIN clients
           THEN /\ file' = Without(file, fd)
                /\ clients' = Without(clients, fd)
                /\ quiet' = quiet \ {clients[fd]}
                /\ taken' = taken \cup ({clients[fd]} \ {t})
           ELSE UNCHANGED <<file, clients, quiet, taken>>
    /\ Do(t, <<>>)
    /\ UNCHANGED <<kernel, hand, fdOf, control, registry>>

------------------------------------------------------------------------------
(* heartbeat_reaper_loop: the silent are listed under the lock and         *)
(* disconnected afterwards, by descriptor.                                 *)
Scan ==
    /\ running /\ todo[Reaper] = <<>>
    /\ LET dead == {fd \in DOMAIN clients : clients[fd] \in quiet}
       IN  /\ dead # {}
           /\ todo' = [todo EXCEPT ![Reaper] = <<Reap(dead)>>]
    /\ UNCHANGED <<kernel, table, control, registry>>

ReapNext ==
    /\ Calling(Reaper, "reap")
    /\ \E fd \in Call(Reaper).fds :
          Do(Reaper, <<Disconnect(fd)>> \o ReapLoop(Call(Reaper).fds \ {fd}))
    /\ UNCHANGED <<kernel, table, control, registry>>

------------------------------------------------------------------------------
(* stop(): no more accepting, then every client is shut down and closed.   *)
(* What its joins come to after that is the subject of NoIdleWait.         *)
Stop ==
    /\ running /\ running' = FALSE
    /\ backlog' = <<>>
    /\ UNCHANGED <<sock, table, listening, shut, todo, registry>>

(* The end of main, which waits for the listener only.                     *)
MainEnds == ~listening /\ Stop /\ UNCHANGED <<events, handler>>

(* A thread may be in a part locked by clients_mutex_, at its beginning:   *)
(* the listener, a worker, or the reaper, which looks for the silent.      *)
MayHoldClientsMutex ==
    \/ hand # {} \/ todo[Reaper] = <<>>
    \/ \E t \in Thread :
          \/ Calling(t, "send") \/ Calling(t, "close")
          \/ Calling(t, "recv") /\ sock[Call(t).file].rx # <<>>

(* signal_handler runs stop() on the thread the signal interrupts.  If     *)
(* that one holds clients_mutex_, stop() waits for ever for it, and the    *)
(* mutex stays taken.  Interrupting any other thread than main, which      *)
(* waits in listener_thread_.join(), only slows that thread down.          *)
Signal ==
    /\ Stop
    /\ events < MaxEvents /\ events' = events + 1
    /\ \/ handler' = "stopping"
       \/ MayHoldClientsMutex /\ handler' = "stuck"

(* (a mistake) The descriptors are closed, but not shut down.              *)
BadStopClients ==
    /\ ~running /\ ~shut /\ ClientsMutexFree
    /\ shut' = TRUE
    /\ file' = [fd \in DOMAIN file \ DOMAIN clients |-> file[fd]]
    /\ clients' = [fd \in {} |-> fd]
    /\ quiet' = {}
    /\ UNCHANGED <<kernel, hand, fdOf, taken, listening, running, handler, todo, registry>>

StopClients ==
    /\ ~running /\ ~shut /\ ClientsMutexFree
    /\ shut' = TRUE
    /\ sock' = [c \in Client |->
                  IF \E fd \in DOMAIN clients : clients[fd] = c
                  THEN [sock[c] EXCEPT !.down = TRUE] ELSE sock[c]]
    /\ file' = [fd \in DOMAIN file \ DOMAIN clients |-> file[fd]]
    /\ clients' = [fd \in {} |-> fd]
    /\ quiet' = {}
    /\ UNCHANGED <<backlog, events, hand, fdOf, taken, listening, running, handler,
                   todo, registry>>

(* A stop() begun by a signal ends in std::terminate, in one of two ways.  *)
(* Having closed the clients, its first join throws: main is in a join of  *)
(* the same thread, or the handler runs on that thread.  Or, as soon as    *)
(* the listener ends, main returns, ~ClassicServer finds running_ FALSE,   *)
(* joins nobody, and destroys threads that were never joined.              *)
Terminate ==
    /\ handler \in {"stopping", "stuck"} /\ handler' = "terminated"
    /\ shut \/ hand = {}
    /\ listening' = FALSE /\ shut' = TRUE
    /\ file' = Nothing /\ clients' = Nothing /\ quiet' = {} /\ hand' = {}
    /\ todo' = [t \in Thread |-> <<>>]
    /\ usersById' = Nothing /\ usersByName' = Nothing /\ rooms' = Nothing
    /\ UNCHANGED <<kernel, fdOf, taken, running>>

------------------------------------------------------------------------------
ThreadStep(t) ==
    \/ BeginRecv(t) \/ EndRecv(t) \/ ProcessClientMessage(t)
    \/ LookUp(t) \/ BeginSend(t) \/ EndSend(t) \/ Broadcast(t)
    \/ HandleDisconnect(t) \/ AskRoom(t) \/ UnregisterUser(t) \/ CloseFd(t)

(* What happens though no client sends, reads or leaves, no time passes    *)
(* and no signal comes.                                                    *)
Onward ==
    \/ \E t \in Thread : ThreadStep(t)
    \/ Accept \/ StartWorker \/ Scan \/ ReapNext
    \/ MainEnds \/ StopClients \/ Terminate

Outside ==
    \/ \E c \in Client : Connect(c) \/ ClientSend(c) \/ ClientRead(c) \/ HangUp(c)
    \/ Silence \/ AcceptFails \/ Signal

Next == Onward \/ Outside

Spec == Init /\ [][Next]_vars

------------------------------------------------------------------------------
(* Accepting, closing by the worker, by the reaper or by stop, and the     *)
(* reuse of descriptors, in any order: every open descriptor is in         *)
(* clients_ under its own context, or in the listener's hand, so that none *)
(* leaks and no context outlives its file.                                 *)
DescriptorsOwned ==
    /\ \A fd \in DOMAIN clients : fd \in DOMAIN file /\ file[fd] = clients[fd]
    /\ DOMAIN file = DOMAIN clients \cup hand
    /\ DOMAIN clients \cap hand = {}

(* A worker of descriptor fd that has not ended.                           *)
WorkedOn(fd) == \E c \in DOMAIN fdOf : fdOf[c] = fd /\ todo[c] # <<>>

(* Although a command is several calls of the registry, between which the  *)
(* connection may be closed and its descriptor given away, no user is left *)
(* behind: who is registered has a worker that will yet unregister it.     *)
UsersServed == \A fd \in DOMAIN usersById : WorkedOn(fd)

(* All threads wait for what only the outside can bring: a client that     *)
(* sends, reads or leaves.  Every thread gets there in finitely many steps *)
(* of its own: it handles the frames it has and then waits or ends.        *)
AtRest == ~ENABLED Onward

(* A client that does not read, whose connection is open, fills its send   *)
(* buffer: send() to it blocks, its send_mutex held.                       *)
Slow(c) == sock[c].tx = SendBuffer /\ ~sock[c].fin /\ ~sock[c].down

(* Thread t sends to client c, or waits for who does to give up a mutex.   *)
HeldUpBy(t, c) ==
    \E s \in Thread :
        /\ Calling(s, "write") /\ Call(s).file = c
        /\ s = t \/ (Calling(t, "lock") /\ Call(t).ctx = Call(s).ctx)

(* A worker waits for a connection whose descriptor another thread closed, *)
(* or reads, under its old descriptor, from a connection not its own.      *)
Stranded(t) == Calling(t, "recv") /\ Call(t).file \in taken \cup (Client \ {t})

(* The listener has a connection in hand that it cannot put into clients_: *)
(* neither it nor stop() ever gets through.                                *)
Hangs == handler = "stuck" /\ hand # {}

(* A slow client does hold up the threads that send to it, but nobody      *)
(* else, and no wait is idle otherwise.  When nothing can go on, a thread  *)
(* has ended, or reads, or is held up by a slow client; a client that hung *)
(* up keeps its descriptor only while another, slow one holds up its       *)
(* worker; and once stop() has begun, no thread waits any more, so that    *)
(* its joins return, but one that is stranded or held up by a client whose *)
(* connection handle_disconnect closed before stop() could shut it down.   *)
(* stop() in a signal handler joins nobody: it ends the process, or hangs  *)
(* with it.                                                                *)
NoIdleWait ==
    AtRest /\ ~Hangs =>
        /\ \A t \in Thread :
              \/ todo[t] = <<>>
              \/ Calling(t, "recv") /\ (running \/ Stranded(t))
              \/ \E c \in Client : Slow(c) /\ HeldUpBy(t, c)
        /\ \A fd \in DOMAIN file :
              sock[file[fd]].fin =>
                  \E c \in Client \ {file[fd]} : Slow(c) /\ HeldUpBy(file[fd], c)
==============================================================================
