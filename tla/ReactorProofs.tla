---------------------------- MODULE ReactorProofs ----------------------------
(***************************************************************************)
(* The epoll server, for any number of clients, descriptors and messages.  *)
(*                                                                         *)
(* The table of connections first: what is left in an output waits for     *)
(* EPOLLOUT, and table, sockets and metrics agree.  A connection enters    *)
(* the table in handle_accept only, and leaves it in handle_close and      *)
(* stop() only; what the thread has still to do does not matter to either. *)
(*                                                                         *)
(* Then what the thread has still to do: which calls may stand on the      *)
(* stack above which (Stack), what they carry (Kinds), the registry as an  *)
(* instance of its own specification (RMP), why each close was called for  *)
(* (Causes), and what the sends on the stack will still add to what every  *)
(* client hears (Talk).                                                    *)
(***************************************************************************)
EXTENDS Reactor, FiniteSetTheorems, SequenceTheorems, WellFoundedInduction, TLAPS

(* Records with the fields of a socket and of a connection.                *)
Socket(s) ==
    s = [field \in {"state", "sent", "rx", "tx", "fin", "rst"} |-> s[field]]
Connection(k) == k = [field \in {"client", "out", "epollout"} |-> k[field]]

Shape ==
    /\ sock = [c \in Client |-> sock[c]]
    /\ \A c \in Client :
          Socket(sock[c])
    /\ conns = [fd \in DOMAIN conns |-> conns[fd]]
    /\ \A fd \in DOMAIN conns :
          /\ Connection(conns[fd])
          /\ conns[fd].client \in Client
    /\ DOMAIN conns \subseteq Fd

(* The backlog holds each pending client once.                             *)
Queued ==
    /\ backlog \in Seq(Client)
    /\ \A i \in 1 .. Len(backlog) : sock[backlog[i]].state = "pending"
    /\ \A i, j \in 1 .. Len(backlog) : backlog[i] = backlog[j] => i = j

(* The table holds each open client once.                                  *)
Owned ==
    /\ \A fd \in DOMAIN conns : sock[conns[fd].client].state = "open"
    /\ \A fd, d \in DOMAIN conns : conns[fd].client = conns[d].client => fd = d
    /\ \A c \in Client : sock[c].state = "open" =>
          \E fd \in DOMAIN conns : conns[fd].client = c

Counted == running => active = Cardinality(DOMAIN conns)

IInv == Shape /\ Queued /\ Owned /\ Counted /\ PendingAwaitsEpollout

(* Nobody comes or goes, and whom the table holds stays the same; sockets  *)
(* that are broken stay so.                                                *)
SocketsKept ==
    \A c \in Client : /\ sock'[c].state = sock[c].state
                      /\ sock[c].rst => sock'[c].rst

TableKept ==
    /\ DOMAIN conns' = DOMAIN conns
    /\ \A fd \in DOMAIN conns : conns'[fd].client = conns[fd].client

LEMMA KeepingOK ==
    ASSUME IInv, Shape', SocketsKept, TableKept,
           UNCHANGED <<backlog, active, running>>
    PROVE  Queued' /\ Owned' /\ Counted'
  <1>1. Queued'
    <2>1. \A i \in 1 .. Len(backlog) : backlog[i] \in Client
      BY ElementOfSeq, LenProperties DEF IInv, Queued
    <2> QED
      BY <2>1 DEF IInv, Queued, SocketsKept
  <1>2. Owned'
    <2>1. \A fd \in DOMAIN conns : conns[fd].client \in Client
      BY DEF IInv, Shape
    <2> QED
      BY <2>1 DEF IInv, Owned, SocketsKept, TableKept
  <1>3. Counted'
    BY DEF IInv, Counted, TableKept
  <1> QED
    BY <1>1, <1>2, <1>3

LEMMA InitOK == Init => IInv
  <1> SUFFICES ASSUME Init PROVE IInv
    OBVIOUS
  <1>1. DOMAIN conns = {} /\ active = 0 /\ backlog = <<>>
    BY DEF Init
  <1>2. \A c \in Client : sock[c].state = "unused"
    BY DEF Init
  <1>3. Shape
    BY DEF Init, Shape, Socket, Connection
  <1>4. Queued
    <2>1. Len(<<>>) = 0 /\ <<>> \in Seq(Client)
      OBVIOUS
    <2> QED
      BY <1>1, <2>1 DEF Queued
  <1>5. Owned /\ PendingAwaitsEpollout
    BY <1>1, <1>2 DEF Owned, PendingAwaitsEpollout
  <1>6. Counted
    BY <1>1, FS_EmptySet DEF Counted
  <1> QED
    BY <1>3, <1>4, <1>5, <1>6 DEF IInv

(* Steps that touch neither sockets nor connections.                       *)
LEMMA ApartOK ==
    ASSUME IInv, UNCHANGED <<sock, backlog, conns, active, running>>
    PROVE  IInv'
  <1>1. Shape'
    BY DEF IInv, Shape
  <1>2. Queued' /\ Owned' /\ Counted'
    BY <1>1, KeepingOK DEF SocketsKept, TableKept
  <1>3. PendingAwaitsEpollout'
    BY DEF IInv, PendingAwaitsEpollout
  <1> QED
    BY <1>1, <1>2, <1>3 DEF IInv

(* Steps that touch the sockets only, and leave them in their states.      *)
LEMMA SocketStepOK ==
    ASSUME IInv, Shape', SocketsKept, UNCHANGED <<backlog, conns, active, running>>
    PROVE  IInv'
  <1>1. Queued' /\ Owned' /\ Counted'
    BY KeepingOK DEF TableKept
  <1>2. PendingAwaitsEpollout'
    <2>1. \A fd \in DOMAIN conns : conns[fd].client \in Client
      BY DEF IInv, Shape
    <2> QED
      BY <2>1 DEF IInv, PendingAwaitsEpollout, SocketsKept
  <1> QED
    BY <1>1, <1>2 DEF IInv

(* One socket takes, gives or loses something.                             *)
LEMMA OneSocket ==
    ASSUME Shape, NEW c \in Client, NEW s,
           Socket(s) /\ s.state = sock[c].state,
           sock[c].rst => s.rst,
           sock' = [sock EXCEPT ![c] = s]
    PROVE  /\ SocketsKept
           /\ sock' = [d \in Client |-> sock'[d]]
           /\ \A d \in Client : Socket(sock'[d])
  <1>1. /\ sock' = [d \in Client |-> IF d = c THEN s ELSE sock[d]]
        /\ s.state = sock[c].state
    BY DEF Shape
  <1>2. SocketsKept
    BY <1>1 DEF SocketsKept
  <1>3. ASSUME NEW d \in Client
        PROVE  Socket(sock'[d])
    <2>1. CASE d = c
      BY <1>1, <2>1
    <2>2. CASE d # c
      BY <1>1, <2>2 DEF Shape
    <2> QED
      BY <2>1, <2>2
  <1> QED
    BY <1>1, <1>2, <1>3

(* A step that changes one socket and no connection.                       *)
LEMMA OneSocketStepOK ==
    ASSUME IInv, NEW c \in Client, NEW s,
           Socket(s) /\ s.state = sock[c].state,
           sock[c].rst => s.rst,
           sock' = [sock EXCEPT ![c] = s],
           UNCHANGED <<backlog, conns, active, running>>
    PROVE  IInv'
  <1>1. /\ SocketsKept
        /\ sock' = [d \in Client |-> sock'[d]]
        /\ \A d \in Client : Socket(sock'[d])
    BY OneSocket DEF IInv
  <1>2. Shape'
    BY <1>1 DEF IInv, Shape, Socket, Connection
  <1> QED
    BY <1>1, <1>2, SocketStepOK

(* The clients send, read and break off.                                   *)
LEMMA ClientsOK ==
    ASSUME IInv, NEW c \in Client,
           ClientSend(c) \/ HangUp(c) \/ Reset(c) \/ ClientRead(c)
    PROVE  IInv'
  <1>1. Socket(sock[c])
    BY DEF IInv, Shape
  <1>2. UNCHANGED <<backlog, conns, active, running>>
    BY DEF ClientSend, HangUp, Reset, ClientRead, server
  <1>3. ASSUME NEW s, Socket(s) /\ s.state = sock[c].state, sock[c].rst => s.rst,
               sock' = [sock EXCEPT ![c] = s]
        PROVE  IInv'
    BY <1>2, <1>3, OneSocketStepOK
  <1>4. CASE ClientSend(c)
    <2>1. PICK f \in Request :
             sock' = [sock EXCEPT ![c].sent = @ + 1,
                                  ![c].rx = Append(@, [type |-> f.type, arg |-> f.arg,
                                                       n |-> sock[c].sent + 1])]
      BY <1>4 DEF ClientSend
    <2> DEFINE n == sock[c].sent + 1
               rx == Append(sock[c].rx, [type |-> f.type, arg |-> f.arg, n |-> n])
    <2> DEFINE s == [sock[c] EXCEPT !.sent = n, !.rx = rx]
    <2>2. sock' = [sock EXCEPT ![c] = s]
      BY <2>1
    <2> HIDE DEF n, rx
    <2>3. Socket(s) /\ s.state = sock[c].state /\ s.rst = sock[c].rst
      BY <1>1 DEF Socket
    <2> HIDE DEF s
    <2> QED
      BY <1>3, <2>2, <2>3
  <1>5. CASE HangUp(c)
    <2> DEFINE s == [sock[c] EXCEPT !.fin = TRUE]
    <2>1. sock' = [sock EXCEPT ![c] = s]
      BY <1>5 DEF HangUp
    <2>2. Socket(s) /\ s.state = sock[c].state /\ (sock[c].rst => s.rst)
      BY <1>1 DEF Socket
    <2> HIDE DEF s
    <2> QED
      BY <1>3, <2>1, <2>2
  <1>6. CASE Reset(c)
    <2> DEFINE s == [sock[c] EXCEPT !.rst = TRUE]
    <2>1. sock' = [sock EXCEPT ![c] = s]
      BY <1>6 DEF Reset
    <2>2. Socket(s) /\ s.state = sock[c].state /\ (sock[c].rst => s.rst)
      BY <1>1 DEF Socket
    <2> HIDE DEF s
    <2> QED
      BY <1>3, <2>1, <2>2
  <1>7. CASE ClientRead(c)
    <2> DEFINE tx == Tail(sock[c].tx)
               s == [sock[c] EXCEPT !.tx = tx]
    <2>1. sock' = [sock EXCEPT ![c] = s]
      BY <1>7 DEF ClientRead
    <2> HIDE DEF tx
    <2>2. Socket(s) /\ s.state = sock[c].state /\ (sock[c].rst => s.rst)
      BY <1>1 DEF Socket
    <2> HIDE DEF s
    <2> QED
      BY <1>3, <2>1, <2>2
  <1> QED
    BY <1>4, <1>5, <1>6, <1>7

(* A read empties the socket's receive queue, or leaves the socket alone.  *)
LEMMA ReadOK ==
    ASSUME IInv, HandleRead
    PROVE  IInv'
  <1>1. UNCHANGED <<backlog, conns, active, running>>
    BY DEF HandleRead
  <1>2. CASE sock' = sock
    BY <1>1, <1>2, ApartOK
  <1>3. CASE sock' # sock
    <2> DEFINE c == conns[Call.fd].client
               s == [sock[c] EXCEPT !.rx = <<>>]
    <2>1. Call.fd \in DOMAIN conns /\ sock' = [sock EXCEPT ![c] = s]
      BY <1>3 DEF HandleRead
    <2>2. c \in Client
      BY <2>1 DEF IInv, Shape
    <2> HIDE DEF c
    <2>3. Socket(s) /\ s.state = sock[c].state /\ (sock[c].rst => s.rst)
      <3>1. Socket(sock[c])
        BY <2>2 DEF IInv, Shape
      <3> QED
        BY <3>1 DEF Socket
    <2> HIDE DEF s
    <2> QED
      BY <1>1, <2>1, <2>2, <2>3, OneSocketStepOK
  <1> QED
    BY <1>2, <1>3

(* Output of one connection: what could be written goes to its socket, and *)
(* what is left waits for EPOLLOUT or the socket is broken.                *)
LEMMA OutputOK ==
    ASSUME IInv, NEW fd \in DOMAIN conns, NEW c, NEW s, NEW k,
           c = conns[fd].client,
           Socket(s) /\ s.state = sock[c].state /\ s.rst = sock[c].rst,
           sock' = [sock EXCEPT ![c] = s],
           Connection(k) /\ k.client = c,
           conns' = [conns EXCEPT ![fd] = k],
           k.out # <<>> => k.epollout \/ sock[c].rst,
           UNCHANGED <<backlog, active, running>>
    PROVE  IInv'
  <1>1. c \in Client
    BY DEF IInv, Shape
  <1>2. /\ SocketsKept
        /\ sock' = [d \in Client |-> sock'[d]]
        /\ \A d \in Client : Socket(sock'[d])
    BY <1>1, OneSocket DEF IInv
  <1>3. conns' = [d \in DOMAIN conns |-> IF d = fd THEN k ELSE conns[d]]
    BY DEF IInv, Shape
  <1>4. TableKept
    BY <1>3 DEF TableKept
  <1>5. Shape'
    <2>1. conns' = [d \in DOMAIN conns' |-> conns'[d]] /\ DOMAIN conns' \subseteq Fd
      BY <1>3 DEF IInv, Shape
    <2>2. \A d \in DOMAIN conns' : Connection(conns'[d]) /\ conns'[d].client \in Client
      BY <1>1, <1>3 DEF IInv, Shape
    <2> QED
      BY <1>2, <2>1, <2>2 DEF Shape, Socket, Connection
  <1>6. PendingAwaitsEpollout'
    <2> SUFFICES ASSUME NEW d \in DOMAIN conns', conns'[d].out # <<>>
                 PROVE  conns'[d].epollout \/ sock'[conns'[d].client].rst
      BY DEF PendingAwaitsEpollout
    <2>1. CASE d = fd
      BY <1>1, <1>2, <1>3, <2>1 DEF SocketsKept
    <2>2. CASE d # fd
      <3>1. /\ d \in DOMAIN conns /\ conns'[d] = conns[d]
            /\ conns[d].client \in Client
        BY <1>3, <2>2 DEF IInv, Shape
      <3> QED
        BY <1>2, <3>1 DEF IInv, PendingAwaitsEpollout, SocketsKept
    <2> QED
      BY <2>1, <2>2
  <1> QED
    BY <1>2, <1>4, <1>5, <1>6, KeepingOK DEF IInv

LEMMA SendOK ==
    ASSUME IInv, SendMessage
    PROVE  IInv'
  <1>1. UNCHANGED <<backlog, active, running>>
    BY DEF SendMessage
  <1>2. PICK fd \in Call.fds : SendToFd(fd)
    BY DEF SendMessage
  <1>3. CASE fd \notin DOMAIN conns
    <2>1. UNCHANGED <<sock, conns>>
      BY <1>2, <1>3 DEF SendToFd
    <2> QED
      BY <1>1, <2>1, ApartOK
  <1>4. CASE fd \in DOMAIN conns
    <2> DEFINE c == conns[fd].client
               out == Append(conns[fd].out, Call.m)
    <2>1. c \in Client /\ Socket(sock[c]) /\ Connection(conns[fd])
      BY <1>4 DEF IInv, Shape
    <2>2. CASE sock[c].rst
      <3> DEFINE k == [conns[fd] EXCEPT !.out = out]
      <3>1. conns' = [conns EXCEPT ![fd] = k] /\ sock' = sock
        BY <1>2, <1>4, <2>2 DEF SendToFd
      <3>2. sock' = [sock EXCEPT ![c] = sock[c]]
        BY <2>1, <3>1 DEF IInv, Shape
      <3> HIDE DEF out
      <3>3. Connection(k) /\ k.client = c
        BY <2>1 DEF Connection
      <3> HIDE DEF k
      <3> DEFINE s == sock[c]
      <3>4. Socket(s) /\ s.state = sock[c].state /\ s.rst = sock[c].rst
        BY <2>1
      <3>5. sock' = [sock EXCEPT ![c] = s] /\ (k.out # <<>> => k.epollout \/ sock[c].rst)
        BY <2>2, <3>2
      <3> HIDE DEF s, c
      <3>6. c = conns[fd].client
        BY DEF c
      <3> QED
        BY <1>1, <1>4, <3>1, <3>3, <3>4, <3>5, <3>6, OutputOK
    <2>3. CASE ~sock[c].rst
      <3> DEFINE rest == Rest(c, out)
                 tx == sock[c].tx \o SubSeq(out, 1, Taken(c, out))
                 s == [sock[c] EXCEPT !.tx = tx]
                 k == [conns[fd] EXCEPT !.out = rest, !.epollout = @ \/ rest # <<>>]
      <3>1. sock' = [sock EXCEPT ![c] = s]
        BY <1>2, <1>4, <2>3 DEF SendToFd, Flush
      <3>2. conns' = [conns EXCEPT ![fd] = k]
        BY <1>2, <1>4, <2>3 DEF SendToFd
      <3> HIDE DEF tx, rest
      <3>3. Socket(s) /\ s.state = sock[c].state /\ s.rst = sock[c].rst
        BY <2>1 DEF Socket
      <3>4. Connection(k) /\ k.client = c /\ (k.out # <<>> => k.epollout \/ sock[c].rst)
        BY <2>1 DEF Connection
      <3> HIDE DEF s, k, c
      <3>5. c = conns[fd].client
        BY DEF c
      <3> QED
        BY <1>1, <1>4, <3>1, <3>2, <3>3, <3>4, <3>5, OutputOK
    <2> QED
      BY <2>2, <2>3
  <1> QED
    BY <1>3, <1>4

LEMMA WriteOK ==
    ASSUME IInv, HandleWrite
    PROVE  IInv'
  <1>1. UNCHANGED <<backlog, active, running>>
    BY DEF HandleWrite
  <1> DEFINE fd == Call.fd
             c == conns[fd].client
             out == conns[fd].out
  <1>2. CASE UNCHANGED <<sock, conns>>
    BY <1>1, <1>2, ApartOK
  <1>3. CASE ~UNCHANGED <<sock, conns>>
    <2> DEFINE rest == Rest(c, out)
               tx == sock[c].tx \o SubSeq(out, 1, Taken(c, out))
               s == [sock[c] EXCEPT !.tx = tx]
               k == [conns[fd] EXCEPT !.out = rest, !.epollout = rest # <<>>]
    <2>1. /\ fd \in DOMAIN conns
          /\ sock' = [sock EXCEPT ![c] = s]
      BY <1>3 DEF HandleWrite, Flush
    <2>2. conns' = [conns EXCEPT ![fd] = k]
      BY <1>3 DEF HandleWrite
    <2>3. c \in Client /\ Socket(sock[c]) /\ Connection(conns[fd])
      BY <2>1 DEF IInv, Shape
    <2> HIDE DEF tx, rest, fd
    <2>4. Socket(s) /\ s.state = sock[c].state /\ s.rst = sock[c].rst
      BY <2>3 DEF Socket
    <2>5. Connection(k) /\ k.client = c /\ (k.out # <<>> => k.epollout \/ sock[c].rst)
      BY <2>3 DEF Connection
    <2> HIDE DEF s, k, c
    <2>6. c = conns[fd].client
      BY DEF c
    <2> QED
      BY <1>1, <2>1, <2>2, <2>4, <2>5, <2>6, OutputOK
  <1> QED
    BY <1>2, <1>3

(* A client joins the backlog.                                             *)
LEMMA ConnectOK ==
    ASSUME IInv, NEW c \in Client, Connect(c)
    PROVE  IInv'
  <1> DEFINE s == [sock[c] EXCEPT !.state = "pending"]
  <1>1. /\ sock[c].state = "unused" /\ sock' = [sock EXCEPT ![c] = s]
        /\ backlog' = Append(backlog, c)
        /\ UNCHANGED <<conns, active, running>>
    BY DEF Connect, server
  <1>2. Socket(s) /\ s.state = "pending" /\ s.rst = sock[c].rst
    BY DEF IInv, Shape, Socket
  <1> HIDE DEF s
  <1>3. sock' = [d \in Client |-> IF d = c THEN s ELSE sock[d]]
    BY <1>1 DEF IInv, Shape
  <1>4. Shape'
    <2>1. \A d \in Client : Socket(sock'[d])
      BY <1>2, <1>3 DEF IInv, Shape
    <2>2. sock' = [d \in Client |-> sock'[d]]
      BY <1>3
    <2> QED
      BY <1>1, <2>1, <2>2 DEF IInv, Shape, Socket, Connection
  <1>5. \A i \in 1 .. Len(backlog) : backlog[i] \in Client /\ backlog[i] # c
    <2>1. \A i \in 1 .. Len(backlog) : backlog[i] \in Client
      BY ElementOfSeq, LenProperties DEF IInv, Queued
    <2> QED
      BY <1>1, <2>1 DEF IInv, Queued
  <1>6. Queued'
    <2>1. /\ backlog' \in Seq(Client) /\ Len(backlog') = Len(backlog) + 1
          /\ \A i \in 1 .. Len(backlog) : backlog'[i] = backlog[i]
          /\ backlog'[Len(backlog) + 1] = c
          /\ Len(backlog) \in Nat
      BY <1>1, AppendProperties, LenProperties DEF IInv, Queued
    <2>2. \A i \in 1 .. Len(backlog') : i \in 1 .. Len(backlog) \/ i = Len(backlog) + 1
      BY <2>1
    <2>3. \A i \in 1 .. Len(backlog') : sock'[backlog'[i]].state = "pending"
      BY <1>2, <1>3, <1>5, <2>1, <2>2 DEF IInv, Queued
    <2>4. \A i, j \in 1 .. Len(backlog') : backlog'[i] = backlog'[j] => i = j
      BY <1>5, <2>1, <2>2 DEF IInv, Queued
    <2> QED
      BY <2>1, <2>3, <2>4 DEF Queued
  <1>7. \A fd \in DOMAIN conns : conns[fd].client \in Client /\ conns[fd].client # c
    BY <1>1 DEF IInv, Shape, Owned
  <1>8. Owned' /\ Counted'
    BY <1>1, <1>2, <1>3, <1>7 DEF IInv, Owned, Counted
  <1>9. PendingAwaitsEpollout'
    BY <1>1, <1>3, <1>7 DEF IInv, PendingAwaitsEpollout
  <1> QED
    BY <1>4, <1>6, <1>8, <1>9 DEF IInv

(* The kernel has a lowest descriptor to give when it has any.             *)
LEMMA LowestFree ==
    ASSUME FreeFds # {}
    PROVE  (CHOOSE fd \in FreeFds : \A other \in FreeFds : fd <= other) \in FreeFds
  <1>1. FreeFds \subseteq Nat
    BY ReactorAssumption DEF FreeFds, Fd
  <1>2. PICK fd \in FreeFds : \A d \in FreeFds : ~(<<d, fd>> \in OpToRel(<, Nat))
    BY <1>1, WFMin, NatLessThanWellFounded
  <1>3. ASSUME NEW d \in FreeFds PROVE fd <= d
    <2>1. d \in Nat /\ fd \in Nat
      BY <1>1
    <2>2. ~(d < fd)
      BY <1>2, <2>1 DEF OpToRel
    <2> QED
      BY <2>1, <2>2
  <1> QED
    BY <1>3

LEMMA TableFinite ==
    ASSUME IInv
    PROVE  IsFiniteSet(DOMAIN conns) /\ Cardinality(DOMAIN conns) \in Nat
  <1>1. IsFiniteSet(Fd)
    BY FS_Interval, ReactorAssumption DEF Fd
  <1>2. IsFiniteSet(DOMAIN conns)
    BY <1>1, FS_Subset DEF IInv, Shape
  <1> QED
    BY <1>2, FS_CardinalityType

(* The head of the backlog moves to a free descriptor.                     *)
LEMMA AcceptOK ==
    ASSUME IInv, HandleAccept
    PROVE  IInv'
  <1>1. running' = running
    BY DEF HandleAccept
  <1>2. CASE UNCHANGED <<sock, backlog, conns, active>>
    BY <1>1, <1>2, ApartOK
  <1>3. CASE ~UNCHANGED <<sock, backlog, conns, active>>
    <2> DEFINE fd == CHOOSE fd \in FreeFds : \A other \in FreeFds : fd <= other
               c == Head(backlog)
               s == [sock[c] EXCEPT !.state = "open"]
               k == [client |-> c, out |-> <<>>, epollout |-> FALSE]
    <2>1. /\ backlog # <<>> /\ FreeFds # {}
          /\ conns' = [d \in DOMAIN conns \cup {fd} |-> IF d = fd THEN k ELSE conns[d]]
          /\ sock' = [sock EXCEPT ![c] = s]
          /\ backlog' = Tail(backlog)
          /\ active' = active + 1
      BY <1>3 DEF HandleAccept
    <2>2. fd \in Fd /\ fd \notin DOMAIN conns
      BY <2>1, LowestFree DEF FreeFds
    <2>3. /\ c \in Client /\ c = backlog[1]
          /\ Len(backlog) \in Nat /\ 1 \in 1 .. Len(backlog)
          /\ backlog' \in Seq(Client) /\ Len(backlog') = Len(backlog) - 1
          /\ \A i \in 1 .. Len(backlog') : backlog'[i] = backlog[i + 1]
      BY <2>1, HeadTailProperties, LenProperties DEF IInv, Queued
    <2>4. sock[c].state = "pending"
      BY <2>3 DEF IInv, Queued
    <2>5. Socket(s) /\ s.state = "open" /\ s.rst = sock[c].rst
      BY <2>3 DEF IInv, Shape, Socket
    <2>6. Connection(k) /\ k.client = c /\ k.out = <<>>
      BY DEF Connection
    <2> HIDE DEF fd, c, s, k
    <2>7. sock' = [d \in Client |-> IF d = c THEN s ELSE sock[d]]
      BY <2>1, <2>3 DEF IInv, Shape
    <2>8. Shape'
      <3>1. sock' = [d \in Client |-> sock'[d]] /\ \A d \in Client : Socket(sock'[d])
        BY <2>5, <2>7 DEF IInv, Shape
      <3>2. conns' = [d \in DOMAIN conns' |-> conns'[d]] /\ DOMAIN conns' \subseteq Fd
        BY <2>1, <2>2 DEF IInv, Shape
      <3>3. \A d \in DOMAIN conns' : Connection(conns'[d]) /\ conns'[d].client \in Client
        BY <2>1, <2>3, <2>6 DEF IInv, Shape
      <3> QED
        BY <3>1, <3>2, <3>3 DEF Shape, Socket, Connection
    <2>9. Queued'
      <3>1. \A i \in 1 .. Len(backlog') : i + 1 \in 1 .. Len(backlog) /\ i + 1 # 1
        BY <2>3
      <3>2. \A i \in 1 .. Len(backlog') : backlog'[i] \in Client /\ backlog'[i] # c
        <4>1. \A i \in 1 .. Len(backlog) : backlog[i] \in Client
          BY ElementOfSeq, LenProperties DEF IInv, Queued
        <4> QED
          BY <2>3, <3>1, <4>1 DEF IInv, Queued
      <3>3. \A i \in 1 .. Len(backlog') : sock'[backlog'[i]].state = "pending"
        BY <2>3, <2>7, <3>1, <3>2 DEF IInv, Queued
      <3>4. \A i, j \in 1 .. Len(backlog') : backlog'[i] = backlog'[j] => i = j
        <4> SUFFICES ASSUME NEW i \in 1 .. Len(backlog'), NEW j \in 1 .. Len(backlog'),
                            backlog'[i] = backlog'[j]
                     PROVE  i = j
          OBVIOUS
        <4>1. i + 1 = j + 1
          BY <2>3, <3>1 DEF IInv, Queued
        <4> QED
          BY <2>3, <4>1
      <3> QED
        BY <2>3, <3>3, <3>4 DEF Queued
    <2>10. \A d \in DOMAIN conns : conns[d].client \in Client /\ conns[d].client # c
      BY <2>4 DEF IInv, Shape, Owned
    <2>11. Owned'
      <3>1. \A d \in DOMAIN conns' : sock'[conns'[d].client].state = "open"
        BY <2>1, <2>3, <2>5, <2>6, <2>7, <2>10 DEF IInv, Owned
      <3>2. \A a, b \in DOMAIN conns' : conns'[a].client = conns'[b].client => a = b
        BY <2>1, <2>6, <2>10 DEF IInv, Owned
      <3>3. ASSUME NEW d \in Client, sock'[d].state = "open"
            PROVE  \E a \in DOMAIN conns' : conns'[a].client = d
        <4>1. CASE d = c
          BY <2>1, <2>6, <4>1
        <4>2. CASE d # c
          <5>1. PICK a \in DOMAIN conns : conns[a].client = d
            BY <2>7, <3>3, <4>2 DEF IInv, Owned
          <5> QED
            BY <2>1, <2>2, <5>1
        <4> QED
          BY <4>1, <4>2
      <3> QED
        BY <3>1, <3>2, <3>3 DEF Owned
    <2>12. Counted'
      <3>1. DOMAIN conns' = DOMAIN conns \cup {fd}
        BY <2>1
      <3>2. Cardinality(DOMAIN conns') = Cardinality(DOMAIN conns) + 1
        BY <2>2, <3>1, TableFinite, FS_AddElement
      <3> QED
        BY <1>1, <2>1, <3>2 DEF IInv, Counted
    <2>13. PendingAwaitsEpollout'
      <3> SUFFICES ASSUME NEW d \in DOMAIN conns', conns'[d].out # <<>>
                   PROVE  conns'[d].epollout \/ sock'[conns'[d].client].rst
        BY DEF PendingAwaitsEpollout
      <3>1. d \in DOMAIN conns /\ conns'[d] = conns[d]
        BY <2>1, <2>6
      <3> QED
        BY <2>7, <2>10, <3>1 DEF IInv, PendingAwaitsEpollout
    <2> QED
      BY <2>8, <2>9, <2>11, <2>12, <2>13 DEF IInv
  <1> QED
    BY <1>2, <1>3

(* A closed connection leaves the table, and with it its client.           *)
LEMMA CloseOK ==
    ASSUME IInv, HandleClose
    PROVE  IInv'
  <1>1. running' = running /\ backlog' = backlog
    BY DEF HandleClose
  <1>2. CASE UNCHANGED <<conns, active, sock>>
    BY <1>1, <1>2, ApartOK
  <1>3. CASE ~UNCHANGED <<conns, active, sock>>
    <2>1. PICK fd \in Call.fds : fd \in DOMAIN conns /\ CloseConnection(fd)
      BY <1>3 DEF HandleClose
    <2> DEFINE c == conns[fd].client
               s == [sock[c] EXCEPT !.state = "closed"]
    <2>2. /\ conns' = Without(conns, fd)
          /\ active' = active - 1
          /\ sock' = [sock EXCEPT ![c] = s]
      BY <2>1 DEF CloseConnection
    <2>3. c \in Client /\ sock[c].state = "open"
      BY <2>1 DEF IInv, Shape, Owned
    <2>4. Socket(s) /\ s.state = "closed" /\ s.rst = sock[c].rst
      BY <2>3 DEF IInv, Shape, Socket
    <2>5. \A d \in DOMAIN conns : d # fd => conns[d].client \in Client /\ conns[d].client # c
      BY <2>1 DEF IInv, Shape, Owned
    <2>6. c = conns[fd].client
      OBVIOUS
    <2> HIDE DEF s, c
    <2>7. sock' = [d \in Client |-> IF d = c THEN s ELSE sock[d]]
      BY <2>2, <2>3 DEF IInv, Shape
    <2>8. conns' = [d \in DOMAIN conns \ {fd} |-> conns[d]]
      BY <2>2 DEF Without
    <2>9. Shape'
      <3>1. sock' = [d \in Client |-> sock'[d]] /\ \A d \in Client : Socket(sock'[d])
        BY <2>4, <2>7 DEF IInv, Shape
      <3>2. conns' = [d \in DOMAIN conns' |-> conns'[d]] /\ DOMAIN conns' \subseteq Fd
        BY <2>8 DEF IInv, Shape
      <3>3. \A d \in DOMAIN conns' : Connection(conns'[d]) /\ conns'[d].client \in Client
        BY <2>8 DEF IInv, Shape
      <3> QED
        BY <3>1, <3>2, <3>3 DEF Shape, Socket, Connection
    <2>10. Queued'
      <3>1. \A i \in 1 .. Len(backlog) : backlog[i] \in Client /\ backlog[i] # c
        <4>1. \A i \in 1 .. Len(backlog) : backlog[i] \in Client
          BY ElementOfSeq, LenProperties DEF IInv, Queued
        <4> QED
          BY <2>3, <4>1 DEF IInv, Queued
      <3> QED
        BY <1>1, <2>7, <3>1 DEF IInv, Queued
    <2>11. Owned'
      <3>1. \A d \in DOMAIN conns' : sock'[conns'[d].client].state = "open"
        BY <2>5, <2>7, <2>8 DEF IInv, Owned
      <3>2. \A a, b \in DOMAIN conns' : conns'[a].client = conns'[b].client => a = b
        BY <2>8 DEF IInv, Owned
      <3>3. ASSUME NEW d \in Client, sock'[d].state = "open"
            PROVE  \E a \in DOMAIN conns' : conns'[a].client = d
        <4>1. d # c /\ sock[d].state = "open"
          BY <2>4, <2>7, <3>3
        <4>2. PICK a \in DOMAIN conns : conns[a].client = d
          BY <4>1 DEF IInv, Owned
        <4> QED
          BY <2>6, <2>8, <4>1, <4>2
      <3> QED
        BY <3>1, <3>2, <3>3 DEF Owned
    <2>12. Counted'
      <3>1. DOMAIN conns' = DOMAIN conns \ {fd}
        BY <2>8
      <3>2. Cardinality(DOMAIN conns') = Cardinality(DOMAIN conns) - 1
        BY <2>1, <3>1, TableFinite, FS_RemoveElement
      <3> QED
        BY <1>1, <2>2, <3>2 DEF IInv, Counted
    <2>13. PendingAwaitsEpollout'
      BY <2>5, <2>7, <2>8 DEF IInv, PendingAwaitsEpollout
    <2> QED
      BY <2>9, <2>10, <2>11, <2>12, <2>13 DEF IInv
  <1> QED
    BY <1>2, <1>3

(* stop() empties the table and the kernel's backlog.                      *)
LEMMA StopOK ==
    ASSUME IInv, Stop
    PROVE  IInv'
  <1>1. DOMAIN conns' = {} /\ backlog' = <<>> /\ running' = FALSE
    BY DEF Stop
  <1>2. sock' = [c \in Client |-> IF sock[c].state = "unused" THEN sock[c]
                                  ELSE [sock[c] EXCEPT !.state = "closed"]]
    BY DEF Stop
  <1>3. ASSUME NEW c \in Client
        PROVE  Socket(sock'[c]) /\ sock'[c].state # "open"
    <2>1. Socket(sock[c])
      BY DEF IInv, Shape
    <2>2. CASE sock[c].state = "unused"
      BY <1>2, <2>1, <2>2
    <2>3. CASE sock[c].state # "unused"
      <3> DEFINE s == [sock[c] EXCEPT !.state = "closed"]
      <3>1. Socket(s) /\ s.state = "closed"
        BY <2>1 DEF Socket
      <3>2. sock'[c] = s
        BY <1>2, <2>3
      <3> QED
        BY <3>1, <3>2
    <2> QED
      BY <2>2, <2>3
  <1>4. Shape'
    <2>1. sock' = [c \in Client |-> sock'[c]]
      BY <1>2
    <2>2. conns' = [fd \in DOMAIN conns' |-> conns'[fd]]
      BY DEF Stop
    <2> QED
      BY <1>1, <1>3, <2>1, <2>2 DEF Shape, Socket
  <1>5. Queued'
    <2>1. Len(<<>>) = 0 /\ <<>> \in Seq(Client)
      OBVIOUS
    <2> QED
      BY <1>1, <2>1 DEF Queued
  <1>6. Owned' /\ Counted' /\ PendingAwaitsEpollout'
    BY <1>1, <1>3 DEF Owned, Counted, PendingAwaitsEpollout
  <1> QED
    BY <1>4, <1>5, <1>6 DEF IInv

(* Every step keeps the invariant.                                         *)
LEMMA IInvStep ==
    ASSUME IInv, [Next]_vars
    PROVE  IInv'
  <1>1. CASE Wait \/ TakeEvent \/ \E due \in BOOLEAN : CheckHeartbeats(due)
    BY <1>1, ApartOK DEF Wait, TakeEvent, CheckHeartbeats, kernel, server
  <1>2. CASE HandleAccept
    BY <1>2, AcceptOK
  <1>3. CASE HandleRead
    BY <1>3, ReadOK
  <1>4. CASE HandleWrite
    BY <1>4, WriteOK
  <1>5. CASE HandleClose
    BY <1>5, CloseOK
  <1>6. CASE SendMessage
    BY <1>6, SendOK
  <1>7. CASE Broadcast \/ AbandonFrames
    BY <1>7, ApartOK DEF Broadcast, AbandonFrames, kernel, server
  <1>8. CASE ProcessMessage
    <2>1. UNCHANGED <<kernel, server>>
      BY <1>8 DEF ProcessMessage
    <2> QED
      BY <2>1, ApartOK DEF kernel, server
  <1>9. ASSUME NEW c \in Client, Connect(c)
        PROVE  IInv'
    BY <1>9, ConnectOK
  <1>10. ASSUME NEW c \in Client,
                ClientSend(c) \/ HangUp(c) \/ Reset(c) \/ ClientRead(c)
         PROVE  IInv'
    BY <1>10, ClientsOK
  <1>11. CASE Silence
    BY <1>11, ApartOK DEF Silence, kernel
  <1>12. CASE Stop
    BY <1>12, StopOK
  <1>13. CASE UNCHANGED vars
    BY <1>13, ApartOK DEF vars, kernel, server
  <1> QED
    BY <1>1, <1>2, <1>3, <1>4, <1>5, <1>6, <1>7, <1>8, <1>9, <1>10, <1>11,
       <1>12, <1>13 DEF Next, ServerStep, ClientStep

LEMMA IInvHolds == Spec => []IInv
  <1>1. IInv /\ [Next]_vars => IInv'
    BY IInvStep
  <1> QED
    BY <1>1, InitOK, PTL DEF Spec

(* Bytes that flush_outbound leaves behind always have EPOLLOUT to be      *)
(* written by, unless the connection is broken: send_message_to_fd and     *)
(* handle_write never forget output, however sends, nested closes, reused  *)
(* descriptors and slow clients interleave.                                *)
THEOREM NoOutputForgotten == Spec => []PendingAwaitsEpollout
  <1>1. IInv => PendingAwaitsEpollout
    BY DEF IInv
  <1> QED
    BY <1>1, IInvHolds, PTL

(* handle_accept, handle_close and stop() give each open socket exactly    *)
(* one connection, none to a closed one, and keep active_connections_ the  *)
(* number of connections as long as the server runs.                       *)
THEOREM ConnectionsAreExact == Spec => []ConnectionsExact
  <1>1. IInv => ConnectionsExact
    <2> SUFFICES ASSUME IInv PROVE ConnectionsExact
      OBVIOUS
    <2>1. ASSUME NEW c \in Client
          PROVE  Cardinality({fd \in DOMAIN conns : conns[fd].client = c}) =
                    IF sock[c].state = "open" THEN 1 ELSE 0
      <3> DEFINE own == {fd \in DOMAIN conns : conns[fd].client = c}
      <3>1. CASE sock[c].state = "open"
        <4>1. PICK fd \in DOMAIN conns : conns[fd].client = c
          BY <3>1 DEF IInv, Owned
        <4>2. own = {fd}
          BY <4>1 DEF IInv, Owned
        <4> QED
          BY <3>1, <4>2, FS_Singleton
      <3>2. CASE sock[c].state # "open"
        <4>1. own = {}
          BY <3>2 DEF IInv, Owned
        <4> QED
          BY <3>2, <4>1, FS_EmptySet
      <3> QED
        BY <3>1, <3>2
    <2> QED
      BY <2>1 DEF IInv, Counted, ConnectionsExact
  <1> QED
    BY <1>1, IInvHolds, PTL

(* What a step does to users and connections: without handle_close,        *)
(* USER_REGISTER and stop(), none of them goes and no user comes.          *)
LEMMA QuietStep ==
    ASSUME [Next]_vars, ~HandleClose, ~Stop, ~(ProcessRegister /\ ProcessMessage)
    PROVE  /\ DOMAIN conns \subseteq DOMAIN conns'
           /\ DOMAIN usersById' \subseteq DOMAIN usersById
  <1> USE DEF kernel, server, registry
  <1>1. CASE Wait \/ TakeEvent \/ \E due \in BOOLEAN : CheckHeartbeats(due)
    BY <1>1 DEF Wait, TakeEvent, CheckHeartbeats
  <1>2. CASE HandleAccept
    BY <1>2 DEF HandleAccept
  <1>3. CASE HandleRead
    BY <1>3 DEF HandleRead
  <1>4. CASE HandleWrite
    BY <1>4 DEF HandleWrite
  <1>5. CASE SendMessage
    BY <1>5 DEF SendMessage, SendToFd
  <1>6. CASE Broadcast \/ AbandonFrames \/ Silence \/ UNCHANGED vars
    BY <1>6 DEF Broadcast, AbandonFrames, Silence, vars
  <1>7. CASE ClientStep
    BY <1>7 DEF ClientStep, Connect, ClientSend, HangUp, Reset, ClientRead
  <1>8. CASE ProcessMessage
    <2>1. conns' = conns
      BY <1>8 DEF ProcessMessage
    <2>2. CASE ProcessJoin
      BY <2>1, <2>2 DEF ProcessJoin, RM!JoinRoom, RM!SetUser
    <2>3. CASE ProcessLeave
      BY <2>1, <2>3 DEF ProcessLeave, RM!LeaveRoom, RM!SetUser
    <2>4. CASE ProcessChat \/ ProcessPrivate \/ ProcessQuery \/ ProcessDisconnect
                 \/ EndCorrupted
      BY <2>1, <2>4 DEF ProcessChat, ProcessPrivate, ProcessQuery,
                        ProcessDisconnect, EndCorrupted
    <2> QED
      BY <1>8, <2>2, <2>3, <2>4 DEF ProcessMessage
  <1> QED
    BY <1>1, <1>2, <1>3, <1>4, <1>5, <1>6, <1>7, <1>8 DEF Next, ServerStep

(* For any number of connections the registry outlives a connection only   *)
(* when stop() drops it or the frame loop registers from a freed buffer:   *)
(* handle_close takes the user out before the connection, in every nesting *)
(* of closes.                                                              *)
THEOREM GhostsComeFromFreedBuffers == Spec => GhostOnlyFromFreedBuffer
  <1>1. ASSUME [Next]_vars, NEW fd \in Fd, Ghost(fd)', ~Ghost(fd)
        PROVE  Dangling \/ ~running'
    <2>1. CASE HandleClose
      <3>1. PICK d \in Call.fds :
               IF d \in DOMAIN conns THEN CloseConnection(d)
               ELSE UNCHANGED <<conns, registry>>
        BY <2>1 DEF HandleClose, registry
      <3>2. CASE d \notin DOMAIN conns
        BY <1>1, <3>1, <3>2 DEF Ghost, registry
      <3>3. CASE d \in DOMAIN conns
        <4>1. /\ DOMAIN conns' = DOMAIN conns \ {d}
              /\ DOMAIN usersById' = DOMAIN usersById \ {d}
          BY <3>1, <3>3 DEF CloseConnection, Without, registry, RM!UnregisterUser
        <4> QED
          BY <1>1, <4>1 DEF Ghost
      <3> QED
        BY <3>2, <3>3
    <2>2. CASE Stop
      BY <2>2 DEF Stop
    <2>3. CASE ProcessRegister /\ ProcessMessage
      <3>1. conns' = conns
        BY <2>3 DEF ProcessMessage, server
      <3>2. Calling("frames") /\ DOMAIN usersById' \subseteq DOMAIN usersById \cup {Me}
        BY <2>3 DEF ProcessRegister, Processing, registry, RM!RegisterUser, RM!SetUser
      <3>3. Call.fd \notin DOMAIN conns
        BY <1>1, <3>1, <3>2 DEF Ghost, Me
      <3> QED
        BY <3>2, <3>3 DEF Dangling
    <2>4. CASE ~HandleClose /\ ~Stop /\ ~(ProcessRegister /\ ProcessMessage)
      BY <1>1, <2>4, QuietStep DEF Ghost
    <2> QED
      BY <2>1, <2>2, <2>3, <2>4
  <1>2. [Next]_vars =>
           [\A fd \in Fd : Ghost(fd)' /\ ~Ghost(fd) => Dangling \/ ~running']_vars
    BY <1>1
  <1> QED
    BY <1>2, PTL DEF Spec, GhostOnlyFromFreedBuffer

------------------------------------------------------------------------------
(* What the thread has still to do.  A base call is one that an event      *)
(* brought; the calls that it makes go on top of it, and under it is       *)
(* nothing but the handle_write of the same event.                         *)

ASeq(s) == \E S : s \in Seq(S)

Base == {"accept", "read", "write", "frames"}

(* Closes that hit the connection at once.                                 *)
AtOnce == {"write error", "end of stream"}

CallShape(call) ==
    /\ call.op \in Base \cup {"close", "send", "cast"}
    /\ CallOK(call)
    /\ call.op = "close" => call = [field \in {"op", "fds", "why"} |-> call[field]]
    /\ call.op = "close" /\ call.why \in AtOnce => \E fd : call.fds = {fd}
    /\ call.op = "send" => call = [field \in {"op", "fds", "m"} |-> call[field]]

Stack ==
    /\ ASeq(todo)
    /\ \A i \in 1 .. Len(todo) : CallShape(todo[i])
    /\ \A i, j \in 1 .. Len(todo) : i < j /\ todo[i].op \in Base => todo[j].op = "write"

(* The calls that hand on what a client said.                              *)
Carries(call) == call.op \in {"send", "cast"} /\ Spoken(call.m)

(* Why a connection is closed, of those that are still to be closed.       *)
Caused(call) ==
    \A fd \in call.fds \cap DOMAIN conns :
        LET s == sock[conns[fd].client]
        IN  /\ call.why = "write error" => s.rst
            /\ call.why = "end of stream" => s.fin \/ s.rst
            /\ call.why = "timeout" => fd \in quiet

(* The frames that handle_read has just read.                              *)
Fetched(call) ==
    /\ call.client \in Client /\ call.frames = sock[call.client].rx
    /\ sock'[call.client].rx = <<>> /\ sock'[call.client].sent = sock[call.client].sent

(* What a handler may put in the place of the call at the head of todo, as *)
(* the i-th of n calls.                                                    *)
Fits(call, i, n) ==
    /\ CallShape(call)
    /\ call.op \in Base =>
          /\ call.op = "frames" /\ i = n
          /\ Call.op = "frames" => call.client = Call.client /\ call.frames = Tail(Call.frames)
          /\ Call.op # "frames" => Call.op = "read" /\ Fetched(call)
    /\ call.op = "close" /\ call.why = "timeout" =>
          Call.op = "close" /\ Call.why = "timeout" /\ call.fds \subseteq Call.fds
    /\ call.op = "close" /\ call.why \in AtOnce => i = 1 /\ Caused(call)'
    /\ Carries(call) =>
          \/ /\ Carries(Call) /\ call.m = Call.m /\ call.op = "send"
             /\ Call.op = "send" => call.fds \subseteq Call.fds
          \/ /\ Call.op = "frames"
             /\ call.m.from = Call.client /\ call.m.n = Head(Call.frames).n

Pushed(calls) ==
    /\ ASeq(calls)
    /\ \A i \in 1 .. Len(calls) : Fits(calls[i], i, Len(calls))
    /\ \A i, j \in 1 .. Len(calls) : Carries(calls[i]) /\ Carries(calls[j]) => i = j

(* The calls in todo, before and after.                                    *)
LEMMA DoParts ==
    ASSUME ASeq(todo), todo # <<>>, NEW calls, ASeq(calls), Do(calls)
    PROVE  /\ Len(calls) \in Nat /\ Len(todo) \in Nat \ {0}
           /\ ASeq(todo') /\ Len(todo') = Len(calls) + Len(todo) - 1
           /\ Call = todo[1]
           /\ \A i \in 1 .. Len(todo') :
                 todo'[i] = IF i <= Len(calls) THEN calls[i] ELSE todo[i - Len(calls) + 1]
  <1>1. PICK A : todo \in Seq(A)
    BY DEF ASeq
  <1>2. PICK B : calls \in Seq(B)
    BY DEF ASeq
  <1>3. todo \in Seq(A \cup B) /\ calls \in Seq(A \cup B)
    BY <1>1, <1>2
  <1> DEFINE S == A \cup B
             rest == Tail(todo)
  <1>4. todo \in Seq(S) /\ calls \in Seq(S)
    BY <1>3
  <1> HIDE DEF S
  <1>5. /\ Len(todo) \in Nat \ {0} /\ Head(todo) = todo[1]
        /\ rest \in Seq(S) /\ Len(rest) = Len(todo) - 1
        /\ \A i \in 1 .. Len(rest) : rest[i] = todo[i + 1]
    BY <1>4, HeadTailProperties, LenProperties, EmptySeq
  <1>6. todo' = calls \o rest
    BY DEF Do
  <1> HIDE DEF rest
  <1>7. /\ todo' \in Seq(S) /\ Len(todo') = Len(calls) + Len(rest)
        /\ \A i \in 1 .. Len(calls) + Len(rest) :
              todo'[i] = IF i <= Len(calls) THEN calls[i] ELSE rest[i - Len(calls)]
    BY <1>4, <1>5, <1>6, ConcatProperties
  <1>8. Len(calls) \in Nat
    BY <1>4, LenProperties
  <1>9. ASSUME NEW i \in 1 .. Len(todo')
        PROVE  todo'[i] = IF i <= Len(calls) THEN calls[i] ELSE todo[i - Len(calls) + 1]
    <2>1. i \in 1 .. Len(calls) + Len(rest)
      BY <1>7
    <2>2. CASE i <= Len(calls)
      BY <1>7, <2>1, <2>2
    <2>3. CASE ~(i <= Len(calls))
      <3>1. i - Len(calls) \in 1 .. Len(rest)
        BY <1>5, <1>8, <2>1, <2>3
      <3> QED
        BY <1>5, <1>7, <2>1, <2>3, <3>1
    <2> QED
      BY <2>2, <2>3
  <1> QED
    BY <1>5, <1>7, <1>8, <1>9 DEF ASeq, Call

(* Such calls leave a stack of the same form.                              *)
LEMMA PushedStack ==
    ASSUME Stack, todo # <<>>, NEW calls, Pushed(calls), Do(calls)
    PROVE  Stack'
  <1>1. ASeq(calls) /\ ASeq(todo)
    BY DEF Pushed, Stack
  <1>2. /\ Len(calls) \in Nat /\ Len(todo) \in Nat \ {0}
        /\ ASeq(todo') /\ Len(todo') = Len(calls) + Len(todo) - 1
        /\ Call = todo[1]
        /\ \A i \in 1 .. Len(todo') :
              todo'[i] = IF i <= Len(calls) THEN calls[i] ELSE todo[i - Len(calls) + 1]
    BY <1>1, DoParts
  <1>3. ASSUME NEW i \in 1 .. Len(todo'), ~(i <= Len(calls))
        PROVE  i - Len(calls) + 1 \in 2 .. Len(todo) /\ todo'[i] = todo[i - Len(calls) + 1]
    <2>1. PICK a, b : a = Len(calls) /\ b = Len(todo)
      OBVIOUS
    <2>2. a \in Nat /\ b \in Nat \ {0} /\ i \in 1 .. a + b - 1 /\ ~(i <= a)
      BY <1>2, <1>3, <2>1
    <2>3. i - a + 1 \in 2 .. b
      BY ONLY <2>2
    <2>4. todo'[i] = IF i <= Len(calls) THEN calls[i] ELSE todo[i - Len(calls) + 1]
      BY ONLY <1>2, i \in 1 .. Len(todo')
    <2> QED
      BY ONLY <1>3, <2>1, <2>3, <2>4
  <1>4. ASSUME NEW i \in 1 .. Len(todo'), i <= Len(calls)
        PROVE  i \in 1 .. Len(calls) /\ todo'[i] = calls[i]
    BY <1>2, <1>4
  <1>5. ASSUME NEW i \in 1 .. Len(todo') PROVE CallShape(todo'[i])
    <2>1. CASE i <= Len(calls)
      BY <1>4, <2>1 DEF Pushed, Fits
    <2>2. CASE ~(i <= Len(calls))
      <3>1. i - Len(calls) + 1 \in 1 .. Len(todo)
        BY <1>2, <1>3, <2>2
      <3> QED
        BY <1>3, <2>2, <3>1 DEF Stack
    <2> QED
      BY <2>1, <2>2
  <1>6. ASSUME NEW i \in 1 .. Len(todo'), NEW j \in 1 .. Len(todo'), i < j,
               todo'[i].op \in Base
        PROVE  todo'[j].op = "write"
    <2>1. CASE i <= Len(calls)
      <3>1. calls[i].op \in Base /\ i = Len(calls) /\ todo[1].op \in Base
        <4>1. Fits(calls[i], i, Len(calls)) /\ todo'[i] = calls[i]
          BY <1>4, <2>1 DEF Pushed
        <4> QED
          BY <1>2, <1>6, <4>1 DEF Fits, Base
      <3>2. ~(j <= Len(calls))
        BY <1>2, <1>6, <3>1
      <3>3. j - Len(calls) + 1 \in 2 .. Len(todo) /\ todo'[j] = todo[j - Len(calls) + 1]
        BY <1>3, <3>2
      <3> DEFINE k == j - Len(calls) + 1
      <3>4. k \in 1 .. Len(todo) /\ 1 \in 1 .. Len(todo) /\ 1 < k
        BY <1>2, <3>3
      <3> HIDE DEF k
      <3>5. todo[k].op = "write"
        BY <3>1, <3>4 DEF Stack
      <3> QED
        BY <3>3, <3>5 DEF k
    <2>2. CASE ~(i <= Len(calls))
      <3> DEFINE k == j - Len(calls) + 1
                 h == i - Len(calls) + 1
      <3>1. ~(j <= Len(calls))
        BY <1>2, <1>6, <2>2
      <3>2. h \in 1 .. Len(todo) /\ k \in 1 .. Len(todo) /\ h < k
        BY <1>2, <1>3, <1>6, <2>2, <3>1
      <3>3. todo'[i] = todo[h] /\ todo'[j] = todo[k]
        BY <1>3, <2>2, <3>1
      <3> HIDE DEF k, h
      <3> QED
        BY <1>6, <3>2, <3>3 DEF Stack
    <2> QED
      BY <2>1, <2>2
  <1> QED
    BY <1>2, <1>5, <1>6 DEF Stack

(* Calls that say nothing and close nobody out of turn, after at most one  *)
(* that says what the frame being processed says.                          *)
Minor(call) ==
    /\ CallShape(call) /\ call.op \notin Base /\ ~Carries(call)
    /\ call.op = "close" => call.why \notin AtOnce \cup {"timeout"}

Saying(call) ==
    /\ CallShape(call) /\ Carries(call)
    /\ call.m.from = Call.client /\ call.m.n = Head(Call.frames).n

Reaction(calls) ==
    /\ ASeq(calls)
    /\ \A i \in 1 .. Len(calls) : Minor(calls[i]) \/ (i = 1 /\ Saying(calls[i]))

LEMMA MinorFits ==
    ASSUME NEW call, Minor(call), NEW i, NEW n
    PROVE  Fits(call, i, n)
  BY DEF Minor, Fits

LEMMA SayingFits ==
    ASSUME NEW call, Saying(call), Calling("frames"), NEW i, NEW n
    PROVE  Fits(call, i, n)
  <1>1. call.op \in {"send", "cast"} /\ Call.op = "frames"
    BY DEF Saying, Carries, Calling
  <1> QED
    BY <1>1 DEF Saying, Fits, Base

(* Up to four calls at once.                                               *)
LEMMA Calls0 == ASeq(<<>>) /\ Len(<<>>) = 0
  BY DEF ASeq

LEMMA Calls1 ==
    ASSUME NEW a
    PROVE  ASeq(<<a>>) /\ Len(<<a>>) = 1 /\ <<a>>[1] = a
  <1>1. <<a>> \in Seq({a})
    OBVIOUS
  <1> QED
    BY <1>1 DEF ASeq

LEMMA Calls2 ==
    ASSUME NEW a, NEW b
    PROVE  ASeq(<<a, b>>) /\ Len(<<a, b>>) = 2 /\ <<a, b>>[1] = a /\ <<a, b>>[2] = b
  <1>1. <<a, b>> \in Seq({a, b})
    OBVIOUS
  <1> QED
    BY <1>1 DEF ASeq

LEMMA Calls3 ==
    ASSUME NEW a, NEW b, NEW c
    PROVE  /\ ASeq(<<a, b, c>>) /\ Len(<<a, b, c>>) = 3
           /\ <<a, b, c>>[1] = a /\ <<a, b, c>>[2] = b /\ <<a, b, c>>[3] = c
  <1>1. <<a, b, c>> \in Seq({a, b, c})
    OBVIOUS
  <1> QED
    BY <1>1 DEF ASeq

LEMMA Joined ==
    ASSUME NEW a, NEW b
    PROVE  <<a>> \o <<b>> = <<a, b>>
  <1> DEFINE S == {a, b}
  <1>1. <<a>> \in Seq(S) /\ Len(<<a>>) = 1 /\ <<a>>[1] = a
    OBVIOUS
  <1>2. <<b>> \in Seq(S) /\ Len(<<b>>) = 1 /\ <<b>>[1] = b
    OBVIOUS
  <1>3. <<a, b>> \in Seq(S) /\ Len(<<a, b>>) = 2 /\ <<a, b>>[1] = a /\ <<a, b>>[2] = b
    OBVIOUS
  <1> HIDE DEF S
  <1>4. PICK u, v, w : u = <<a>> /\ v = <<b>> /\ w = <<a, b>>
    OBVIOUS
  <1>5. /\ u \o v \in Seq(S) /\ Len(u \o v) = 2
        /\ \A i \in 1 .. 2 : (u \o v)[i] = IF i <= 1 THEN u[i] ELSE v[i - 1]
    BY <1>1, <1>2, <1>4, ConcatProperties
  <1>6. \A i \in 1 .. 2 : i = 1 \/ i = 2
    OBVIOUS
  <1>7. \A i \in 1 .. 2 : (u \o v)[i] = w[i]
    BY <1>1, <1>2, <1>3, <1>4, <1>5, <1>6
  <1>8. u \o v = w
    BY <1>3, <1>4, <1>5, <1>7, SeqEqual
  <1> QED
    BY <1>4, <1>8

LEMMA Reaction1 ==
    ASSUME NEW a, Minor(a) \/ Saying(a),
           NEW calls, calls = <<a>>
    PROVE  Reaction(calls)
  <1>1. ASeq(calls) /\ Len(calls) = 1 /\ calls[1] = a
    BY Calls1
  <1>2. \A i \in 1 .. Len(calls) : i = 1
    BY <1>1
  <1>3. Minor(calls[1]) \/ Saying(calls[1])
    BY <1>1
  <1>4. \A i \in 1 .. Len(calls) : Minor(calls[i]) \/ (i = 1 /\ Saying(calls[i]))
    BY <1>1, <1>2, <1>3
  <1> QED
    BY <1>1, <1>4 DEF Reaction

LEMMA Reaction2 ==
    ASSUME NEW a, Minor(a) \/ Saying(a), NEW b, Minor(b),
           NEW calls, calls = <<a, b>>
    PROVE  Reaction(calls)
  <1>1. ASeq(calls) /\ Len(calls) = 2 /\ calls[1] = a /\ calls[2] = b
    BY Calls2
  <1>2. \A i \in 1 .. Len(calls) : i = 1 \/ i = 2
    BY <1>1
  <1>3. Minor(calls[1]) \/ Saying(calls[1])
    BY <1>1
  <1>4. \A i \in 1 .. Len(calls) : Minor(calls[i]) \/ (i = 1 /\ Saying(calls[i]))
    BY <1>1, <1>2, <1>3
  <1> QED
    BY <1>1, <1>4 DEF Reaction

LEMMA Reaction3 ==
    ASSUME NEW a, Minor(a), NEW b, Minor(b), NEW c, Minor(c),
           NEW calls, calls = <<a, b, c>>
    PROVE  Reaction(calls)
  <1>1. ASeq(calls) /\ Len(calls) = 3 /\ calls[1] = a /\ calls[2] = b /\ calls[3] = c
    BY Calls3
  <1>2. \A i \in 1 .. Len(calls) : i = 1 \/ i = 2 \/ i = 3
    BY <1>1
  <1>3. Minor(calls[1]) \/ Saying(calls[1])
    BY <1>1
  <1>4. \A i \in 1 .. Len(calls) : Minor(calls[i]) \/ (i = 1 /\ Saying(calls[i]))
    BY <1>1, <1>2, <1>3
  <1> QED
    BY <1>1, <1>4 DEF Reaction

(* A single call that fits is all that a handler may make.                 *)
LEMMA PushedOne ==
    ASSUME NEW a, NEW calls, calls = <<a>>, Fits(a, 1, 1)
    PROVE  Pushed(calls)
  <1>1. ASeq(calls) /\ Len(calls) = 1 /\ calls[1] = a
    BY Calls1
  <1>2. \A i \in 1 .. Len(calls) : i = 1
    BY <1>1
  <1> QED
    BY <1>1, <1>2 DEF Pushed

LEMMA PushedNone == Pushed(<<>>)
  <1> PICK calls : calls = <<>>
    OBVIOUS
  <1>1. ASeq(calls) /\ Len(calls) = 0
    BY Calls0
  <1>2. \A i \in 1 .. Len(calls) : FALSE
    BY <1>1
  <1>3. Pushed(calls)
    BY <1>1, <1>2 DEF Pushed
  <1> QED
    BY <1>3

LEMMA PushedReaction ==
    ASSUME NEW calls, Reaction(calls), Calling("frames")
    PROVE  Pushed(calls)
  <1>1. \A i \in 1 .. Len(calls) : Fits(calls[i], i, Len(calls))
    BY MinorFits, SayingFits DEF Reaction
  <1>2. ASSUME NEW i \in 1 .. Len(calls), Carries(calls[i])
        PROVE  i = 1
    BY <1>2 DEF Reaction, Minor
  <1> QED
    BY <1>1, <1>2 DEF Pushed, Reaction

(* The calls of one frame, and then the frames behind it.                  *)
LEMMA PushedFrame ==
    ASSUME Stack, Calling("frames"), NEW reaction, Reaction(reaction), Process(reaction)
    PROVE  \E calls : Do(calls) /\ Pushed(calls)
  <1> DEFINE more == Frames(Me, Call.client, Tail(Call.frames))
  <1>1. CASE Tail(Call.frames) = <<>>
    <2>1. reaction \o <<>> = reaction
      BY DEF Reaction, ASeq
    <2>2. Do(reaction)
      BY <1>1, <2>1 DEF Process, FrameLoop
    <2> QED
      BY <2>2, PushedReaction
  <1>2. CASE Tail(Call.frames) # <<>>
    <2>1. PICK last : last = more
      OBVIOUS
    <2>2. PICK calls : calls = Append(reaction, last)
      OBVIOUS
    <2>3. PICK S : reaction \in Seq(S)
      BY DEF Reaction, ASeq
    <2>4. PICK T : T = S \cup {last}
      OBVIOUS
    <2>5. reaction \in Seq(T) /\ last \in T
      BY <2>3, <2>4
    <2>6. /\ calls \in Seq(T) /\ Len(calls) = Len(reaction) + 1
          /\ \A i \in 1 .. Len(reaction) : calls[i] = reaction[i]
          /\ calls[Len(reaction) + 1] = last
          /\ Len(reaction) \in Nat
      BY <2>2, <2>5, AppendProperties, LenProperties
    <2>7. Do(calls)
      <3>1. reaction \o <<last>> = Append(reaction, last)
        BY <2>5
      <3> QED
        BY <1>2, <2>1, <2>2, <3>1 DEF Do, Process, FrameLoop
    <2>8. Call.op = "frames" /\ CallShape(Call)
      <3>1. Call = todo[1] /\ 1 \in 1 .. Len(todo)
        BY HeadTailProperties, LenProperties DEF Calling, Stack, ASeq, Call
      <3> QED
        BY <3>1 DEF Calling, Stack
    <2>9. /\ last.op = "frames" /\ last.client = Call.client
          /\ last.frames = Tail(Call.frames) /\ last.fd = Call.fd
      BY <2>1 DEF Frames, Me
    <2>10. Fits(last, Len(reaction) + 1, Len(calls))
      <3>1. CallShape(last)
        BY <1>2, <2>8, <2>9 DEF CallShape, CallOK, Base
      <3> QED
        BY <2>6, <2>8, <2>9, <3>1 DEF Fits, Carries
    <2>11. ASSUME NEW i \in 1 .. Len(calls)
           PROVE  i \in 1 .. Len(reaction) \/ i = Len(reaction) + 1
      BY <2>6
    <2>12. ASSUME NEW i \in 1 .. Len(calls)
           PROVE  Fits(calls[i], i, Len(calls)) /\ (Carries(calls[i]) => i = 1)
      <3>1. CASE i \in 1 .. Len(reaction)
        <4>1. calls[i] = reaction[i]
          BY <2>6, <3>1
        <4>2. Minor(reaction[i]) \/ (i = 1 /\ Saying(reaction[i]))
          BY <3>1 DEF Reaction
        <4> QED
          BY <4>1, <4>2, MinorFits, SayingFits DEF Minor
      <3>2. CASE i = Len(reaction) + 1
        BY <2>6, <2>9, <2>10, <3>2 DEF Carries
      <3> QED
        BY <2>11, <3>1, <3>2
    <2>13. Pushed(calls)
      BY <2>6, <2>12 DEF Pushed, ASeq
    <2> QED
      BY <2>7, <2>13
  <1> QED
    BY <1>1, <1>2

(* What remains of a loop over descriptors.                                *)
LEMMA LoopFits ==
    ASSUME CallShape(Call), Call.op \in {"close", "send"},
           NEW fd \in Call.fds, Call.fds # {fd},
           NEW rest, rest = [Call EXCEPT !.fds = @ \ {fd}], NEW i, NEW n
    PROVE  Fits(rest, i, n)
  <1>1. CASE Call.op = "close"
    <2>1. Call = [field \in {"op", "fds", "why"} |-> Call[field]]
      BY <1>1 DEF CallShape
    <2>2. /\ rest = [field \in {"op", "fds", "why"} |-> rest[field]]
          /\ rest.op = "close" /\ rest.why = Call.why /\ rest.fds = Call.fds \ {fd}
      BY <1>1, <2>1
    <2>3. Call.why \notin AtOnce
      BY <1>1 DEF CallShape
    <2>4. CallShape(rest)
      BY <1>1, <2>2, <2>3 DEF CallShape, CallOK
    <2> QED
      BY <1>1, <2>2, <2>3, <2>4 DEF Fits, Base, Carries
  <1>2. CASE Call.op = "send"
    <2>1. Call = [field \in {"op", "fds", "m"} |-> Call[field]]
      BY <1>2 DEF CallShape
    <2>2. /\ rest = [field \in {"op", "fds", "m"} |-> rest[field]]
          /\ rest.op = "send" /\ rest.m = Call.m /\ rest.fds = Call.fds \ {fd}
      BY <1>2, <2>1
    <2>3. CallShape(rest)
      BY <1>2, <2>2 DEF CallShape, CallOK
    <2> QED
      BY <1>2, <2>2, <2>3 DEF Fits, Base, Carries
  <1> QED
    BY <1>1, <1>2

LEMMA LoopPushed ==
    ASSUME CallShape(Call), Call.op \in {"close", "send"},
           NEW fd \in Call.fds, NEW calls, calls = Loop(fd)
    PROVE  Pushed(calls)
  <1>1. CASE Call.fds = {fd}
    BY <1>1, PushedNone DEF Loop
  <1>2. CASE Call.fds # {fd}
    <2>1. PICK rest : rest = [Call EXCEPT !.fds = @ \ {fd}]
      OBVIOUS
    <2>2. calls = <<rest>>
      BY <1>2, <2>1 DEF Loop
    <2> QED
      BY <1>2, <2>1, <2>2, LoopFits, PushedOne
  <1> QED
    BY <1>1, <1>2

(* A call on top of it.                                                    *)
LEMMA LoopBelowPushed ==
    ASSUME CallShape(Call), Call.op \in {"close", "send"},
           NEW fd \in Call.fds, NEW top, NEW calls, calls = <<top>> \o Loop(fd),
           top.op \notin Base, ~Carries(top), \A n : Fits(top, 1, n)
    PROVE  Pushed(calls)
  <1>1. CASE Call.fds = {fd}
    <2>1. calls = <<top>>
      BY <1>1 DEF Loop
    <2> QED
      BY <2>1, PushedOne
  <1>2. CASE Call.fds # {fd}
    <2>1. PICK rest : rest = [Call EXCEPT !.fds = @ \ {fd}]
      OBVIOUS
    <2>2. calls = <<top, rest>>
      <3>1. Loop(fd) = <<rest>>
        BY <1>2, <2>1 DEF Loop
      <3> QED
        BY <3>1, Joined
    <2>3. ASeq(calls) /\ Len(calls) = 2 /\ calls[1] = top /\ calls[2] = rest
      BY ONLY <2>2, Calls2
    <2>4. \A i \in 1 .. Len(calls) : i = 1 \/ i = 2
      BY <2>3
    <2>5. Fits(calls[1], 1, Len(calls))
      BY <2>3
    <2>6. Fits(calls[2], 2, Len(calls))
      BY <1>2, <2>1, <2>3, LoopFits
    <2> QED
      BY <2>3, <2>4, <2>5, <2>6 DEF Pushed
  <1> QED
    BY <1>1, <1>2

(* What the handlers take from the registry are descriptors and rooms.     *)
RegistryShape ==
    /\ \A fd \in DOMAIN usersById : usersById[fd].currentRoom \in RoomName
    /\ \A name \in DOMAIN usersByName : usersByName[name] \in Fd
    /\ \A r : RM!RoomMembers(r) \subseteq Fd

(* The head of todo has been done in one of the ways above.                *)
Advanced == \E calls : Do(calls) /\ Pushed(calls)

LEMMA HeadShape ==
    ASSUME Stack, todo # <<>>
    PROVE  CallShape(Call)
  <1>1. Call = todo[1] /\ 1 \in 1 .. Len(todo)
    BY HeadTailProperties, LenProperties DEF Stack, ASeq, Call
  <1> QED
    BY <1>1 DEF Stack

LEMMA NonePushed ==
    ASSUME Do(<<>>)
    PROVE  Advanced
  BY PushedNone DEF Advanced

LEMMA ReadPushes ==
    ASSUME IInv, Stack, HandleRead
    PROVE  Advanced
  <1>1. Call.op = "read" /\ todo # <<>> /\ conns' = conns
    BY DEF HandleRead, Calling
  <1>2. Call.fd \in Fd
    BY <1>1, HeadShape DEF CallShape, CallOK
  <1>3. CASE Call.fd \notin DOMAIN conns
    BY <1>3, NonePushed DEF HandleRead
  <1>4. CASE Call.fd \in DOMAIN conns
    <2>1. PICK c : c = conns[Call.fd].client
      OBVIOUS
    <2>2. c \in Client
      BY <1>4, <2>1 DEF IInv, Shape
    <2>3. CASE sock[c].fin \/ sock[c].rst
      <3>1. PICK call : call = Close({Call.fd}, "end of stream")
        OBVIOUS
      <3>2. PICK calls : calls = <<call>>
        OBVIOUS
      <3>3. Do(calls) /\ sock' = sock
        BY <1>4, <2>1, <2>3, <3>1, <3>2 DEF HandleRead
      <3>4. /\ call = [field \in {"op", "fds", "why"} |-> call[field]]
            /\ call.op = "close" /\ call.why = "end of stream" /\ call.fds = {Call.fd}
        BY <3>1 DEF Close
      <3>5. CallShape(call)
        BY <1>2, <3>4 DEF CallShape, CallOK
      <3>6. Caused(call)'
        <4>1. call.why # "write error" /\ call.why # "timeout"
          BY <3>4
        <4>2. \A fd \in call.fds \cap DOMAIN conns :
                 sock[conns[fd].client].fin \/ sock[conns[fd].client].rst
          BY <2>1, <2>3, <3>4
        <4> QED
          BY <1>1, <3>3, <4>1, <4>2 DEF Caused
      <3>7. Fits(call, 1, 1)
        BY <3>4, <3>5, <3>6 DEF Fits, Base, Carries
      <3> QED
        BY <3>2, <3>3, <3>7, PushedOne DEF Advanced
    <2>4. CASE ~(sock[c].fin \/ sock[c].rst)
      <3>1. /\ Do(FrameLoop(Call.fd, c, sock[c].rx))
            /\ sock' = [sock EXCEPT ![c].rx = <<>>]
        BY <1>4, <2>1, <2>4 DEF HandleRead
      <3>2. CASE sock[c].rx = <<>>
        BY <3>1, <3>2, NonePushed DEF FrameLoop
      <3>3. CASE sock[c].rx # <<>>
        <4>1. PICK call : call = Frames(Call.fd, c, sock[c].rx)
          OBVIOUS
        <4>2. PICK calls : calls = <<call>>
          OBVIOUS
        <4>3. Do(calls)
          BY <3>1, <3>3, <4>1, <4>2 DEF FrameLoop
        <4>4. /\ call.op = "frames" /\ call.client = c /\ call.fd = Call.fd
              /\ call.frames = sock[c].rx
          BY <4>1 DEF Frames
        <4>5. CallShape(call)
          BY <1>2, <2>2, <3>3, <4>4 DEF CallShape, CallOK, Base
        <4>6. sock'[c].rx = <<>> /\ sock'[c].sent = sock[c].sent
          <5>1. Socket(sock[c]) /\ sock = [d \in Client |-> sock[d]]
            BY <2>2 DEF IInv, Shape
          <5> QED
            BY <2>2, <3>1, <5>1 DEF Socket
        <4>7. Fetched(call)
          BY <2>2, <4>4, <4>6 DEF Fetched
        <4>8. Fits(call, 1, 1)
          BY <1>1, <4>4, <4>5, <4>7 DEF Fits, Carries
        <4> QED
          BY <4>2, <4>3, <4>8, PushedOne DEF Advanced
      <3> QED
        BY <3>2, <3>3
    <2> QED
      BY <2>3, <2>4
  <1> QED
    BY <1>3, <1>4

(* A close for a broken socket comes first and hits it at once.            *)
LEMMA WriteErrorFits ==
    ASSUME IInv, NEW fd \in DOMAIN conns, sock[conns[fd].client].rst,
           NEW call, call = Close({fd}, "write error"),
           sock' = sock, conns'[fd].client = conns[fd].client, NEW n
    PROVE  Fits(call, 1, n) /\ call.op = "close" /\ ~Carries(call)
  <1>1. /\ call = [field \in {"op", "fds", "why"} |-> call[field]]
        /\ call.op = "close" /\ call.why = "write error" /\ call.fds = {fd}
    BY DEF Close
  <1>2. fd \in Fd
    BY DEF IInv, Shape
  <1>3. CallShape(call)
    BY <1>1, <1>2 DEF CallShape, CallOK
  <1>4. Caused(call)'
    <2>1. call.why # "end of stream" /\ call.why # "timeout"
      BY <1>1
    <2>2. \A d \in call.fds \cap DOMAIN conns' : sock'[conns'[d].client].rst
      BY <1>1
    <2> QED
      BY <2>1, <2>2 DEF Caused
  <1> QED
    BY <1>1, <1>3, <1>4 DEF Fits, Base, Carries

LEMMA WritePushes ==
    ASSUME IInv, Stack, HandleWrite
    PROVE  Advanced
  <1>1. CASE Call.fd \in DOMAIN conns /\ conns[Call.fd].out # <<>>
             /\ sock[conns[Call.fd].client].rst
    <2>1. PICK call : call = Close({Call.fd}, "write error")
      OBVIOUS
    <2>2. PICK calls : calls = <<call>>
      OBVIOUS
    <2>3. Do(calls) /\ UNCHANGED <<sock, conns>>
      BY <1>1, <2>1, <2>2 DEF HandleWrite
    <2>4. Fits(call, 1, 1)
      BY <1>1, <2>1, <2>3, WriteErrorFits
    <2> QED
      BY <2>2, <2>3, <2>4, PushedOne DEF Advanced
  <1>2. CASE ~(Call.fd \in DOMAIN conns /\ conns[Call.fd].out # <<>>
               /\ sock[conns[Call.fd].client].rst)
    <2>1. Do(<<>>)
      BY <1>2 DEF HandleWrite
    <2> QED
      BY <2>1, NonePushed
  <1> QED
    BY <1>1, <1>2

(* What is left of a send goes to the others.                              *)
OthersOnly(calls, fd) ==
    \A i \in 1 .. Len(calls) :
        calls[i].op = "send" => calls[i].fds \subseteq Call.fds \ {fd}

LEMMA LoopSends ==
    ASSUME Call.op = "send", CallShape(Call), NEW fd, NEW calls, calls = Loop(fd)
    PROVE  OthersOnly(calls, fd)
  <1>1. CASE Call.fds = {fd}
    <2>1. calls = <<>>
      BY <1>1 DEF Loop
    <2>2. \A i \in 1 .. Len(calls) : FALSE
      BY <2>1
    <2> QED
      BY <2>2 DEF OthersOnly
  <1>2. CASE Call.fds # {fd}
    <2>1. PICK rest : rest = [Call EXCEPT !.fds = @ \ {fd}]
      OBVIOUS
    <2>2. calls = <<rest>>
      BY <1>2, <2>1 DEF Loop
    <2>3. Len(calls) = 1 /\ calls[1] = rest
      BY <2>2, Calls1
    <2>4. Call = [field \in {"op", "fds", "m"} |-> Call[field]]
      BY DEF CallShape
    <2>5. rest.fds = Call.fds \ {fd}
      BY <2>1, <2>4
    <2>6. \A i \in 1 .. Len(calls) : i = 1
      BY <2>3
    <2> QED
      BY <2>3, <2>5, <2>6 DEF OthersOnly
  <1> QED
    BY <1>1, <1>2

LEMMA SendPushes ==
    ASSUME IInv, Stack, Calling("send"), NEW fd \in Call.fds, SendToFd(fd)
    PROVE  \E calls : Do(calls) /\ Pushed(calls) /\ OthersOnly(calls, fd)
  <1>1. Call.op = "send" /\ CallShape(Call)
    BY HeadShape DEF Calling
  <1>2. PICK loop : loop = Loop(fd)
    OBVIOUS
  <1>3. OthersOnly(loop, fd)
    BY <1>1, <1>2, LoopSends
  <1>4. CASE fd \in DOMAIN conns /\ sock[conns[fd].client].rst
    <2>1. PICK top : top = Close({fd}, "write error")
      OBVIOUS
    <2>2. PICK calls : calls = <<top>> \o loop
      OBVIOUS
    <2> DEFINE out == Append(conns[fd].out, Call.m)
               k == [conns[fd] EXCEPT !.out = out]
    <2>3. Do(calls) /\ sock' = sock /\ conns' = [conns EXCEPT ![fd] = k]
      BY <1>2, <1>4, <2>1, <2>2 DEF SendToFd
    <2> HIDE DEF out
    <2>4. conns'[fd].client = conns[fd].client
      BY <1>4, <2>3 DEF IInv, Shape, Connection
    <2>5. \A n : Fits(top, 1, n) /\ top.op = "close" /\ ~Carries(top)
      BY <1>4, <2>1, <2>3, <2>4, WriteErrorFits
    <2>6. Pushed(calls)
      BY <1>1, <1>2, <2>2, <2>5, LoopBelowPushed DEF Base
    <2>7. OthersOnly(calls, fd)
      <3>1. CASE loop = <<>>
        <4>1. calls = <<top>>
          BY <2>2, <3>1
        <4>2. Len(calls) = 1 /\ calls[1] = top
          BY <4>1, Calls1
        <4>3. \A i \in 1 .. Len(calls) : i = 1
          BY <4>2
        <4> QED
          BY <2>5, <4>2, <4>3 DEF OthersOnly
      <3>2. CASE loop # <<>>
        <4>1. PICK rest : loop = <<rest>>
          BY <1>2, <3>2 DEF Loop
        <4>2. calls = <<top, rest>>
          BY <2>2, <4>1, Joined
        <4>3. Len(calls) = 2 /\ calls[1] = top /\ calls[2] = rest
          BY ONLY <4>2, Calls2
        <4>4. Len(loop) = 1 /\ loop[1] = rest
          BY ONLY <4>1, Calls1
        <4>5. \A i \in 1 .. Len(calls) : i = 1 \/ i = 2
          BY <4>3
        <4>6. 1 \in 1 .. Len(loop)
          BY <4>4
        <4> QED
          BY <1>3, <2>5, <4>3, <4>4, <4>5, <4>6 DEF OthersOnly
      <3> QED
        BY <3>1, <3>2
    <2> QED
      BY <2>3, <2>6, <2>7
  <1>5. CASE ~(fd \in DOMAIN conns /\ sock[conns[fd].client].rst)
    <2>1. Do(loop)
      BY <1>2, <1>5 DEF SendToFd
    <2>2. Pushed(loop)
      BY <1>1, <1>2, LoopPushed
    <2> QED
      BY <1>3, <2>1, <2>2
  <1> QED
    BY <1>4, <1>5

LEMMA BroadcastPushes ==
    ASSUME Stack, RegistryShape, Broadcast
    PROVE  Advanced
  <1>1. Call.op = "cast" /\ CallShape(Call)
    BY HeadShape DEF Broadcast, Calling
  <1>2. PICK members : members = RM!RoomMembers(Call.room) \ Call.exclude
    OBVIOUS
  <1>3. members \subseteq Fd
    BY <1>2 DEF RegistryShape
  <1>4. CASE members = {}
    BY <1>2, <1>4, NonePushed DEF Broadcast
  <1>5. CASE members # {}
    <2>1. PICK call : call = Send(members, Call.m)
      OBVIOUS
    <2>2. PICK calls : calls = <<call>>
      OBVIOUS
    <2>3. Do(calls)
      BY <1>2, <1>5, <2>1, <2>2 DEF Broadcast
    <2>4. /\ call = [field \in {"op", "fds", "m"} |-> call[field]]
          /\ call.op = "send" /\ call.fds = members /\ call.m = Call.m
      BY <2>1 DEF Send
    <2>5. CallShape(call)
      BY <1>3, <1>5, <2>4 DEF CallShape, CallOK
    <2>6. Fits(call, 1, 1)
      BY <1>1, <2>4, <2>5 DEF Fits, Base, Carries
    <2> QED
      BY <2>2, <2>3, <2>6, PushedOne DEF Advanced
  <1> QED
    BY <1>4, <1>5

LEMMA ClosePushes ==
    ASSUME Stack, RegistryShape, HandleClose
    PROVE  Advanced
  <1>1. Call.op = "close" /\ CallShape(Call)
    BY HeadShape DEF HandleClose, Calling
  <1>2. PICK fd \in Call.fds : IF fd \in DOMAIN conns THEN CloseConnection(fd)
                              ELSE Do(Loop(fd))
    BY DEF HandleClose
  <1>3. CASE Do(Loop(fd))
    BY <1>1, <1>3, LoopPushed DEF Advanced
  <1>4. CASE fd \in DOMAIN usersById
             /\ Do(<<Cast(usersById[fd].currentRoom, Notice, {})>> \o Loop(fd))
    <2>1. PICK top : top = Cast(usersById[fd].currentRoom, Notice, {})
      OBVIOUS
    <2>2. PICK calls : calls = <<top>> \o Loop(fd)
      OBVIOUS
    <2>3. /\ top.op = "cast" /\ top.room \in RoomName /\ top.exclude = {}
          /\ top.m.type = "SERVER_NOTIFICATION"
      BY <1>4, <2>1 DEF Cast, Notice, RegistryShape
    <2>4. CallShape(top)
      BY <2>3 DEF CallShape, CallOK
    <2>5. top.op \notin Base /\ ~Carries(top)
      BY <2>3 DEF Base, Carries, Spoken
    <2>6. \A n : Fits(top, 1, n)
      BY <2>3, <2>4, <2>5 DEF Fits
    <2>7. Do(calls)
      BY <1>4, <2>1, <2>2
    <2> QED
      BY <1>1, <2>2, <2>5, <2>6, <2>7, LoopBelowPushed DEF Advanced
  <1> QED
    BY <1>2, <1>3, <1>4 DEF CloseConnection, RM!UnregisterUser

(* What process_message calls, but for what it passes on.                  *)
Unspoken == {Notice, Error, Answer}

LEMMA SendMinor ==
    ASSUME NEW fd \in Fd, NEW m \in Unspoken, NEW call, call = Send({fd}, m)
    PROVE  Minor(call)
  <1>1. ~Spoken(m)
    BY DEF Unspoken, Notice, Error, Answer, Spoken
  <1>2. /\ call = [field \in {"op", "fds", "m"} |-> call[field]]
        /\ call.op = "send" /\ call.fds = {fd} /\ call.m = m
    BY DEF Send
  <1>3. CallShape(call)
    BY <1>2 DEF CallShape, CallOK
  <1> QED
    BY <1>1, <1>2, <1>3 DEF Minor, Carries, Base

LEMMA CastMinor ==
    ASSUME NEW r \in RoomName, NEW m \in Unspoken, NEW exclude \in SUBSET Fd,
           NEW call, call = Cast(r, m, exclude)
    PROVE  Minor(call)
  <1>1. ~Spoken(m)
    BY DEF Unspoken, Notice, Error, Answer, Spoken
  <1>2. call.op = "cast" /\ call.room = r /\ call.exclude = exclude /\ call.m = m
    BY DEF Cast
  <1>3. CallShape(call)
    BY <1>2 DEF CallShape, CallOK
  <1> QED
    BY <1>1, <1>2, <1>3 DEF Minor, Carries, Base

LEMMA CloseMinor ==
    ASSUME NEW fd \in Fd, NEW why \in {"disconnect", "violation"},
           NEW call, call = Close({fd}, why)
    PROVE  Minor(call)
  <1>1. /\ call = [field \in {"op", "fds", "why"} |-> call[field]]
        /\ call.op = "close" /\ call.fds = {fd} /\ call.why = why
    BY DEF Close
  <1>2. why \notin AtOnce \cup {"timeout"}
    BY DEF AtOnce
  <1>3. CallShape(call)
    BY <1>1, <1>2 DEF CallShape, CallOK
  <1> QED
    BY <1>1, <1>2, <1>3 DEF Minor, Carries, Base

LEMMA CastSaying ==
    ASSUME NEW r \in RoomName, NEW call,
           call = Cast(r, Chat(Call.client, Frame.n), {})
    PROVE  Saying(call)
  <1>1. /\ call.op = "cast" /\ call.room = r /\ call.exclude = {}
        /\ call.m.type = "CHAT_MESSAGE" /\ call.m.from = Call.client /\ call.m.n = Frame.n
    BY DEF Cast, Chat
  <1>2. CallShape(call)
    BY <1>1 DEF CallShape, CallOK
  <1> QED
    BY <1>1, <1>2 DEF Saying, Carries, Spoken, Frame

LEMMA SendSaying ==
    ASSUME NEW fd \in Fd, NEW call,
           call = Send({fd}, Private(Call.client, Frame.n))
    PROVE  Saying(call)
  <1>1. /\ call = [field \in {"op", "fds", "m"} |-> call[field]]
        /\ call.op = "send" /\ call.fds = {fd} /\ call.m.type = "PRIVATE_MESSAGE"
        /\ call.m.from = Call.client /\ call.m.n = Frame.n
    BY DEF Send, Private
  <1>2. CallShape(call)
    BY <1>1 DEF CallShape, CallOK
  <1> QED
    BY <1>1, <1>2 DEF Saying, Carries, Spoken, Frame

LEMMA ProcessPushes ==
    ASSUME Stack, RegistryShape, ProcessMessage
    PROVE  Advanced
  <1>1. Calling("frames") /\ Me \in Fd
    <2>1. Calling("frames")
      BY DEF ProcessMessage, ProcessRegister, ProcessChat, ProcessJoin, ProcessLeave,
             ProcessPrivate, ProcessQuery, ProcessDisconnect, EndCorrupted, Processing
    <2>2. CallShape(Call) /\ Call.op = "frames"
      BY <2>1, HeadShape DEF Calling
    <2> QED
      BY <2>1, <2>2 DEF CallShape, CallOK, Me
  <1>2. ASSUME NEW calls, Reaction(calls), Process(calls)
        PROVE  Advanced
    BY <1>1, <1>2, PushedFrame DEF Advanced
  <1>3. /\ Notice \in Unspoken /\ Error \in Unspoken /\ Answer \in Unspoken
        /\ General \in RoomName /\ {} \in SUBSET Fd /\ {Me} \in SUBSET Fd
    BY <1>1, NamesAssumption DEF Unspoken
  <1>4. PICK notice, error, answer :
           /\ notice = Send({Me}, Notice)
           /\ error = Send({Me}, Error)
           /\ answer = Send({Me}, Answer)
    OBVIOUS
  <1>5. Minor(notice) /\ Minor(error) /\ Minor(answer)
    BY <1>1, <1>3, <1>4, SendMinor
  <1>6. ASSUME NEW one, Minor(one) \/ Saying(one), Process(<<one>>)
        PROVE  Advanced
    <2> PICK calls : calls = <<one>>
      OBVIOUS
    <2> QED
      BY <1>2, <1>6, Reaction1
  <1>7. ASSUME Process(<<>>)
        PROVE  Advanced
    <2> PICK calls : calls = <<>>
      OBVIOUS
    <2>1. Reaction(calls)
      BY Calls0 DEF Reaction
    <2> QED
      BY <1>2, <1>7, <2>1
  <1>8. ASSUME NEW r \in RoomName, NEW q \in RoomName,
               Process(<<Cast(r, Notice, {}), Cast(q, Notice, {}), Send({Me}, Notice)>>)
        PROVE  Advanced
    <2>1. PICK a, b : a = Cast(r, Notice, {}) /\ b = Cast(q, Notice, {})
      OBVIOUS
    <2>2. PICK calls : calls = <<a, b, notice>>
      OBVIOUS
    <2>3. Minor(a) /\ Minor(b)
      BY <1>3, <2>1, CastMinor
    <2>4. Reaction(calls)
      BY <1>5, <2>2, <2>3, Reaction3
    <2>5. Process(calls)
      BY <1>4, <1>8, <2>1, <2>2
    <2> QED
      BY <1>2, <2>4, <2>5
  <1>9. CASE ProcessRegister
    <2>1. CASE Process(<<Send({Me}, Notice), Cast(General, Notice, {Me})>>)
      <3>1. PICK b : b = Cast(General, Notice, {Me})
        OBVIOUS
      <3>2. PICK calls : calls = <<notice, b>>
        OBVIOUS
      <3>3. Minor(b)
        BY <1>3, <3>1, CastMinor
      <3>4. Reaction(calls)
        BY <1>5, <3>2, <3>3, Reaction2
      <3>5. Process(calls)
        BY <1>4, <2>1, <3>1, <3>2
      <3> QED
        BY <1>2, <3>4, <3>5
    <2>2. CASE Process(<<Send({Me}, Error)>>)
      BY <1>4, <1>5, <1>6, <2>2
    <2> QED
      BY <1>9, <2>1, <2>2 DEF ProcessRegister
  <1>10. CASE ProcessChat
    <2>1. CASE IsUser
      <3>1. PICK one : one = Cast(usersById[Me].currentRoom, Chat(Call.client, Frame.n), {})
        OBVIOUS
      <3>2. usersById[Me].currentRoom \in RoomName
        BY <2>1 DEF IsUser, RegistryShape
      <3>3. Saying(one)
        BY <3>1, <3>2, CastSaying
      <3>4. Process(<<one>>)
        BY <1>10, <2>1, <3>1 DEF ProcessChat
      <3> QED
        BY <1>6, <3>3, <3>4
    <2>2. CASE ~IsUser
      BY <1>4, <1>5, <1>6, <1>10, <2>2 DEF ProcessChat
    <2> QED
      BY <2>1, <2>2
  <1>11. CASE ProcessJoin
    <2>1. CASE /\ IsUser /\ Frame.arg \in ValidRoomName
               /\ Process(<<Cast(usersById[Me].currentRoom, Notice, {}),
                            Cast(Frame.arg, Notice, {}), Send({Me}, Notice)>>)
      <3>1. usersById[Me].currentRoom \in RoomName /\ Frame.arg \in RoomName
        BY <2>1, NamesAssumption DEF IsUser, RegistryShape
      <3> QED
        BY <1>8, <2>1, <3>1
    <2>2. CASE Process(<<Send({Me}, Error)>>)
      BY <1>4, <1>5, <1>6, <2>2
    <2>3. CASE Process(<<Send({Me}, Notice)>>)
      BY <1>4, <1>5, <1>6, <2>3
    <2> QED
      BY <1>11, <2>1, <2>2, <2>3 DEF ProcessJoin, RM!JoinRoom, IsUser
  <1>12. CASE ProcessLeave
    <2>1. CASE /\ IsUser
               /\ Process(<<Cast(usersById[Me].currentRoom, Notice, {}),
                            Cast(General, Notice, {}), Send({Me}, Notice)>>)
      <3>1. usersById[Me].currentRoom \in RoomName
        BY <2>1 DEF IsUser, RegistryShape
      <3> QED
        BY <1>3, <1>8, <2>1, <3>1
    <2>2. CASE Process(<<>>)
      BY <1>7, <2>2
    <2>3. CASE Process(<<Send({Me}, Notice)>>)
      BY <1>4, <1>5, <1>6, <2>3
    <2> QED
      BY <1>12, <2>1, <2>2, <2>3 DEF ProcessLeave, RM!LeaveRoom, IsUser
  <1>13. CASE ProcessPrivate
    <2> DEFINE name == NormalizeName[Frame.arg]
    <2>1. CASE ~IsUser \/ Frame.arg = ""
      BY <1>4, <1>5, <1>6, <1>13, <2>1 DEF ProcessPrivate
    <2>2. CASE ~(~IsUser \/ Frame.arg = "") /\ name \in DOMAIN usersByName
      <3>1. PICK a : a = Send({usersByName[name]}, Private(Call.client, Frame.n))
        OBVIOUS
      <3>2. PICK calls : calls = <<a, notice>>
        OBVIOUS
      <3>3. usersByName[name] \in Fd
        BY <2>2 DEF RegistryShape
      <3>4. Saying(a)
        BY <3>1, <3>3, SendSaying
      <3>5. Reaction(calls)
        BY <1>5, <3>2, <3>4, Reaction2
      <3>6. Process(<<a>> \o <<notice>>)
        BY <1>4, <1>13, <2>2, <3>1 DEF ProcessPrivate
      <3>7. Process(calls)
        BY <3>2, <3>6, Joined
      <3> QED
        BY <1>2, <3>5, <3>7
    <2>3. CASE ~(~IsUser \/ Frame.arg = "") /\ name \notin DOMAIN usersByName
      <3>1. <<>> \o <<notice>> = <<notice>>
        OBVIOUS
      <3>2. Process(<<>> \o <<notice>>)
        BY <1>4, <1>13, <2>3 DEF ProcessPrivate
      <3>3. Process(<<notice>>)
        BY <3>1, <3>2
      <3> QED
        BY <1>5, <1>6, <3>3
    <2> QED
      BY <2>1, <2>2, <2>3
  <1>14. CASE ProcessQuery
    BY <1>4, <1>5, <1>6, <1>14 DEF ProcessQuery
  <1>15. CASE ProcessDisconnect
    <2>1. PICK one : one = Close({Me}, "disconnect")
      OBVIOUS
    <2>2. Minor(one)
      BY <1>1, <2>1, CloseMinor
    <2>3. Process(<<one>>)
      BY <1>15, <2>1 DEF ProcessDisconnect
    <2> QED
      BY <1>6, <2>2, <2>3
  <1>16. CASE EndCorrupted
    <2>1. PICK last : last = Close({Me}, "violation")
      OBVIOUS
    <2>2. PICK calls : calls = <<error, last>>
      OBVIOUS
    <2>3. Minor(last)
      BY <1>1, <2>1, CloseMinor
    <2>4. Reaction(calls)
      BY <1>5, <2>2, <2>3, Reaction2
    <2>5. Do(calls)
      BY <1>4, <1>16, <2>1, <2>2 DEF EndCorrupted
    <2> QED
      BY <1>1, <2>4, <2>5, PushedReaction DEF Advanced
  <1> QED
    BY <1>9, <1>10, <1>11, <1>12, <1>13, <1>14, <1>15, <1>16 DEF ProcessMessage

------------------------------------------------------------------------------
(* The server uses its registry as the registry's own specification allows *)
(* it to be used, so that what is proved of the registry holds here.       *)
RMP == INSTANCE RoomManagerProofs WITH ConnectionId <- Fd

LEMMA SameOperations ==
    /\ \A c, u : RM!RegisterUser(c, u) => RMP!RegisterUser(c, u)
    /\ \A c : RM!UnregisterUser(c) => RMP!UnregisterUser(c)
    /\ \A c, r : RM!JoinRoom(c, r) => RMP!JoinRoom(c, r)
    /\ \A c : RM!LeaveRoom(c) => RMP!LeaveRoom(c)
  <1> USE DEF RM!SetUser, RMP!SetUser, RM!Insert, RMP!Insert, RM!Erase, RMP!Erase,
              RM!MembersIn, RMP!MembersIn, RM!Handle, RMP!Handle
  <1>1. ASSUME NEW c, NEW u, RM!RegisterUser(c, u)
        PROVE  RMP!RegisterUser(c, u)
    BY <1>1 DEF RM!RegisterUser, RMP!RegisterUser, RM!CanRegister, RMP!CanRegister,
                RM!NamesAfterRegister, RMP!NamesAfterRegister
  <1>2. ASSUME NEW c, RM!UnregisterUser(c)
        PROVE  RMP!UnregisterUser(c)
    BY <1>2 DEF RM!UnregisterUser, RMP!UnregisterUser
  <1>3. ASSUME NEW c, NEW r, RM!JoinRoom(c, r)
        PROVE  RMP!JoinRoom(c, r)
    BY <1>3 DEF RM!JoinRoom, RMP!JoinRoom
  <1>4. ASSUME NEW c, RM!LeaveRoom(c)
        PROVE  RMP!LeaveRoom(c)
    BY <1>4 DEF RM!LeaveRoom, RMP!LeaveRoom
  <1> QED
    BY <1>1, <1>2, <1>3, <1>4

LEMMA FrameOwner ==
    ASSUME Stack, Calling("frames")
    PROVE  Me \in Fd
  <1>1. CallShape(Call) /\ Call.op = "frames"
    BY HeadShape DEF Calling
  <1> QED
    BY <1>1 DEF CallShape, CallOK, Me

LEMMA RegistryStep ==
    ASSUME Stack, [Next]_vars
    PROVE  RMP!Next \/ UNCHANGED registry
  <1>1. CASE UNCHANGED registry
    BY <1>1
  <1>2. CASE HandleClose
    <2>1. PICK fd \in Call.fds : RM!UnregisterUser(fd) \/ UNCHANGED registry
      BY <1>2 DEF HandleClose, CloseConnection
    <2>2. Call.op = "close" /\ CallShape(Call)
      BY <1>2, HeadShape DEF HandleClose, Calling
    <2>3. fd \in Fd
      BY <2>1, <2>2 DEF CallShape, CallOK
    <2> QED
      BY <1>1, <2>1, <2>3, SameOperations DEF RMP!Next
  <1>3. CASE ProcessRegister
    <2>1. Calling("frames")
      BY <1>3 DEF ProcessRegister, Processing
    <2>2. RM!RegisterUser(Me, Frame.arg) \/ UNCHANGED registry
      BY <1>3 DEF ProcessRegister
    <2>3. RM!RegisterUser(Me, Frame.arg) => Frame.arg \in Username
      BY NamesAssumption DEF RM!RegisterUser, RM!CanRegister
    <2> QED
      BY <1>1, <2>1, <2>2, <2>3, FrameOwner, SameOperations DEF RMP!Next
  <1>4. CASE ProcessJoin
    <2>1. Calling("frames")
      BY <1>4 DEF ProcessJoin, Processing
    <2>2. RM!JoinRoom(Me, Frame.arg) \/ UNCHANGED registry
      BY <1>4 DEF ProcessJoin
    <2>3. RM!JoinRoom(Me, Frame.arg) => Frame.arg \in RoomName
      BY NamesAssumption DEF RM!JoinRoom
    <2> QED
      BY <1>1, <2>1, <2>2, <2>3, FrameOwner, SameOperations DEF RMP!Next
  <1>5. CASE ProcessLeave
    <2>1. Calling("frames")
      BY <1>5 DEF ProcessLeave, Processing
    <2>2. RM!LeaveRoom(Me) \/ UNCHANGED registry
      BY <1>5 DEF ProcessLeave
    <2> QED
      BY <1>1, <2>1, <2>2, FrameOwner, SameOperations DEF RMP!Next
  <1>6. CASE ~HandleClose /\ ~ProcessRegister /\ ~ProcessJoin /\ ~ProcessLeave
    <2> USE DEF kernel, server, registry
    <2>1. CASE Wait \/ TakeEvent \/ \E due \in BOOLEAN : CheckHeartbeats(due)
      BY <1>1, <2>1 DEF Wait, TakeEvent, CheckHeartbeats
    <2>2. CASE HandleAccept \/ HandleRead \/ HandleWrite \/ SendMessage
      BY <1>1, <2>2 DEF HandleAccept, HandleRead, HandleWrite, SendMessage
    <2>3. CASE Broadcast \/ AbandonFrames \/ Silence \/ Stop \/ UNCHANGED vars
      BY <1>1, <2>3 DEF Broadcast, AbandonFrames, Silence, Stop, vars
    <2>4. CASE ProcessMessage
      BY <1>1, <1>6, <2>4 DEF ProcessMessage, ProcessChat, ProcessPrivate, ProcessQuery,
                              ProcessDisconnect, EndCorrupted
    <2>5. CASE ClientStep
      BY <1>1, <2>5 DEF ClientStep, Connect, ClientSend, HangUp, Reset, ClientRead
    <2> QED
      BY <1>6, <2>1, <2>2, <2>3, <2>4, <2>5 DEF Next, ServerStep
  <1> QED
    BY <1>2, <1>3, <1>4, <1>5, <1>6

LEMMA RegistryShaped ==
    ASSUME RMP!IInv
    PROVE  RegistryShape
  <1>1. RMP!TypeOK
    BY DEF RMP!IInv
  <1>2. \A fd \in DOMAIN usersById : usersById[fd].currentRoom \in RoomName
    BY <1>1 DEF RMP!TypeOK, RMP!UserInfo
  <1>3. \A r : RM!RoomMembers(r) \subseteq Fd
    BY <1>1 DEF RMP!TypeOK, RM!RoomMembers, RM!MembersIn
  <1> QED
    BY <1>1, <1>2, <1>3 DEF RMP!TypeOK, RegistryShape

------------------------------------------------------------------------------
(* Sequences of whatever elements, joined and cut.                         *)

LEMMA Wider ==
    ASSUME NEW A, NEW B, A \subseteq B, NEW s \in Seq(A)
    PROVE  s \in Seq(B)
  OBVIOUS

LEMMA InOne ==
    ASSUME NEW s, NEW t, NEW u, ASeq(s), ASeq(t), ASeq(u)
    PROVE  \E S : s \in Seq(S) /\ t \in Seq(S) /\ u \in Seq(S)
  <1>1. PICK A : s \in Seq(A)
    BY DEF ASeq
  <1>2. PICK B : t \in Seq(B)
    BY DEF ASeq
  <1>3. PICK C : u \in Seq(C)
    BY DEF ASeq
  <1>4. PICK S : S = A \cup B \cup C
    OBVIOUS
  <1>5. A \subseteq S /\ B \subseteq S /\ C \subseteq S
    BY <1>4
  <1>6. s \in Seq(S) /\ t \in Seq(S) /\ u \in Seq(S)
    BY <1>1, <1>2, <1>3, <1>5, Wider
  <1> QED
    BY <1>6

LEMMA JoinParts ==
    ASSUME NEW s, NEW t, ASeq(s), ASeq(t)
    PROVE  /\ ASeq(s \o t) /\ Len(s \o t) = Len(s) + Len(t)
           /\ Len(s) \in Nat /\ Len(t) \in Nat
           /\ \A i \in 1 .. Len(s) + Len(t) :
                 (s \o t)[i] = IF i <= Len(s) THEN s[i] ELSE t[i - Len(s)]
  <1>1. PICK S : s \in Seq(S) /\ t \in Seq(S)
    BY InOne
  <1> QED
    BY <1>1, ConcatProperties, LenProperties DEF ASeq

LEMMA Regrouped ==
    ASSUME NEW s, NEW t, NEW u, ASeq(s), ASeq(t), ASeq(u)
    PROVE  (s \o t) \o u = s \o (t \o u)
  <1>1. PICK S : s \in Seq(S) /\ t \in Seq(S) /\ u \in Seq(S)
    BY InOne
  <1> QED
    BY <1>1, ConcatAssociative

LEMMA AppendParts ==
    ASSUME NEW s, ASeq(s), NEW e
    PROVE  /\ ASeq(Append(s, e)) /\ Len(Append(s, e)) = Len(s) + 1
           /\ Len(s) \in Nat
           /\ \A i \in 1 .. Len(s) : Append(s, e)[i] = s[i]
           /\ Append(s, e)[Len(s) + 1] = e
           /\ Append(s, e) = s \o <<e>>
  <1>1. PICK A : s \in Seq(A)
    BY DEF ASeq
  <1>2. PICK S : S = A \cup {e}
    OBVIOUS
  <1>3. s \in Seq(S) /\ e \in S
    BY <1>1, <1>2
  <1>4. Append(s, e) = s \o <<e>>
    BY <1>3
  <1> QED
    BY <1>3, <1>4, AppendProperties, LenProperties DEF ASeq

LEMMA HeadParts ==
    ASSUME NEW s, ASeq(s), s # <<>>
    PROVE  /\ ASeq(Tail(s)) /\ Len(s) \in Nat \ {0} /\ Len(Tail(s)) = Len(s) - 1
           /\ \A i \in 1 .. Len(Tail(s)) : Tail(s)[i] = s[i + 1]
           /\ Head(s) = s[1]
  <1>1. PICK S : s \in Seq(S)
    BY DEF ASeq
  <1> QED
    BY <1>1, HeadTailProperties, LenProperties, EmptySeq DEF ASeq

LEMMA CutParts ==
    ASSUME NEW s, ASeq(s), NEW n \in 0 .. Len(s)
    PROVE  /\ ASeq(SubSeq(s, 1, n)) /\ Len(SubSeq(s, 1, n)) = n
           /\ ASeq(SubSeq(s, n + 1, Len(s)))
           /\ SubSeq(s, 1, n) \o SubSeq(s, n + 1, Len(s)) = s
  <1>1. PICK S : s \in Seq(S)
    BY DEF ASeq
  <1>2. Len(s) \in Nat /\ \A i \in 1 .. Len(s) : s[i] \in S
    BY <1>1, LenProperties, ElementOfSeq
  <1>3. PICK a, b : a = SubSeq(s, 1, n) /\ b = SubSeq(s, n + 1, Len(s))
    OBVIOUS
  <1>4. /\ a \in Seq(S) /\ Len(a) = n
        /\ \A i \in 1 .. n : a[i] = s[i]
    <2>1. /\ SubSeq(s, 1, n) \in Seq(S)
          /\ Len(SubSeq(s, 1, n)) = IF 1 <= n THEN n - 1 + 1 ELSE 0
          /\ \A i \in 1 .. n - 1 + 1 : SubSeq(s, 1, n)[i] = s[1 + i - 1]
      <3>1. \A i \in 1 .. n : s[i] \in S
        BY <1>2
      <3>2. n \in Int /\ 1 \in Int
        BY <1>2
      <3> QED
        BY <3>1, <3>2, SubSeqProperties
    <2>2. \A i \in 1 .. n : i \in 1 .. n - 1 + 1 /\ 1 + i - 1 = i
      BY <1>2
    <2> QED
      BY <1>2, <1>3, <2>1, <2>2
  <1>5. /\ b \in Seq(S) /\ Len(b) = Len(s) - n
        /\ \A i \in 1 .. Len(s) - n : b[i] = s[n + i]
    <2>1. /\ b \in Seq(S)
          /\ Len(b) = IF n + 1 <= Len(s) THEN Len(s) - (n + 1) + 1 ELSE 0
          /\ \A i \in 1 .. Len(s) - (n + 1) + 1 : b[i] = s[(n + 1) + i - 1]
      <3>1. \A i \in n + 1 .. Len(s) : s[i] \in S
        BY <1>2
      <3>2. n + 1 \in Int /\ Len(s) \in Int
        BY <1>2
      <3> QED
        BY <1>3, <3>1, <3>2, SubSeqProperties
    <2>2. \A i \in 1 .. Len(s) - n :
             i \in 1 .. Len(s) - (n + 1) + 1 /\ (n + 1) + i - 1 = n + i
      BY <1>2
    <2> QED
      BY <1>2, <2>1, <2>2
  <1>6. a \o b = s
    <2>1. /\ a \o b \in Seq(S) /\ Len(a \o b) = Len(s)
          /\ \A i \in 1 .. Len(s) : (a \o b)[i] = IF i <= n THEN a[i] ELSE b[i - n]
      BY <1>2, <1>4, <1>5, ConcatProperties
    <2>2. ASSUME NEW i \in 1 .. Len(s) PROVE (a \o b)[i] = s[i]
      <3>1. CASE i <= n
        BY <1>2, <1>4, <2>1, <3>1
      <3>2. CASE ~(i <= n)
        <4>1. i - n \in 1 .. Len(s) - n /\ n + (i - n) = i
          BY <1>2, <3>2
        <4> QED
          BY <1>5, <2>1, <3>2, <4>1
      <3> QED
        BY <3>1, <3>2
    <2> QED
      BY <1>1, <2>1, <2>2, SeqEqual
  <1> QED
    BY <1>3, <1>4, <1>5, <1>6 DEF ASeq

(* What flush_outbound writes and leaves.                                  *)
Flushed(c, out, tx, rest) ==
    tx = sock[c].tx \o SubSeq(out, 1, Taken(c, out)) /\ rest = Rest(c, out)

(* The same messages in the same order, whatever has gone before them.     *)
Alike(tx, out, tx1, out1) ==
    \A g : ASeq(g) => (g \o tx) \o out = (g \o tx1) \o out1

LEMMA FlushParts ==
    ASSUME NEW c, ASeq(sock[c].tx), Len(sock[c].tx) <= SendBuffer,
           NEW out, ASeq(out), NEW tx, NEW rest, Flushed(c, out, tx, rest)
    PROVE  /\ ASeq(tx) /\ ASeq(rest) /\ Len(tx) <= SendBuffer
           /\ Alike(tx, rest, sock[c].tx, out)
  <1> USE DEF Flushed
  <1>1. PICK t : t = sock[c].tx
    OBVIOUS
  <1>2. ASeq(t) /\ Len(t) \in Nat /\ Len(out) \in Nat /\ SendBuffer \in Nat
    BY <1>1, JoinParts, ReactorAssumption
  <1>3. PICK n : n = Taken(c, out)
    OBVIOUS
  <1>4. n \in 0 .. Len(out) /\ n <= SendBuffer - Len(t)
    <2>1. n = IF Len(out) < SendBuffer - Len(t) THEN Len(out) ELSE SendBuffer - Len(t)
      BY <1>1, <1>3 DEF Taken, Room
    <2>2. Len(t) <= SendBuffer
      BY <1>1
    <2> QED
      BY <1>2, <2>1, <2>2
  <1>5. PICK p : p = SubSeq(out, 1, n)
    OBVIOUS
  <1>6. ASeq(p) /\ Len(p) = n /\ ASeq(rest) /\ p \o rest = out
    BY <1>3, <1>4, <1>5, CutParts DEF Rest
  <1>7. tx = t \o p
    BY <1>1, <1>3, <1>5
  <1>8. ASeq(tx) /\ Len(tx) <= SendBuffer
    <2>1. ASeq(t \o p) /\ Len(t \o p) = Len(t) + Len(p)
      BY <1>2, <1>6, JoinParts
    <2> QED
      BY ONLY <1>2, <1>4, <1>6, <1>7, <2>1
  <1>9. ASSUME NEW g, ASeq(g)
        PROVE  (g \o tx) \o rest = (g \o t) \o out
    <2>1. PICK gt : gt = g \o t
      OBVIOUS
    <2>2. ASeq(gt)
      BY <1>2, <1>9, <2>1, JoinParts
    <2>3. g \o (t \o p) = gt \o p
      <3>1. ASeq(g) /\ ASeq(t) /\ ASeq(p)
        BY <1>2, <1>6, <1>9
      <3>2. (g \o t) \o p = g \o (t \o p)
        BY ONLY <3>1, Regrouped
      <3> QED
        BY ONLY <2>1, <3>2
    <2>4. (gt \o p) \o rest = gt \o (p \o rest)
      <3>1. ASeq(p) /\ ASeq(rest)
        BY <1>6
      <3> QED
        BY ONLY <2>2, <3>1, Regrouped
    <2> QED
      BY <1>6, <1>7, <2>1, <2>3, <2>4
  <1> QED
    BY <1>1, <1>6, <1>8, <1>9 DEF Alike

------------------------------------------------------------------------------
(* The kinds of value that the variables hold.                             *)

SocketOK(s) ==
    /\ s.state \in {"unused", "pending", "open", "closed"}
    /\ ASeq(s.rx) /\ ASeq(s.tx) /\ Len(s.tx) <= SendBuffer
    /\ s.sent \in Nat /\ s.sent <= sends

ConnectionOK(k) == ASeq(k.out) /\ k.epollout \in BOOLEAN

SocketsOK == sends \in 0 .. MaxFrames /\ \A c \in Client : SocketOK(sock[c])
TableOK == \A fd \in DOMAIN conns : ConnectionOK(conns[fd])
GotOK == got = [c \in Client |-> got[c]] /\ \A c \in Client : ASeq(got[c])
BatchOK == \A e \in batch : e.fd \in Fd \cup {ListenFd}
QuietOK == quiet \subseteq DOMAIN conns
ActiveOK == active \in Nat
StoppedOK == ~running => DOMAIN conns = {} /\ backlog = <<>>

Kinds ==
    SocketsOK /\ TableOK /\ GotOK /\ BatchOK /\ QuietOK /\ ActiveOK /\ StoppedOK

LEMMA KindsInit == Init => Kinds
  <1> SUFFICES ASSUME Init PROVE Kinds
    OBVIOUS
  <1>1. ASeq(<<>>) /\ Len(<<>>) = 0 /\ 0 <= SendBuffer
    BY Calls0, ReactorAssumption
  <1>2. PICK none : none = <<>>
    OBVIOUS
  <1>3. ASeq(none) /\ Len(none) = 0
    BY <1>1, <1>2
  <1>4. SocketsOK
    <2>1. ASSUME NEW c \in Client
          PROVE  SocketOK(sock[c])
      <3>1. /\ sock[c].state = "unused" /\ sock[c].sent = 0 /\ sends = 0
            /\ sock[c].rx = none /\ sock[c].tx = none
        BY <1>2 DEF Init
      <3> QED
        BY <1>1, <1>3, <3>1 DEF SocketOK
    <2> QED
      BY <2>1, ReactorAssumption DEF Init, SocketsOK
  <1>5. TableOK /\ BatchOK /\ QuietOK /\ ActiveOK /\ StoppedOK
    BY DEF Init, TableOK, BatchOK, QuietOK, ActiveOK, StoppedOK
  <1>6. GotOK
    BY <1>2, <1>3 DEF Init, GotOK
  <1> QED
    BY <1>4, <1>5, <1>6 DEF Kinds

LEMMA SocketsKeptOK ==
    ASSUME Kinds, UNCHANGED <<sock, sends>>
    PROVE  SocketsOK'
  BY DEF Kinds, SocketsOK, SocketOK

LEMMA OneSocketOK ==
    ASSUME IInv, Kinds, NEW c \in Client, NEW s, sock' = [sock EXCEPT ![c] = s],
           sends' = sends, SocketOK(s)
    PROVE  SocketsOK'
  <1>1. sock' = [d \in Client |-> IF d = c THEN s ELSE sock[d]]
    BY DEF IInv, Shape
  <1>2. ASSUME NEW d \in Client
        PROVE  SocketOK(sock'[d])
    BY <1>1 DEF Kinds, SocketsOK
  <1> QED
    BY <1>2 DEF Kinds, SocketsOK, SocketOK

LEMMA ActiveStays ==
    ASSUME IInv', Kinds, running' \/ active' = active
    PROVE  ActiveOK'
  <1>1. CASE running'
    <2>1. IsFiniteSet(Fd)
      BY FS_Interval, ReactorAssumption DEF Fd
    <2>2. IsFiniteSet(DOMAIN conns')
      BY <2>1, FS_Subset DEF IInv, Shape
    <2> QED
      BY <1>1, <2>2, FS_CardinalityType DEF IInv, Counted, ActiveOK
  <1>2. CASE active' = active
    BY <1>2 DEF Kinds, ActiveOK
  <1> QED
    BY <1>1, <1>2

LEMMA AcceptKinds ==
    ASSUME IInv, IInv', Kinds, HandleAccept
    PROVE  Kinds'
  <1>1. UNCHANGED <<got, sends, quiet, running, batch>>
    BY DEF HandleAccept
  <1>2. CASE UNCHANGED <<sock, backlog, conns, active>>
    BY <1>1, <1>2, SocketsKeptOK
       DEF Kinds, TableOK, ConnectionOK, GotOK, BatchOK, QuietOK, ActiveOK, StoppedOK
  <1>3. CASE ~UNCHANGED <<sock, backlog, conns, active>>
    <2> DEFINE fd == CHOOSE fd \in FreeFds : \A other \in FreeFds : fd <= other
               c == Head(backlog)
               s == [sock[c] EXCEPT !.state = "open"]
    <2>1. /\ backlog # <<>>
          /\ conns' = [d \in DOMAIN conns \cup {fd} |->
                         IF d = fd THEN [client |-> c, out |-> <<>>, epollout |-> FALSE]
                         ELSE conns[d]]
          /\ sock' = [sock EXCEPT ![c] = s]
      BY <1>3 DEF HandleAccept
    <2>2. c \in Client
      BY <2>1, HeadTailProperties DEF IInv, Queued
    <2> HIDE DEF fd, c
    <2>3. SocketOK(s)
      <3>1. SocketOK(sock[c]) /\ Socket(sock[c])
        BY <2>2 DEF Kinds, SocketsOK, IInv, Shape
      <3>2. /\ s.state = "open" /\ s.rx = sock[c].rx /\ s.tx = sock[c].tx
            /\ s.sent = sock[c].sent
        BY <3>1 DEF Socket
      <3> HIDE DEF s
      <3> QED
        BY <3>1, <3>2 DEF SocketOK
    <2>4. SocketsOK'
      BY <1>1, <2>1, <2>2, <2>3, OneSocketOK
    <2>5. TableOK'
      <3>1. ConnectionOK(conns'[fd])
        <4>1. conns'[fd].out = <<>> /\ conns'[fd].epollout = FALSE
          BY <2>1
        <4>2. ASeq(conns'[fd].out)
          BY <4>1, Calls0
        <4> QED
          BY <4>1, <4>2 DEF ConnectionOK
      <3>2. ASSUME NEW d \in DOMAIN conns', d # fd
            PROVE  ConnectionOK(conns'[d])
        BY <2>1, <3>2 DEF Kinds, TableOK
      <3> QED
        BY <3>1, <3>2 DEF TableOK, ConnectionOK
    <2>6. running
      BY <2>1 DEF Kinds, StoppedOK
    <2>7. StoppedOK'
      BY <1>1, <2>6 DEF StoppedOK
    <2>8. ActiveOK'
      BY <1>1, <2>6, ActiveStays
    <2>9. GotOK' /\ BatchOK' /\ QuietOK'
      BY <1>1, <2>1 DEF Kinds, GotOK, BatchOK, QuietOK
    <2> QED
      BY <2>4, <2>5, <2>7, <2>8, <2>9 DEF Kinds
  <1> QED
    BY <1>2, <1>3

LEMMA ReadKinds ==
    ASSUME IInv, Kinds, HandleRead
    PROVE  Kinds'
  <1>1. UNCHANGED <<backlog, got, sends, conns, active, running, batch>>
    BY DEF HandleRead
  <1>2. quiet' \subseteq quiet
    BY DEF HandleRead
  <1>3. SocketsOK'
    <2>1. CASE sock' = sock
      BY <1>1, <2>1, SocketsKeptOK
    <2>2. CASE sock' # sock
      <3> DEFINE c == conns[Call.fd].client
                 s == [sock[c] EXCEPT !.rx = <<>>]
      <3>1. Call.fd \in DOMAIN conns /\ sock' = [sock EXCEPT ![c] = s]
        BY <2>2 DEF HandleRead
      <3>2. c \in Client
        BY <3>1 DEF IInv, Shape
      <3> HIDE DEF c
      <3>3. SocketOK(s)
        <4>1. SocketOK(sock[c]) /\ Socket(sock[c])
          BY <3>2 DEF Kinds, SocketsOK, IInv, Shape
        <4>2. /\ s.rx = <<>> /\ s.state = sock[c].state /\ s.tx = sock[c].tx
              /\ s.sent = sock[c].sent
          BY <4>1 DEF Socket
        <4> HIDE DEF s
        <4>3. ASeq(s.rx)
          BY <4>2, Calls0
        <4> QED
          BY <4>1, <4>2, <4>3 DEF SocketOK
      <3> QED
        BY <1>1, <3>1, <3>2, <3>3, OneSocketOK
    <2> QED
      BY <2>1, <2>2
  <1> QED
    BY <1>1, <1>2, <1>3
       DEF Kinds, TableOK, ConnectionOK, GotOK, BatchOK, QuietOK, ActiveOK, StoppedOK

(* The messages out wait for the client of fd; some may go to its socket,  *)
(* none is lost and none overtakes another.                                *)
Outputs(fd, out, s, k) ==
    LET c == conns[fd].client
    IN  /\ sock' = [sock EXCEPT ![c] = s] /\ SocketOK(s)
        /\ s.rx = sock[c].rx /\ s.sent = sock[c].sent
        /\ conns' = [conns EXCEPT ![fd] = k] /\ ConnectionOK(k) /\ k.client = c
        /\ Alike(s.tx, k.out, sock[c].tx, out)

LEMMA SendOutputs ==
    ASSUME IInv, Kinds, NEW fd \in DOMAIN conns, SendToFd(fd)
    PROVE  \E s, k : Outputs(fd, Append(conns[fd].out, Call.m), s, k)
  <1>0. PICK c : c = conns[fd].client
    OBVIOUS
  <1>1. PICK out : out = Append(conns[fd].out, Call.m)
    OBVIOUS
  <1>2. /\ c \in Client /\ Socket(sock[c]) /\ Connection(conns[fd])
        /\ SocketOK(sock[c]) /\ ConnectionOK(conns[fd])
    BY <1>0 DEF IInv, Shape, Kinds, SocketsOK, TableOK
  <1>3. ASeq(out)
    BY <1>1, <1>2, AppendParts DEF ConnectionOK
  <1>6. ASeq(sock[c].tx) /\ Len(sock[c].tx) <= SendBuffer
    BY <1>2 DEF SocketOK
  <1>4. CASE sock[c].rst
    <2>1. PICK k : k = [conns[fd] EXCEPT !.out = out]
      OBVIOUS
    <2>2. conns' = [conns EXCEPT ![fd] = k] /\ sock' = sock
      BY <1>0, <1>1, <1>4, <2>1 DEF SendToFd
    <2>3. sock' = [sock EXCEPT ![c] = sock[c]]
      BY <1>2, <2>2 DEF IInv, Shape
    <2>4. k.out = out /\ k.client = c /\ k.epollout = conns[fd].epollout
      BY <1>0, <1>2, <2>1 DEF Connection
    <2>5. ConnectionOK(k)
      BY <1>2, <1>3, <2>4 DEF ConnectionOK
    <2> QED
      <3>1. Alike(sock[c].tx, k.out, sock[c].tx, out)
        BY <2>4 DEF Alike
      <3>2. SocketOK(sock[c])
        BY <1>2
      <3> QED
        BY <1>0, <1>1, <2>2, <2>3, <2>4, <2>5, <3>1, <3>2 DEF Outputs
  <1>5. CASE ~sock[c].rst
    <2>1. PICK rest, tx : Flushed(c, out, tx, rest)
      BY DEF Flushed
    <2>2. PICK s, k : /\ s = [sock[c] EXCEPT !.tx = tx]
                      /\ k = [conns[fd] EXCEPT !.out = rest, !.epollout = @ \/ rest # <<>>]
      OBVIOUS
    <2>3. sock' = [sock EXCEPT ![c] = s]
      BY <1>0, <1>1, <1>5, <2>1, <2>2 DEF SendToFd, Flush, Flushed
    <2>4. conns' = [conns EXCEPT ![fd] = k]
      BY <1>0, <1>1, <1>5, <2>1, <2>2 DEF SendToFd, Flushed
    <2>5. /\ ASeq(tx) /\ ASeq(rest) /\ Len(tx) <= SendBuffer
          /\ Alike(tx, rest, sock[c].tx, out)
      BY <1>3, <1>6, <2>1, FlushParts
    <2>6. /\ s.tx = tx /\ s.rx = sock[c].rx /\ s.sent = sock[c].sent
          /\ s.state = sock[c].state
      BY <1>2, <2>2 DEF Socket
    <2>7. k.out = rest /\ k.client = c /\ k.epollout \in BOOLEAN
      BY <1>0, <1>2, <2>2 DEF Connection
    <2>8. SocketOK(s)
      BY <1>2, <2>5, <2>6 DEF SocketOK
    <2>9. ConnectionOK(k)
      BY <2>5, <2>7 DEF ConnectionOK
    <2> QED
      BY <1>0, <1>1, <2>3, <2>4, <2>5, <2>6, <2>7, <2>8, <2>9 DEF Outputs
  <1> QED
    BY <1>4, <1>5

LEMMA WriteOutputs ==
    ASSUME IInv, Kinds, HandleWrite, ~UNCHANGED <<sock, conns>>
    PROVE  /\ Call.fd \in DOMAIN conns
           /\ \E s, k : Outputs(Call.fd, conns[Call.fd].out, s, k)
  <1>1. PICK fd : fd = Call.fd
    OBVIOUS
  <1>2. fd \in DOMAIN conns
    BY <1>1 DEF HandleWrite
  <1>0. PICK c : c = conns[fd].client
    OBVIOUS
  <1>3. PICK out : out = conns[fd].out
    OBVIOUS
  <1>4. /\ c \in Client /\ Socket(sock[c]) /\ Connection(conns[fd])
        /\ SocketOK(sock[c]) /\ ConnectionOK(conns[fd])
    BY <1>0, <1>2 DEF IInv, Shape, Kinds, SocketsOK, TableOK
  <1>5. ASeq(out)
    BY <1>3, <1>4 DEF ConnectionOK
  <1>6. PICK rest, tx : Flushed(c, out, tx, rest)
    BY DEF Flushed
  <1>7. PICK s, k : /\ s = [sock[c] EXCEPT !.tx = tx]
                    /\ k = [conns[fd] EXCEPT !.out = rest, !.epollout = rest # <<>>]
    OBVIOUS
  <1>8. sock' = [sock EXCEPT ![c] = s]
    BY <1>0, <1>1, <1>3, <1>6, <1>7 DEF HandleWrite, Flush, Flushed
  <1>9. conns' = [conns EXCEPT ![fd] = k]
    BY <1>0, <1>1, <1>3, <1>6, <1>7 DEF HandleWrite, Flushed
  <1>15. ASeq(sock[c].tx) /\ Len(sock[c].tx) <= SendBuffer
    BY <1>4 DEF SocketOK
  <1>10. /\ ASeq(tx) /\ ASeq(rest) /\ Len(tx) <= SendBuffer
         /\ Alike(tx, rest, sock[c].tx, out)
    BY <1>5, <1>6, <1>15, FlushParts
  <1>11. /\ s.tx = tx /\ s.rx = sock[c].rx /\ s.sent = sock[c].sent
         /\ s.state = sock[c].state
    BY <1>4, <1>7 DEF Socket
  <1>12. k.out = rest /\ k.client = c /\ k.epollout \in BOOLEAN
    BY <1>0, <1>4, <1>7 DEF Connection
  <1>13. SocketOK(s)
    BY <1>4, <1>10, <1>11 DEF SocketOK
  <1>14. ConnectionOK(k)
    BY <1>10, <1>12 DEF ConnectionOK
  <1> QED
    <2>1. Outputs(fd, conns[fd].out, s, k)
      BY <1>0, <1>3, <1>8, <1>9, <1>10, <1>11, <1>12, <1>13, <1>14 DEF Outputs
    <2> QED
      BY <1>1, <1>2, <2>1

LEMMA OutputKinds ==
    ASSUME IInv, Kinds, NEW fd \in DOMAIN conns, NEW out, NEW s, NEW k,
           Outputs(fd, out, s, k),
           UNCHANGED <<backlog, got, sends, active, quiet, running, batch>>
    PROVE  Kinds'
  <1>1. PICK c : c = conns[fd].client
    OBVIOUS
  <1>2. /\ sock' = [sock EXCEPT ![c] = s] /\ SocketOK(s)
        /\ conns' = [conns EXCEPT ![fd] = k] /\ ConnectionOK(k)
    BY <1>1 DEF Outputs
  <1>3. c \in Client
    BY <1>1 DEF IInv, Shape
  <1>4. SocketsOK'
    BY <1>2, <1>3, OneSocketOK
  <1>5. conns' = [d \in DOMAIN conns |-> IF d = fd THEN k ELSE conns[d]]
    BY <1>2 DEF IInv, Shape
  <1>6. TableOK'
    BY <1>2, <1>5 DEF Kinds, TableOK, ConnectionOK
  <1> QED
    BY <1>4, <1>5, <1>6 DEF Kinds, GotOK, BatchOK, QuietOK, ActiveOK, StoppedOK

LEMMA SendKinds ==
    ASSUME IInv, Kinds, SendMessage
    PROVE  Kinds'
  <1>1. UNCHANGED <<backlog, got, sends, active, quiet, running, batch>>
    BY DEF SendMessage
  <1>2. PICK fd \in Call.fds : SendToFd(fd)
    BY DEF SendMessage
  <1>3. CASE fd \in DOMAIN conns
    BY <1>1, <1>2, <1>3, SendOutputs, OutputKinds
  <1>4. CASE fd \notin DOMAIN conns
    <2>1. UNCHANGED <<sock, conns>>
      BY <1>2, <1>4 DEF SendToFd
    <2> QED
      BY <1>1, <2>1, SocketsKeptOK
         DEF Kinds, TableOK, ConnectionOK, GotOK, BatchOK, QuietOK, ActiveOK, StoppedOK
  <1> QED
    BY <1>3, <1>4

LEMMA WriteKinds ==
    ASSUME IInv, Kinds, HandleWrite
    PROVE  Kinds'
  <1>1. UNCHANGED <<backlog, got, sends, active, quiet, running, batch>>
    BY DEF HandleWrite
  <1>2. CASE UNCHANGED <<sock, conns>>
    BY <1>1, <1>2, SocketsKeptOK
       DEF Kinds, TableOK, ConnectionOK, GotOK, BatchOK, QuietOK, ActiveOK, StoppedOK
  <1>3. CASE ~UNCHANGED <<sock, conns>>
    <2>1. PICK fd \in DOMAIN conns : \E s, k : Outputs(fd, conns[fd].out, s, k)
      BY <1>3, WriteOutputs
    <2> QED
      BY <1>1, <2>1, OutputKinds
  <1> QED
    BY <1>2, <1>3

LEMMA CloseKinds ==
    ASSUME IInv, IInv', Kinds, HandleClose
    PROVE  Kinds'
  <1>1. UNCHANGED <<backlog, got, sends, running, batch>>
    BY DEF HandleClose
  <1>2. PICK fd \in Call.fds :
           IF fd \in DOMAIN conns THEN CloseConnection(fd)
           ELSE UNCHANGED <<conns, quiet, active, sock>>
    BY DEF HandleClose
  <1>3. CASE fd \notin DOMAIN conns
    BY <1>1, <1>2, <1>3, SocketsKeptOK
       DEF Kinds, TableOK, ConnectionOK, GotOK, BatchOK, QuietOK, ActiveOK, StoppedOK
  <1>4. CASE fd \in DOMAIN conns
    <2> DEFINE c == conns[fd].client
               s == [sock[c] EXCEPT !.state = "closed"]
    <2>1. /\ conns' = [d \in DOMAIN conns \ {fd} |-> conns[d]]
          /\ quiet' = quiet \ {fd}
          /\ sock' = [sock EXCEPT ![c] = s]
      BY <1>2, <1>4 DEF CloseConnection, Without
    <2>2. c \in Client
      BY <1>4 DEF IInv, Shape
    <2> HIDE DEF c
    <2>3. SocketOK(s)
      <3>1. SocketOK(sock[c]) /\ Socket(sock[c])
        BY <2>2 DEF Kinds, SocketsOK, IInv, Shape
      <3>2. /\ s.rx = sock[c].rx /\ s.state = "closed" /\ s.tx = sock[c].tx
            /\ s.sent = sock[c].sent
        BY <3>1 DEF Socket
      <3> HIDE DEF s
      <3> QED
        BY <3>1, <3>2 DEF SocketOK
    <2>4. SocketsOK'
      BY <1>1, <2>1, <2>2, <2>3, OneSocketOK
    <2>5. running
      BY <1>4 DEF Kinds, StoppedOK
    <2>6. ActiveOK' /\ StoppedOK'
      BY <1>1, <2>5, ActiveStays DEF StoppedOK
    <2>7. TableOK' /\ GotOK' /\ BatchOK' /\ QuietOK'
      BY <1>1, <2>1 DEF Kinds, TableOK, ConnectionOK, GotOK, BatchOK, QuietOK
    <2> QED
      BY <2>4, <2>6, <2>7 DEF Kinds
  <1> QED
    BY <1>3, <1>4

(* Steps that change one socket, and of the rest only what a client has    *)
(* read.                                                                   *)
LEMMA ClientKinds ==
    ASSUME IInv, Kinds, NEW c \in Client,
           Connect(c) \/ HangUp(c) \/ Reset(c) \/ ClientRead(c) \/ ClientSend(c)
    PROVE  Kinds'
  <1>1. UNCHANGED <<conns, active, quiet, running, batch>>
    BY DEF Connect, HangUp, Reset, ClientRead, ClientSend, server
  <1>2. SocketOK(sock[c]) /\ Socket(sock[c]) /\ ASeq(got[c]) /\ sends \in 0 .. MaxFrames
    BY DEF Kinds, SocketsOK, GotOK, IInv, Shape
  <1>3. TableOK' /\ BatchOK' /\ QuietOK' /\ ActiveOK'
    BY <1>1 DEF Kinds, TableOK, ConnectionOK, BatchOK, QuietOK, ActiveOK
  <1>4. ASSUME UNCHANGED <<got, sends, backlog>>, NEW s, sock' = [sock EXCEPT ![c] = s],
               SocketOK(s)
        PROVE  Kinds'
    <2>1. SocketsOK'
      BY <1>4, OneSocketOK
    <2> QED
      BY <1>1, <1>3, <1>4, <2>1 DEF Kinds, GotOK, StoppedOK
  <1>5. CASE Connect(c)
    <2>1. PICK s : s = [sock[c] EXCEPT !.state = "pending"]
      OBVIOUS
    <2>2. running /\ sock' = [sock EXCEPT ![c] = s] /\ UNCHANGED <<got, sends>>
      BY <1>5, <2>1 DEF Connect
    <2>3. /\ s.rx = sock[c].rx /\ s.state = "pending" /\ s.tx = sock[c].tx
          /\ s.sent = sock[c].sent
      BY <1>2, <2>1 DEF Socket
    <2>4. SocketOK(s)
      BY <1>2, <2>3 DEF SocketOK
    <2>5. SocketsOK'
      BY <2>2, <2>4, OneSocketOK
    <2> QED
      BY <1>1, <1>3, <2>2, <2>5 DEF Kinds, GotOK, StoppedOK
  <1>6. CASE HangUp(c)
    <2>1. PICK s : s = [sock[c] EXCEPT !.fin = TRUE]
      OBVIOUS
    <2>2. sock' = [sock EXCEPT ![c] = s] /\ UNCHANGED <<got, sends, backlog>>
      BY <1>6, <2>1 DEF HangUp
    <2>3. /\ s.rx = sock[c].rx /\ s.state = sock[c].state /\ s.tx = sock[c].tx
          /\ s.sent = sock[c].sent
      BY <1>2, <2>1 DEF Socket
    <2> QED
      BY <1>2, <1>4, <2>2, <2>3 DEF SocketOK
  <1>7. CASE Reset(c)
    <2>1. PICK s : s = [sock[c] EXCEPT !.rst = TRUE]
      OBVIOUS
    <2>2. sock' = [sock EXCEPT ![c] = s] /\ UNCHANGED <<got, sends, backlog>>
      BY <1>7, <2>1 DEF Reset
    <2>3. /\ s.rx = sock[c].rx /\ s.state = sock[c].state /\ s.tx = sock[c].tx
          /\ s.sent = sock[c].sent
      BY <1>2, <2>1 DEF Socket
    <2> QED
      BY <1>2, <1>4, <2>2, <2>3 DEF SocketOK
  <1>8. CASE ClientRead(c)
    <2>1. PICK tx : tx = Tail(sock[c].tx)
      OBVIOUS
    <2>2. PICK s : s = [sock[c] EXCEPT !.tx = tx]
      OBVIOUS
    <2>3. /\ sock' = [sock EXCEPT ![c] = s] /\ UNCHANGED <<sends, backlog>>
          /\ sock[c].tx # <<>>
      BY <1>8, <2>1, <2>2 DEF ClientRead
    <2>4. /\ s.rx = sock[c].rx /\ s.state = sock[c].state /\ s.tx = tx
          /\ s.sent = sock[c].sent
      BY <1>2, <2>2 DEF Socket
    <2>5. ASeq(tx) /\ Len(tx) <= SendBuffer
      <3>1. ASeq(sock[c].tx) /\ Len(sock[c].tx) <= SendBuffer
        BY <1>2 DEF SocketOK
      <3>2. ASeq(tx) /\ Len(sock[c].tx) \in Nat /\ Len(tx) = Len(sock[c].tx) - 1
        BY <2>1, <2>3, <3>1, HeadParts
      <3> QED
        BY <3>1, <3>2, ReactorAssumption
    <2>6. SocketOK(s)
      BY <1>2, <2>4, <2>5 DEF SocketOK
    <2>7. SocketsOK'
      BY <2>3, <2>6, OneSocketOK
    <2>8. GotOK'
      <3>1. PICK m : m = Head(sock[c].tx)
        OBVIOUS
      <3>2. PICK g : g = IF Spoken(m) THEN Append(got[c], m) ELSE got[c]
        OBVIOUS
      <3>3. got' = [got EXCEPT ![c] = g]
        BY <1>8, <3>1, <3>2 DEF ClientRead
      <3>4. ASeq(g)
        BY <1>2, <3>2, AppendParts
      <3>5. got' = [d \in Client |-> IF d = c THEN g ELSE got[d]]
        BY <3>3 DEF Kinds, GotOK
      <3> QED
        BY <3>4, <3>5 DEF Kinds, GotOK
    <2> QED
      BY <1>1, <1>3, <2>3, <2>7, <2>8 DEF Kinds, StoppedOK
  <1>9. CASE ClientSend(c)
    <2>1. PICK f \in Request :
             sock' = [sock EXCEPT ![c].sent = @ + 1,
                                  ![c].rx = Append(@, [type |-> f.type, arg |-> f.arg,
                                                       n |-> sock[c].sent + 1])]
      BY <1>9 DEF ClientSend
    <2>2. PICK frame : frame = [type |-> f.type, arg |-> f.arg, n |-> sock[c].sent + 1]
      OBVIOUS
    <2>3. PICK n, rx : n = sock[c].sent + 1 /\ rx = Append(sock[c].rx, frame)
      OBVIOUS
    <2>4. PICK s : s = [sock[c] EXCEPT !.sent = n, !.rx = rx]
      OBVIOUS
    <2>5. /\ sock' = [sock EXCEPT ![c] = s] /\ UNCHANGED <<got, backlog>>
          /\ sends' = sends + 1 /\ sends < MaxFrames
      BY <1>9, <2>1, <2>2, <2>3, <2>4 DEF ClientSend
    <2>6. /\ s.rx = rx /\ s.state = sock[c].state /\ s.tx = sock[c].tx /\ s.sent = n
      BY <1>2, <2>4 DEF Socket
    <2>7. ASeq(rx)
      BY <1>2, <2>3, AppendParts DEF SocketOK
    <2>8. sock' = [d \in Client |-> IF d = c THEN s ELSE sock[d]]
      BY <2>5 DEF IInv, Shape
    <2>9. n \in Nat /\ n <= sends' /\ sends' \in 0 .. MaxFrames
      BY <1>2, <2>3, <2>5, ReactorAssumption DEF SocketOK
    <2>10. ASSUME NEW d \in Client
           PROVE  SocketOK(sock[d])' 
      <3>1. CASE d = c
        BY <1>2, <2>6, <2>7, <2>8, <2>9, <3>1 DEF SocketOK
      <3>2. CASE d # c
        <4>1. sock'[d] = sock[d] /\ SocketOK(sock[d])
          BY <2>8, <3>2 DEF Kinds, SocketsOK
        <4> QED
          BY <1>2, <2>5, <4>1 DEF SocketOK
      <3> QED
        BY <3>1, <3>2
    <2>11. SocketsOK'
      BY <2>9, <2>10 DEF SocketsOK
    <2> QED
      BY <1>1, <1>3, <2>5, <2>11 DEF Kinds, GotOK, StoppedOK
  <1> QED
    BY <1>5, <1>6, <1>7, <1>8, <1>9

LEMMA StopKinds ==
    ASSUME IInv, Kinds, Stop
    PROVE  Kinds'
  <1>1. /\ DOMAIN conns' = {} /\ backlog' = <<>> /\ quiet' = {}
        /\ UNCHANGED <<got, sends, active, batch>>
    BY DEF Stop
  <1>2. sock' = [c \in Client |-> IF sock[c].state = "unused" THEN sock[c]
                                  ELSE [sock[c] EXCEPT !.state = "closed"]]
    BY DEF Stop
  <1>3. ASSUME NEW c \in Client
        PROVE  SocketOK(sock'[c])
    <2>1. Socket(sock[c]) /\ SocketOK(sock[c])
      BY DEF IInv, Shape, Kinds, SocketsOK
    <2>2. PICK s : s = [sock[c] EXCEPT !.state = "closed"]
      OBVIOUS
    <2>3. /\ s.rx = sock[c].rx /\ s.state = "closed" /\ s.tx = sock[c].tx
          /\ s.sent = sock[c].sent
      BY <2>1, <2>2 DEF Socket
    <2>4. SocketOK(s)
      BY <2>1, <2>3 DEF SocketOK
    <2>5. sock'[c] = sock[c] \/ sock'[c] = s
      BY <1>2, <2>2
    <2> QED
      BY <2>1, <2>4, <2>5
  <1>4. SocketsOK'
    BY <1>1, <1>3 DEF Kinds, SocketsOK, SocketOK
  <1> QED
    BY <1>1, <1>4 DEF Kinds, TableOK, GotOK, BatchOK, QuietOK, ActiveOK, StoppedOK

LEMMA KindsStep ==
    ASSUME IInv, IInv', Kinds, [Next]_vars
    PROVE  Kinds'
  <1> USE DEF kernel, server
  <1>1. ASSUME UNCHANGED <<kernel, conns, active, running>>, BatchOK', QuietOK'
        PROVE  Kinds'
    <2>1. SocketsOK'
      BY <1>1, SocketsKeptOK
    <2> QED
      BY <1>1, <2>1 DEF Kinds, TableOK, ConnectionOK, GotOK, ActiveOK, StoppedOK
  <1>2. ASSUME UNCHANGED <<kernel, server, batch>>
        PROVE  Kinds'
    <2>1. BatchOK' /\ QuietOK'
      BY <1>2 DEF Kinds, BatchOK, QuietOK
    <2> QED
      BY <1>1, <1>2, <2>1
  <1>3. CASE Wait
    <2>1. UNCHANGED <<kernel, server>> /\ batch' = Ready
      BY <1>3 DEF Wait
    <2>2. BatchOK'
      <3>1. \A fd \in DOMAIN conns : EventOf(fd).fd = fd
        BY DEF EventOf
      <3>2. DOMAIN conns \subseteq Fd
        BY DEF IInv, Shape
      <3> QED
        BY <2>1, <3>1, <3>2 DEF BatchOK, Ready
    <2> QED
      BY <1>1, <2>1, <2>2 DEF Kinds, QuietOK
  <1>4. CASE TakeEvent
    <2>1. UNCHANGED <<kernel, server>> /\ batch' \subseteq batch
      BY <1>4 DEF TakeEvent
    <2>2. BatchOK' /\ QuietOK'
      BY <2>1 DEF Kinds, BatchOK, QuietOK
    <2> QED
      BY <1>1, <2>1, <2>2
  <1>5. CASE \E due \in BOOLEAN : CheckHeartbeats(due)
    BY <1>2, <1>5 DEF CheckHeartbeats
  <1>6. CASE Broadcast \/ AbandonFrames \/ ProcessMessage \/ UNCHANGED vars
    BY <1>2, <1>6 DEF Broadcast, AbandonFrames, ProcessMessage, vars
  <1>7. CASE Silence
    <2>1. UNCHANGED <<kernel, conns, active, running, batch>> /\ quiet' = DOMAIN conns
      BY <1>7 DEF Silence
    <2>2. BatchOK' /\ QuietOK'
      BY <2>1 DEF Kinds, BatchOK, QuietOK
    <2> QED
      BY <1>1, <2>1, <2>2
  <1>8. CASE ClientStep
    BY <1>8, ClientKinds DEF ClientStep
  <1> QED
    BY <1>3, <1>4, <1>5, <1>6, <1>7, <1>8, AcceptKinds, ReadKinds, WriteKinds, CloseKinds,
       SendKinds, StopKinds DEF Next, ServerStep

------------------------------------------------------------------------------
(* What a step does to todo: a handler is done, or an event begins.        *)

Begun(calls) ==
    /\ ASeq(calls)
    /\ \A i \in 1 .. Len(calls) :
          /\ CallShape(calls[i]) /\ calls[i].op \in {"accept", "read", "write", "close"}
          /\ calls[i].op = "close" =>
                calls[i].why = "hangup" \/ (calls[i].why = "timeout" /\ calls[i].fds = quiet)
    /\ \A i, j \in 1 .. Len(calls) : i < j => calls[j].op = "write"

LEMMA BegunOne ==
    ASSUME NEW a, NEW calls, calls = <<a>>, CallShape(a),
           a.op \in {"accept", "read", "write", "close"},
           a.op = "close" => a.why = "hangup" \/ (a.why = "timeout" /\ a.fds = quiet)
    PROVE  Begun(calls)
  <1>1. ASeq(calls) /\ Len(calls) = 1 /\ calls[1] = a
    BY Calls1
  <1>2. \A i \in 1 .. Len(calls) : i = 1
    BY <1>1
  <1> QED
    BY <1>1, <1>2 DEF Begun

LEMMA BegunNone ==
    ASSUME NEW calls, calls = <<>>
    PROVE  Begun(calls)
  <1>1. ASeq(calls) /\ Len(calls) = 0
    BY Calls0
  <1>2. \A i \in 1 .. Len(calls) : FALSE
    BY <1>1
  <1> QED
    BY <1>1, <1>2 DEF Begun

LEMMA EventBegins ==
    ASSUME Kinds, TakeEvent
    PROVE  Begun(todo')
  <1>1. PICK e \in batch : todo' = HandlersOf(e)
    BY DEF TakeEvent
  <1>2. e.fd \in Fd \cup {ListenFd}
    BY DEF Kinds, BatchOK
  <1>3. PICK calls : calls = todo'
    OBVIOUS
  <1>4. CASE e.fd = ListenFd
    <2>1. PICK a : a = Accept
      OBVIOUS
    <2>2. calls = <<a>>
      BY <1>1, <1>3, <1>4, <2>1 DEF HandlersOf
    <2>3. a.op = "accept"
      BY <2>1 DEF Accept
    <2>4. CallShape(a)
      BY <2>3 DEF CallShape, CallOK, Base
    <2> QED
      BY <1>3, <2>2, <2>3, <2>4, BegunOne
  <1>5. CASE e.fd # ListenFd /\ e.hup
    <2>1. PICK a : a = Close({e.fd}, "hangup")
      OBVIOUS
    <2>2. calls = <<a>>
      BY <1>1, <1>3, <1>5, <2>1 DEF HandlersOf
    <2>3. /\ a = [field \in {"op", "fds", "why"} |-> a[field]]
          /\ a.op = "close" /\ a.why = "hangup" /\ a.fds = {e.fd}
      BY <2>1 DEF Close
    <2>4. a.why \notin AtOnce
      BY <2>3 DEF AtOnce
    <2>5. CallShape(a)
      BY <1>2, <1>5, <2>3, <2>4 DEF CallShape, CallOK
    <2> QED
      BY <1>3, <2>2, <2>3, <2>5, BegunOne
  <1>6. CASE e.fd # ListenFd /\ ~e.hup
    <2>1. PICK a, b : a = Read(e.fd) /\ b = Write(e.fd)
      OBVIOUS
    <2>2. a.op = "read" /\ a.fd = e.fd /\ b.op = "write" /\ b.fd = e.fd
      BY <2>1 DEF Read, Write
    <2>3. CallShape(a) /\ CallShape(b)
      BY <1>2, <1>6, <2>2 DEF CallShape, CallOK, Base
    <2>4. calls = (IF e.in THEN <<a>> ELSE <<>>) \o (IF e.out THEN <<b>> ELSE <<>>)
      BY <1>1, <1>3, <1>6, <2>1 DEF HandlersOf
    <2>5. CASE e.in /\ e.out
      <3>1. calls = <<a, b>>
        BY <2>4, <2>5, Joined
      <3>2. ASeq(calls) /\ Len(calls) = 2 /\ calls[1] = a /\ calls[2] = b
        BY ONLY <3>1, Calls2
      <3>3. \A i \in 1 .. Len(calls) : i = 1 \/ i = 2
        BY <3>2
      <3>4. Begun(calls)
        BY <2>2, <2>3, <3>2, <3>3 DEF Begun
      <3> QED
        BY <1>3, <3>4
    <2>6. CASE e.in /\ ~e.out
      <3>1. calls = <<a>>
        BY <2>4, <2>6
      <3> QED
        BY <1>3, <2>2, <2>3, <3>1, BegunOne
    <2>7. CASE ~e.in /\ e.out
      <3>1. calls = <<b>>
        BY <2>4, <2>7
      <3> QED
        BY <1>3, <2>2, <2>3, <3>1, BegunOne
    <2>8. CASE ~e.in /\ ~e.out
      <3>1. calls = <<>>
        BY <2>4, <2>8
      <3> QED
        BY <1>3, <3>1, BegunNone
    <2> QED
      BY <2>5, <2>6, <2>7, <2>8
  <1> QED
    BY <1>4, <1>5, <1>6

LEMMA HeartbeatsBegin ==
    ASSUME IInv, Kinds, NEW due \in BOOLEAN, CheckHeartbeats(due)
    PROVE  Begun(todo')
  <1>1. PICK calls : calls = todo'
    OBVIOUS
  <1>2. CASE due /\ quiet # {}
    <2>1. PICK a : a = Close(quiet, "timeout")
      OBVIOUS
    <2>2. calls = <<a>>
      BY <1>1, <1>2, <2>1 DEF CheckHeartbeats
    <2>3. /\ a = [field \in {"op", "fds", "why"} |-> a[field]]
          /\ a.op = "close" /\ a.why = "timeout" /\ a.fds = quiet
      BY <2>1 DEF Close
    <2>4. a.why \notin AtOnce
      BY <2>3 DEF AtOnce
    <2>5. CallShape(a)
      BY <1>2, <2>3, <2>4 DEF CallShape, CallOK, Kinds, QuietOK, IInv, Shape
    <2> QED
      BY <1>1, <2>2, <2>3, <2>5, BegunOne
  <1>3. CASE ~(due /\ quiet # {})
    <2>1. calls = <<>>
      BY <1>1, <1>3 DEF CheckHeartbeats
    <2> QED
      BY <1>1, <2>1, BegunNone
  <1> QED
    BY <1>2, <1>3

Begins == todo = <<>> /\ Begun(todo') /\ UNCHANGED <<kernel, server>>

Outside ==
    UNCHANGED todo /\ (Wait \/ ClientStep \/ Silence \/ Stop \/ UNCHANGED vars)

LEMMA TodoStep ==
    ASSUME IInv, Kinds, Stack, RegistryShape, [Next]_vars
    PROVE  \/ Outside
           \/ Calling("accept") /\ HandleAccept /\ UNCHANGED todo
           \/ Begins
           \/ todo # <<>> /\ Advanced /\ ServerStep
  <1>1. CASE Wait \/ ClientStep \/ Silence \/ Stop \/ UNCHANGED vars
    BY <1>1 DEF Wait, ClientStep, Connect, ClientSend, HangUp, Reset, ClientRead,
                Silence, Stop, vars, Outside
  <1>2. CASE TakeEvent
    BY <1>2, EventBegins DEF TakeEvent, Begins
  <1>3. CASE \E due \in BOOLEAN : CheckHeartbeats(due)
    BY <1>3, HeartbeatsBegin DEF CheckHeartbeats, Begins
  <1>4. CASE HandleAccept
    <2>1. UNCHANGED todo \/ Do(<<>>)
      BY <1>4 DEF HandleAccept
    <2> QED
      BY <1>4, <2>1, NonePushed DEF HandleAccept, Calling, ServerStep
  <1>5. CASE HandleRead
    BY <1>5, ReadPushes DEF HandleRead, Calling, ServerStep
  <1>6. CASE HandleWrite
    BY <1>6, WritePushes DEF HandleWrite, Calling, ServerStep
  <1>7. CASE HandleClose
    BY <1>7, ClosePushes DEF HandleClose, Calling, ServerStep
  <1>8. CASE SendMessage
    <2>1. Calling("send") /\ \E fd \in Call.fds : SendToFd(fd)
      BY <1>8 DEF SendMessage
    <2> QED
      BY <1>8, <2>1, SendPushes DEF Advanced, Calling, ServerStep
  <1>9. CASE Broadcast
    BY <1>9, BroadcastPushes DEF Broadcast, Calling, ServerStep
  <1>10. CASE AbandonFrames
    BY <1>10, NonePushed DEF AbandonFrames, Dangling, Calling, ServerStep
  <1>11. CASE ProcessMessage
    <2>1. todo # <<>>
      BY <1>11 DEF ProcessMessage, ProcessRegister, ProcessChat, ProcessJoin, ProcessLeave,
                   ProcessPrivate, ProcessQuery, ProcessDisconnect, EndCorrupted, Processing,
                   Calling
    <2> QED
      BY <1>11, <2>1, ProcessPushes DEF ServerStep
  <1> QED
    BY <1>1, <1>2, <1>3, <1>4, <1>5, <1>6, <1>7, <1>8, <1>9, <1>10, <1>11
       DEF Next, ServerStep

LEMMA StackStep ==
    ASSUME IInv, Kinds, Stack, RegistryShape, [Next]_vars
    PROVE  Stack'
  <1>1. CASE UNCHANGED todo
    BY <1>1 DEF Stack, CallShape, CallOK
  <1>2. CASE Begins
    <2>1. PICK calls : calls = todo'
      OBVIOUS
    <2>2. Begun(calls)
      BY <1>2, <2>1 DEF Begins
    <2>3. ASeq(calls) /\ \A i \in 1 .. Len(calls) : CallShape(calls[i])
      BY <2>2 DEF Begun
    <2>4. \A i, j \in 1 .. Len(calls) : i < j => calls[j].op = "write"
      BY <2>2 DEF Begun
    <2> QED
      BY <2>1, <2>3, <2>4 DEF Stack
  <1>3. CASE todo # <<>> /\ Advanced
    <2>1. PICK calls : Do(calls) /\ Pushed(calls)
      BY <1>3 DEF Advanced
    <2> QED
      BY <1>3, <2>1, PushedStack
  <1> QED
    BY <1>1, <1>2, <1>3, TodoStep DEF Outside

(* All of this is inductive together: the registry needs the stack, which  *)
(* names the descriptors that use it, and the stack needs the registry,    *)
(* which names the rooms and descriptors that are sent to.                 *)
Whole == IInv /\ Kinds /\ Stack /\ RMP!IInv

LEMMA WholeInit == Init => Whole
  <1> SUFFICES ASSUME Init PROVE Whole
    OBVIOUS
  <1>1. Stack
    <2>1. ASeq(todo) /\ Len(todo) = 0
      BY Calls0 DEF Init
    <2>2. \A i \in 1 .. Len(todo) : FALSE
      BY <2>1
    <2> QED
      BY <2>1, <2>2 DEF Stack
  <1>2. RMP!IInv
    <2>1. RMP!RoomManagerAssumption
      BY NamesAssumption DEF RMP!RoomManagerAssumption
    <2>2. RMP!Init
      BY DEF Init, RM!Init, RMP!Init
    <2> QED
      BY <2>1, <2>2, RMP!InitIInv
  <1> QED
    BY <1>1, <1>2, InitOK, KindsInit DEF Whole

LEMMA WholeStep ==
    ASSUME Whole, [Next]_vars
    PROVE  Whole'
  <1>1. IInv' /\ RegistryShape
    BY IInvStep, RegistryShaped DEF Whole
  <1>2. Kinds' /\ Stack'
    BY <1>1, KindsStep, StackStep DEF Whole
  <1>3. RMP!IInv'
    <2>1. RMP!RoomManagerAssumption
      BY NamesAssumption DEF RMP!RoomManagerAssumption
    <2>2. RMP!Next \/ UNCHANGED RMP!vars
      BY RegistryStep DEF Whole, registry, RMP!vars
    <2> QED
      BY <2>1, <2>2, RMP!NextIInv DEF Whole
  <1> QED
    BY <1>1, <1>2, <1>3 DEF Whole

LEMMA WholeHolds == Spec => []Whole
  <1>1. Whole /\ [Next]_vars => Whole'
    BY WholeStep
  <1> QED
    BY <1>1, WholeInit, PTL DEF Spec

(* Whatever interleaves, the stack of calls is well formed, send buffers   *)
(* are kept within their size, the count of connections never goes below   *)
(* zero and quiet descriptors are those of connections.                    *)
THEOREM TypeCorrect == Spec => []TypeOK
  <1>1. Whole => TypeOK
    <2> SUFFICES ASSUME Whole PROVE TypeOK
      OBVIOUS
    <2>1. ASSUME NEW c \in Client
          PROVE  /\ sock[c].state \in {"unused", "pending", "open", "closed"}
                 /\ Len(sock[c].tx) <= SendBuffer
                 /\ sock[c].sent \in 0 .. MaxFrames
      <3>1. SocketOK(sock[c]) /\ sends \in 0 .. MaxFrames
        BY DEF Whole, Kinds, SocketsOK
      <3> QED
        BY <3>1, ReactorAssumption DEF SocketOK
    <2>2. /\ DOMAIN conns \subseteq Fd
          /\ \A fd \in DOMAIN conns : /\ conns[fd].client \in Client
                                      /\ conns[fd].epollout \in BOOLEAN
      BY DEF Whole, IInv, Shape, Kinds, TableOK, ConnectionOK
    <2>3. \A i \in DOMAIN todo : CallOK(todo[i])
      <3>1. DOMAIN todo = 1 .. Len(todo)
        BY LenProperties DEF Whole, Stack, ASeq
      <3> QED
        BY <3>1 DEF Whole, Stack, CallShape
    <2>4. RM!TypeOK
      BY DEF Whole, RMP!IInv, RMP!TypeOK, RM!TypeOK, RMP!UserInfo, RM!UserInfo
    <2> QED
      BY <2>1, <2>2, <2>3, <2>4
         DEF TypeOK, Whole, Kinds, QuietOK, ActiveOK, BatchOK
  <1> QED
    BY <1>1, WholeHolds, PTL

(* The epoll server uses the registry as register_user, unregister_user,   *)
(* join_room and leave_room may be used: all that RegistryConsistent says  *)
(* of the registry alone holds inside the server, in every nesting of      *)
(* closes and reuse of descriptors.                                        *)
THEOREM RegistryStaysConsistent == Spec => []RM!MapsConsistent
  <1>1. Whole => RM!MapsConsistent
    BY DEF Whole, RMP!IInv, RM!MapsConsistent,
           RMP!NameIndexExact, RM!NameIndexExact, RMP!Handle, RM!Handle,
           RMP!UserInOwnRoom, RM!UserInOwnRoom, RMP!RoomMembers, RM!RoomMembers,
           RMP!MembersIn, RM!MembersIn, RMP!NoEmptyRoom, RM!NoEmptyRoom
  <1> QED
    BY <1>1, WholeHolds, PTL

------------------------------------------------------------------------------
(* Why connections are closed.                                             *)

Causes ==
    \A i \in 1 .. Len(todo) : todo[i].op = "close" =>
        /\ Caused(todo[i])
        /\ todo[i].why \in AtOnce => i = 1

(* Broken sockets stay broken, and but for accepting and reading no        *)
(* connection comes and none that was quiet is heard of.                   *)
LEMMA CausesLast ==
    ASSUME Whole, [Next]_vars, ~HandleAccept, ~HandleRead
    PROVE  /\ \A c \in Client : /\ sock[c].fin => sock'[c].fin
                                /\ sock[c].rst => sock'[c].rst
           /\ DOMAIN conns' \subseteq DOMAIN conns
           /\ \A fd \in DOMAIN conns' : /\ conns'[fd].client = conns[fd].client
                                        /\ fd \in quiet => fd \in quiet'
  <1> USE DEF kernel, server
  <1>0. /\ \A c \in Client : Socket(sock[c])
        /\ \A fd \in DOMAIN conns : Connection(conns[fd]) /\ conns[fd].client \in Client
        /\ sock = [c \in Client |-> sock[c]] /\ conns = [fd \in DOMAIN conns |-> conns[fd]]
    BY DEF Whole, IInv, Shape
  <1>1. CASE UNCHANGED <<sock, conns>> /\ quiet \cap DOMAIN conns \subseteq quiet'
    BY <1>1
  <1>2. CASE UNCHANGED <<kernel, server>>
    BY <1>1, <1>2
  <1>3. CASE Wait \/ TakeEvent \/ (\E due \in BOOLEAN : CheckHeartbeats(due)) \/ Broadcast
             \/ AbandonFrames \/ ProcessMessage \/ UNCHANGED vars
    BY <1>2, <1>3 DEF Wait, TakeEvent, CheckHeartbeats, Broadcast, AbandonFrames,
                      ProcessMessage, vars
  <1>4. CASE Silence
    BY <1>1, <1>4 DEF Silence
  <1>5. ASSUME NEW fd \in DOMAIN conns, NEW tx, NEW out, NEW e,
               sock' = [sock EXCEPT ![conns[fd].client].tx = tx],
               conns' = [conns EXCEPT ![fd].out = out, ![fd].epollout = e],
               quiet' = quiet
        PROVE  /\ \A c \in Client : /\ sock[c].fin => sock'[c].fin
                                    /\ sock[c].rst => sock'[c].rst
               /\ DOMAIN conns' \subseteq DOMAIN conns
               /\ \A d \in DOMAIN conns' : /\ conns'[d].client = conns[d].client
                                           /\ d \in quiet => d \in quiet'
    <2>1. \A c \in Client : sock'[c].fin = sock[c].fin /\ sock'[c].rst = sock[c].rst
      BY <1>0, <1>5 DEF Socket
    <2>2. /\ DOMAIN conns' = DOMAIN conns
          /\ \A d \in DOMAIN conns : conns'[d].client = conns[d].client
      BY <1>0, <1>5 DEF Connection
    <2> QED
      BY <1>5, <2>1, <2>2
  <1>6. CASE SendMessage
    <2>1. PICK fd \in Call.fds : SendToFd(fd)
      BY <1>6 DEF SendMessage
    <2>2. quiet' = quiet
      BY <1>6 DEF SendMessage
    <2>3. CASE fd \in DOMAIN conns /\ sock[conns[fd].client].rst
      <3>1. PICK out : out = Append(conns[fd].out, Call.m)
        OBVIOUS
      <3>2. sock' = sock /\ conns' = [conns EXCEPT ![fd].out = out]
        BY <2>1, <2>3, <3>1 DEF SendToFd
      <3>3. /\ DOMAIN conns' = DOMAIN conns
            /\ \A d \in DOMAIN conns : conns'[d].client = conns[d].client
        BY <1>0, <2>3, <3>2 DEF Connection
      <3> QED
        BY <2>2, <3>2, <3>3
    <2>4. CASE fd \in DOMAIN conns /\ ~sock[conns[fd].client].rst
      <3>1. PICK c : c = conns[fd].client
        OBVIOUS
      <3>2. PICK out : out = Append(conns[fd].out, Call.m)
        OBVIOUS
      <3>3. PICK tx : tx = sock[c].tx \o SubSeq(out, 1, Taken(c, out))
        OBVIOUS
      <3>4. PICK rest, e : rest = Rest(c, out) /\ e = (conns[fd].epollout \/ rest # <<>>)
        OBVIOUS
      <3>5. sock' = [sock EXCEPT ![c].tx = tx]
        BY <2>1, <2>4, <3>1, <3>2, <3>3 DEF SendToFd, Flush
      <3>6. conns' = [conns EXCEPT ![fd].out = rest, ![fd].epollout = e]
        BY <2>1, <2>4, <3>1, <3>2, <3>4 DEF SendToFd
      <3>7. sock' = [sock EXCEPT ![conns[fd].client].tx = tx]
        BY <3>1, <3>5
      <3> QED
        BY <1>5, <2>2, <2>4, <3>6, <3>7
    <2>5. CASE fd \notin DOMAIN conns
      <3>1. UNCHANGED <<sock, conns>>
        BY <2>1, <2>5 DEF SendToFd
      <3> QED
        BY <1>1, <2>2, <3>1
    <2> QED
      BY <2>3, <2>4, <2>5
  <1>7. CASE HandleWrite
    <2>1. quiet' = quiet
      BY <1>7 DEF HandleWrite
    <2>2. CASE UNCHANGED <<sock, conns>>
      BY <1>1, <2>1, <2>2
    <2>3. CASE ~UNCHANGED <<sock, conns>>
      <3>1. PICK fd, c, out : fd = Call.fd /\ c = conns[fd].client /\ out = conns[fd].out
        OBVIOUS
      <3>2. PICK tx : tx = sock[c].tx \o SubSeq(out, 1, Taken(c, out))
        OBVIOUS
      <3>3. PICK rest, e : rest = Rest(c, out) /\ e = (rest # <<>>)
        OBVIOUS
      <3>4. fd \in DOMAIN conns /\ sock' = [sock EXCEPT ![c].tx = tx]
        BY <1>7, <2>3, <3>1, <3>2 DEF HandleWrite, Flush
      <3>5. conns' = [conns EXCEPT ![fd].out = rest, ![fd].epollout = e]
        BY <1>7, <2>3, <3>1, <3>3 DEF HandleWrite
      <3>6. sock' = [sock EXCEPT ![conns[fd].client].tx = tx]
        BY <3>1, <3>4
      <3> QED
        BY <1>5, <2>1, <3>4, <3>5, <3>6
    <2> QED
      BY <2>2, <2>3
  <1>8. CASE HandleClose
    <2>1. PICK fd \in Call.fds :
             IF fd \in DOMAIN conns THEN CloseConnection(fd)
             ELSE UNCHANGED <<conns, quiet, sock>>
      BY <1>8 DEF HandleClose
    <2>2. CASE fd \in DOMAIN conns
      <3>1. /\ conns' = [d \in DOMAIN conns \ {fd} |-> conns[d]] /\ quiet' = quiet \ {fd}
            /\ sock' = [sock EXCEPT ![conns[fd].client].state = "closed"]
        BY <2>1, <2>2 DEF CloseConnection, Without
      <3>2. \A c \in Client : sock'[c].fin = sock[c].fin /\ sock'[c].rst = sock[c].rst
        BY <1>0, <3>1 DEF Socket
      <3> QED
        BY <3>1, <3>2
    <2>3. CASE fd \notin DOMAIN conns
      BY <1>1, <2>1, <2>3
    <2> QED
      BY <2>2, <2>3
  <1>9. CASE Stop
    <2>1. DOMAIN conns' = {}
      BY <1>9 DEF Stop
    <2>2. \A c \in Client : sock'[c].fin = sock[c].fin /\ sock'[c].rst = sock[c].rst
      BY <1>0, <1>9 DEF Stop, Socket
    <2> QED
      BY <2>1, <2>2
  <1>10. ASSUME NEW c \in Client,
                Connect(c) \/ ClientSend(c) \/ HangUp(c) \/ Reset(c) \/ ClientRead(c)
         PROVE  \A d \in Client : /\ sock[d].fin => sock'[d].fin
                                  /\ sock[d].rst => sock'[d].rst
    <2>1. Socket(sock[c])
      BY <1>0
    <2>2. CASE Connect(c)
      BY <1>0, <2>2 DEF Connect, Socket
    <2>3. CASE HangUp(c)
      BY <1>0, <2>3 DEF HangUp, Socket
    <2>4. CASE Reset(c)
      BY <1>0, <2>4 DEF Reset, Socket
    <2>5. CASE ClientRead(c)
      <3>1. PICK tx : tx = Tail(sock[c].tx)
        OBVIOUS
      <3>2. sock' = [sock EXCEPT ![c].tx = tx]
        BY <2>5, <3>1 DEF ClientRead
      <3> QED
        BY <1>0, <3>2 DEF Socket
    <2>6. CASE ClientSend(c)
      <3>1. PICK n, rx : sock' = [sock EXCEPT ![c].sent = n, ![c].rx = rx]
        BY <2>6 DEF ClientSend
      <3> QED
        BY <1>0, <3>1 DEF Socket
    <2> QED
      BY <1>10, <2>2, <2>3, <2>4, <2>5, <2>6
  <1>11. CASE ClientStep
    <2>1. UNCHANGED <<conns, quiet>>
      BY <1>11 DEF ClientStep, Connect, ClientSend, HangUp, Reset, ClientRead
    <2> QED
      BY <1>10, <1>11, <2>1 DEF ClientStep
  <1> QED
    BY <1>3, <1>4, <1>6, <1>7, <1>8, <1>9, <1>11 DEF Next, ServerStep

LEMMA CauseKept ==
    ASSUME Whole, [Next]_vars, ~HandleAccept, ~HandleRead, NEW call, Caused(call)
    PROVE  Caused(call)'
  <1>1. \A fd \in DOMAIN conns : conns[fd].client \in Client
    BY DEF Whole, IInv, Shape
  <1>2. /\ \A c \in Client : /\ sock[c].fin => sock'[c].fin
                             /\ sock[c].rst => sock'[c].rst
        /\ DOMAIN conns' \subseteq DOMAIN conns
        /\ \A fd \in DOMAIN conns' : /\ conns'[fd].client = conns[fd].client
                                     /\ fd \in quiet => fd \in quiet'
    BY CausesLast
  <1>3. ASSUME NEW fd \in call.fds \cap DOMAIN conns'
        PROVE  LET s == sock'[conns'[fd].client]
               IN  /\ call.why = "write error" => s.rst
                   /\ call.why = "end of stream" => s.fin \/ s.rst
                   /\ call.why = "timeout" => fd \in quiet'
    <2>1. PICK c : c = conns[fd].client
      OBVIOUS
    <2>2. fd \in DOMAIN conns' /\ fd \in DOMAIN conns /\ fd \in call.fds
      BY <1>2
    <2>3. c \in Client
      BY <1>1, <2>1, <2>2
    <2>4. conns'[fd].client = c /\ (fd \in quiet => fd \in quiet')
      BY <1>2, <2>1, <2>2
    <2>5. (sock[c].fin => sock'[c].fin) /\ (sock[c].rst => sock'[c].rst)
      BY <1>2, <2>3
    <2>6. /\ call.why = "write error" => sock[c].rst
          /\ call.why = "end of stream" => sock[c].fin \/ sock[c].rst
          /\ call.why = "timeout" => fd \in quiet
      BY <2>1, <2>2 DEF Caused
    <2>7. PICK s : s = sock'[conns'[fd].client]
      OBVIOUS
    <2>8. s = sock'[c]
      BY <2>4, <2>7
    <2>9. /\ call.why = "write error" => s.rst
          /\ call.why = "end of stream" => s.fin \/ s.rst
          /\ call.why = "timeout" => fd \in quiet'
      BY <2>4, <2>5, <2>6, <2>8
    <2> QED
      BY <2>7, <2>9
  <1> QED
    BY <1>3 DEF Caused

(* With a call of an event at the head of todo there are no closes.        *)
LEMMA NoCloseUnderBase ==
    ASSUME Stack, todo # <<>>, Call.op \in Base
    PROVE  \A i \in 1 .. Len(todo) : i # 1 => todo[i].op = "write"
  <1>1. Call = todo[1] /\ Len(todo) \in Nat \ {0}
    BY HeadParts DEF Stack, Call
  <1>2. \A i \in 1 .. Len(todo) : i # 1 => 1 < i /\ 1 \in 1 .. Len(todo)
    BY <1>1
  <1> QED
    BY <1>1, <1>2 DEF Stack

(* The causes of the calls that a handler makes.                           *)
LEMMA PushedCauses ==
    ASSUME Whole, Causes, [Next]_vars, ~HandleAccept, todo # <<>>,
           NEW calls, Do(calls), Pushed(calls)
    PROVE  Causes'
  <1>1. ASeq(todo) /\ ASeq(calls)
    BY DEF Whole, Stack, Pushed
  <1>2. /\ Len(calls) \in Nat /\ Len(todo) \in Nat \ {0}
        /\ Len(todo') = Len(calls) + Len(todo) - 1
        /\ Call = todo[1]
        /\ \A i \in 1 .. Len(todo') :
              todo'[i] = IF i <= Len(calls) THEN calls[i] ELSE todo[i - Len(calls) + 1]
    BY <1>1, DoParts
  <1>3. ASSUME NEW i \in 1 .. Len(todo'), NEW call, call = todo'[i], call.op = "close"
        PROVE  Caused(call)' /\ (call.why \in AtOnce => i = 1)
    <2>1. CASE i <= Len(calls)
      <3>1. i \in 1 .. Len(calls) /\ calls[i] = call
        BY <1>2, <1>3, <2>1
      <3>2. Fits(calls[i], i, Len(calls))
        BY <3>1 DEF Pushed
      <3>3. Fits(call, i, Len(calls))
        BY <3>1, <3>2
      <3>4. CASE call.why \in AtOnce
        BY <1>3, <3>3, <3>4 DEF Fits
      <3>5. CASE call.why = "timeout"
        <4>1. Call.op = "close" /\ Call.why = "timeout" /\ call.fds \subseteq Call.fds
          BY <1>3, <3>3, <3>5 DEF Fits
        <4>2. Caused(Call)
          BY <1>2, <4>1 DEF Causes
        <4>3. Caused(call)
          BY <3>5, <4>1, <4>2 DEF Caused
        <4>4. ~HandleRead
          BY <4>1 DEF HandleRead, Calling
        <4>5. Caused(call)'
          BY <4>3, <4>4, CauseKept
        <4> QED
          BY <3>5, <4>5 DEF AtOnce
      <3>6. CASE call.why \notin AtOnce /\ call.why # "timeout"
        <4>1. Caused(call)'
          BY <3>6 DEF Caused, AtOnce
        <4> QED
          BY <3>6, <4>1
      <3> QED
        BY <3>4, <3>5, <3>6
    <2>2. CASE ~(i <= Len(calls))
      <3>1. PICK k : k = i - Len(calls) + 1
        OBVIOUS
      <3>2. k \in 1 .. Len(todo) /\ k # 1 /\ call = todo[k]
        BY <1>2, <1>3, <2>2, <3>1
      <3>4. Caused(call) /\ call.why \notin AtOnce
        BY <1>3, <3>2 DEF Causes
      <3>5. ~HandleRead
        <4>1. Call.op \notin Base
          BY <1>3, <3>2, NoCloseUnderBase DEF Whole
        <4> QED
          BY <4>1 DEF HandleRead, Calling, Base
      <3>6. Caused(call)'
        BY <3>4, <3>5, CauseKept
      <3> QED
        BY <3>4, <3>6
    <2> QED
      BY <2>1, <2>2
  <1>4. ASSUME NEW i \in 1 .. Len(todo'), todo'[i].op = "close"
        PROVE  Caused(todo[i])' /\ (todo'[i].why \in AtOnce => i = 1)
    <2>1. PICK call : call = todo'[i]
      OBVIOUS
    <2>2. Caused(call)' /\ (call.why \in AtOnce => i = 1)
      BY <1>3, <1>4, <2>1
    <2>3. Caused(todo[i])'
      BY <2>1, <2>2 DEF Caused
    <2> QED
      BY <2>1, <2>2, <2>3
  <1> QED
    BY <1>4 DEF Causes

LEMMA CausesStep ==
    ASSUME Whole, Causes, [Next]_vars
    PROVE  Causes'
  <1>1. IInv /\ Kinds /\ Stack /\ RegistryShape
    BY RegistryShaped DEF Whole
  <1>2. CASE HandleAccept
    <2>1. todo # <<>> /\ Call.op = "accept" /\ (UNCHANGED todo \/ Do(<<>>))
      BY <1>2 DEF HandleAccept, Calling
    <2>2. \A i \in 1 .. Len(todo) : todo[i].op # "close"
      <3>1. Call = todo[1]
        BY <1>1, <2>1, HeadParts DEF Stack, Call
      <3> QED
        BY <1>1, <2>1, <3>1, NoCloseUnderBase DEF Base
    <2>3. CASE UNCHANGED todo
      BY <2>2, <2>3 DEF Causes
    <2>4. CASE Do(<<>>)
      <3>1. PICK rest : rest = Tail(todo)
        OBVIOUS
      <3>2. /\ ASeq(rest) /\ Len(todo) \in Nat \ {0} /\ Len(rest) = Len(todo) - 1
            /\ \A i \in 1 .. Len(rest) : rest[i] = todo[i + 1]
        BY <1>1, <2>1, <3>1, HeadParts DEF Stack
      <3>3. todo' = rest
        <4>1. <<>> \o rest = rest
          BY <3>2 DEF ASeq
        <4> QED
          BY <2>4, <3>1, <4>1 DEF Do
      <3>4. \A i \in 1 .. Len(rest) : i + 1 \in 1 .. Len(todo)
        BY <3>2
      <3> QED
        BY <2>2, <3>2, <3>3, <3>4 DEF Causes
    <2> QED
      BY <2>1, <2>3, <2>4
  <1>3. CASE ~HandleAccept
    <2>1. CASE Outside
      <3>1. CASE todo = <<>>
        <4>1. \A i \in 1 .. Len(todo) : FALSE
          BY <3>1
        <4> QED
          BY <2>1, <4>1 DEF Outside, Causes
      <3>2. CASE HandleRead
        <4>1. Call.op = "read" /\ todo # <<>>
          BY <3>2 DEF HandleRead, Calling
        <4>2. \A i \in 1 .. Len(todo) : todo[i].op # "close"
          <5>1. Call = todo[1]
            BY <1>1, <4>1, HeadParts DEF Stack, Call
          <5> QED
            BY <1>1, <4>1, <5>1, NoCloseUnderBase DEF Base
        <4> QED
          BY <2>1, <4>2 DEF Outside, Causes
      <3>3. CASE ~HandleRead
        BY <1>3, <2>1, <3>3, CauseKept DEF Outside, Causes
      <3> QED
        BY <3>1, <3>2, <3>3
    <2>2. CASE Begins
      <3>1. PICK calls : calls = todo'
        OBVIOUS
      <3>2. Begun(calls) /\ quiet' = quiet /\ UNCHANGED conns
        BY <2>2, <3>1 DEF Begins, server
      <3>3. ASSUME NEW i \in 1 .. Len(calls), calls[i].op = "close"
            PROVE  Caused(calls[i])' /\ calls[i].why \notin AtOnce
        <4>1. calls[i].why = "hangup" \/ (calls[i].why = "timeout" /\ calls[i].fds = quiet)
          BY <3>2, <3>3 DEF Begun
        <4> QED
          BY <3>2, <4>1 DEF Caused, AtOnce
      <3> QED
        BY <3>1, <3>3 DEF Causes
    <2>3. CASE todo # <<>> /\ Advanced
      BY <1>3, <2>3, PushedCauses DEF Advanced
    <2> QED
      BY <1>1, <1>3, <2>1, <2>2, <2>3, TodoStep
  <1> QED
    BY <1>2, <1>3

LEMMA CausesHold == Spec => [](Whole /\ Causes)
  <1>1. Init => Causes
    <2> SUFFICES ASSUME Init PROVE Causes
      OBVIOUS
    <2>1. \A i \in 1 .. Len(todo) : FALSE
      BY DEF Init
    <2> QED
      BY <2>1 DEF Causes
  <1>2. Causes /\ Whole /\ [Next]_vars => Causes'
    BY CausesStep
  <1> QED
    BY <1>1, <1>2, WholeHolds, PTL DEF Spec

(* handle_close for a failed write, an end of stream or a timeout finds    *)
(* the connection that it was called for: nested closes of one loop and    *)
(* descriptors taken again cannot put another in its place.                *)
THEOREM ClosesHaveCauses == Spec => CloseHasCause
  <1>1. ASSUME Whole, Causes, [Next]_vars, NEW fd \in DOMAIN conns,
               running', fd \notin DOMAIN conns'
        PROVE  LET s == sock[conns[fd].client]
               IN  /\ Call.why = "write error" => s.rst
                   /\ Call.why = "end of stream" => s.fin \/ s.rst
                   /\ Call.why = "timeout" => fd \in quiet
    <2>1. HandleClose
      <3>1. ~Stop
        BY <1>1 DEF Stop
      <3>2. CASE ProcessRegister /\ ProcessMessage
        BY <1>1, <3>2 DEF ProcessMessage, server
      <3> QED
        BY <1>1, <3>1, <3>2, QuietStep
    <2>2. todo # <<>> /\ Call.op = "close"
      BY <2>1 DEF HandleClose, Calling
    <2>3. Call = todo[1] /\ 1 \in 1 .. Len(todo)
      BY <1>1, <2>2, HeadParts DEF Whole, Stack, Call
    <2>4. Caused(Call)
      BY <1>1, <2>2, <2>3 DEF Causes
    <2>5. fd \in Call.fds
      <3>1. PICK d \in Call.fds :
               IF d \in DOMAIN conns THEN CloseConnection(d) ELSE UNCHANGED conns
        BY <2>1 DEF HandleClose
      <3>2. d \in DOMAIN conns /\ CloseConnection(d)
        BY <1>1, <3>1
      <3>3. DOMAIN conns' = DOMAIN conns \ {d}
        BY <3>2 DEF CloseConnection, Without
      <3> QED
        BY <1>1, <3>1, <3>3
    <2> QED
      BY <1>1, <2>4, <2>5 DEF Caused
  <1>2. Whole /\ Causes /\ [Next]_vars =>
           [\A fd \in DOMAIN conns :
               LET s == sock[conns[fd].client]
               IN  running' /\ fd \notin DOMAIN conns' =>
                      /\ Call.why = "write error" => s.rst
                      /\ Call.why = "end of stream" => s.fin \/ s.rst
                      /\ Call.why = "timeout" => fd \in quiet]_vars
    BY <1>1
  <1> QED
    BY <1>2, CausesHold, PTL DEF Spec, CloseHasCause

------------------------------------------------------------------------------
(* What was said, and who has heard it.                                    *)
(* t keeps what was said in s, in order, or less of it.                    *)
Thinned(s, t) ==
    \E place : \A i \in 1 .. Len(t) : Spoken(t[i]) =>
        /\ place[i] \in 1 .. Len(s) /\ s[place[i]] = t[i]
        /\ \A j \in 1 .. Len(t) : Spoken(t[j]) /\ i < j => place[i] < place[j]

(* OneConversation, of what each client has heard.                         *)
Conversation(heard) ==
    \A c, d \in Client : \A i, j \in 1 .. Len(heard[c]) :
        i < j /\ Spoken(heard[c][i]) /\ Spoken(heard[c][j]) =>
            /\ heard[c][i] # heard[c][j]
            /\ heard[c][i].from = heard[c][j].from => heard[c][i].n < heard[c][j].n
            /\ \A k, l \in 1 .. Len(heard[d]) :
                  heard[d][k] = heard[c][i] /\ heard[d][l] = heard[c][j] => k < l

(* m may still be sent to the clients of goals: they have not heard it,    *)
(* those who have heard nothing since, and nobody a later one of its       *)
(* speaker.  As long as it is not known who gets it, nobody has heard it.  *)
New(heard, m, goals, begun) ==
    \A d \in Client : \A k \in 1 .. Len(heard[d]) : Spoken(heard[d][k]) =>
        /\ heard[d][k] = m =>
              /\ begun /\ d \notin goals
              /\ \A l \in 1 .. Len(heard[d]) : Spoken(heard[d][l]) => l <= k
        /\ heard[d][k].from = m.from => heard[d][k] = m \/ heard[d][k].n < m.n

LEMMA ThinnedConversation ==
    ASSUME NEW heard, NEW heard1, Conversation(heard),
           \A c \in Client : Thinned(heard[c], heard1[c])
    PROVE  Conversation(heard1)
  <1> SUFFICES ASSUME NEW c \in Client, NEW d \in Client,
                      NEW i \in 1 .. Len(heard1[c]), NEW j \in 1 .. Len(heard1[c]),
                      i < j, Spoken(heard1[c][i]), Spoken(heard1[c][j])
               PROVE  /\ heard1[c][i] # heard1[c][j]
                      /\ heard1[c][i].from = heard1[c][j].from =>
                            heard1[c][i].n < heard1[c][j].n
                      /\ \A k, l \in 1 .. Len(heard1[d]) :
                            heard1[d][k] = heard1[c][i] /\ heard1[d][l] = heard1[c][j]
                              => k < l
    BY DEF Conversation
  <1>1. PICK p : \A a \in 1 .. Len(heard1[c]) : Spoken(heard1[c][a]) =>
           /\ p[a] \in 1 .. Len(heard[c]) /\ heard[c][p[a]] = heard1[c][a]
           /\ \A b \in 1 .. Len(heard1[c]) : Spoken(heard1[c][b]) /\ a < b => p[a] < p[b]
    BY DEF Thinned
  <1>2. PICK q : \A a \in 1 .. Len(heard1[d]) : Spoken(heard1[d][a]) =>
           /\ q[a] \in 1 .. Len(heard[d]) /\ heard[d][q[a]] = heard1[d][a]
           /\ \A b \in 1 .. Len(heard1[d]) : Spoken(heard1[d][b]) /\ a < b => q[a] < q[b]
    BY DEF Thinned
  <1>3. PICK i0, j0 : i0 = p[i] /\ j0 = p[j]
    OBVIOUS
  <1>4. /\ i0 \in 1 .. Len(heard[c]) /\ j0 \in 1 .. Len(heard[c]) /\ i0 < j0
        /\ heard[c][i0] = heard1[c][i] /\ heard[c][j0] = heard1[c][j]
    BY <1>1, <1>3
  <1>5. /\ heard[c][i0] # heard[c][j0]
        /\ heard[c][i0].from = heard[c][j0].from => heard[c][i0].n < heard[c][j0].n
        /\ \A k, l \in 1 .. Len(heard[d]) :
              heard[d][k] = heard[c][i0] /\ heard[d][l] = heard[c][j0] => k < l
    BY <1>4 DEF Conversation
  <1>6. ASSUME NEW k \in 1 .. Len(heard1[d]), NEW l \in 1 .. Len(heard1[d]),
               heard1[d][k] = heard1[c][i], heard1[d][l] = heard1[c][j]
        PROVE  k < l
    <2>1. Spoken(heard1[d][k]) /\ Spoken(heard1[d][l])
      BY <1>6
    <2>2. PICK k0, l0 : k0 = q[k] /\ l0 = q[l]
      OBVIOUS
    <2>3. /\ k0 \in 1 .. Len(heard[d]) /\ l0 \in 1 .. Len(heard[d])
          /\ heard[d][k0] = heard[c][i0] /\ heard[d][l0] = heard[c][j0]
          /\ l < k => l0 < k0
      BY <1>2, <1>4, <1>6, <2>1, <2>2
    <2>4. k0 < l0
      BY <1>5, <2>3
    <2>5. k # l
      BY <2>2, <2>3, <2>4
    <2> QED
      BY <2>3, <2>4, <2>5
  <1> QED
    BY <1>4, <1>5, <1>6

LEMMA ThinnedNew ==
    ASSUME NEW heard, NEW heard1, \A c \in Client : Thinned(heard[c], heard1[c]),
           NEW m, NEW goals, NEW goals1, goals1 \subseteq goals, NEW begun,
           New(heard, m, goals, begun)
    PROVE  New(heard1, m, goals1, begun)
  <1> SUFFICES ASSUME NEW d \in Client, NEW k \in 1 .. Len(heard1[d]),
                      Spoken(heard1[d][k])
               PROVE  /\ heard1[d][k] = m =>
                            /\ begun /\ d \notin goals1
                            /\ \A l \in 1 .. Len(heard1[d]) :
                                  Spoken(heard1[d][l]) => l <= k
                      /\ heard1[d][k].from = m.from =>
                            heard1[d][k] = m \/ heard1[d][k].n < m.n
    BY DEF New
  <1>1. PICK q : \A a \in 1 .. Len(heard1[d]) : Spoken(heard1[d][a]) =>
           /\ q[a] \in 1 .. Len(heard[d]) /\ heard[d][q[a]] = heard1[d][a]
           /\ \A b \in 1 .. Len(heard1[d]) : Spoken(heard1[d][b]) /\ a < b => q[a] < q[b]
    BY DEF Thinned
  <1>2. PICK k0 : k0 = q[k]
    OBVIOUS
  <1>3. k0 \in 1 .. Len(heard[d]) /\ heard[d][k0] = heard1[d][k]
    BY <1>1, <1>2
  <1>4. /\ heard[d][k0] = m =>
              /\ begun /\ d \notin goals
              /\ \A l \in 1 .. Len(heard[d]) : Spoken(heard[d][l]) => l <= k0
        /\ heard[d][k0].from = m.from => heard[d][k0] = m \/ heard[d][k0].n < m.n
    BY <1>3 DEF New
  <1>5. ASSUME heard1[d][k] = m, NEW l \in 1 .. Len(heard1[d]), Spoken(heard1[d][l])
        PROVE  l <= k
    <2>1. PICK l0 : l0 = q[l]
      OBVIOUS
    <2>2. l0 \in 1 .. Len(heard[d]) /\ heard[d][l0] = heard1[d][l] /\ (k < l => k0 < l0)
      BY <1>1, <1>2, <1>5, <2>1
    <2>3. l0 <= k0
      BY <1>3, <1>4, <1>5, <2>2
    <2> QED
      BY <1>3, <2>2, <2>3
  <1> QED
    BY <1>3, <1>4, <1>5

(* t is s and m after it.                                                  *)
Longer(s, t, m) ==
    /\ Len(s) \in Nat /\ Len(t) = Len(s) + 1
    /\ \A i \in 1 .. Len(s) : t[i] = s[i]
    /\ t[Len(t)] = m

(* c hears m.                                                              *)
Told(heard, heard1, c, m) ==
    /\ Longer(heard[c], heard1[c], m)
    /\ \A d \in Client : d # c => heard1[d] = heard[d]

LEMMA ToldNew ==
    ASSUME NEW heard, NEW heard1, NEW c \in Client, NEW m, Told(heard, heard1, c, m),
           NEW goals, c \in goals, NEW begun, New(heard, m, goals, begun),
           NEW goals1, goals1 \subseteq goals \ {c}
    PROVE  New(heard1, m, goals1, TRUE)
  <1> SUFFICES ASSUME NEW d \in Client, NEW k \in 1 .. Len(heard1[d]),
                      Spoken(heard1[d][k])
               PROVE  /\ heard1[d][k] = m =>
                            /\ d \notin goals1
                            /\ \A l \in 1 .. Len(heard1[d]) :
                                  Spoken(heard1[d][l]) => l <= k
                      /\ heard1[d][k].from = m.from =>
                            heard1[d][k] = m \/ heard1[d][k].n < m.n
    BY DEF New
  <1>1. CASE k \in 1 .. Len(heard[d]) /\ heard1[d][k] = heard[d][k]
    <2>1. /\ heard[d][k] = m =>
                /\ d \notin goals
                /\ \A l \in 1 .. Len(heard[d]) : Spoken(heard[d][l]) => l <= k
          /\ heard[d][k].from = m.from => heard[d][k] = m \/ heard[d][k].n < m.n
      BY <1>1 DEF New
    <2>2. CASE heard[d][k] = m
      <3>1. d # c /\ d \notin goals1 /\ heard1[d] = heard[d]
        BY <2>1, <2>2 DEF Told
      <3> QED
        BY <1>1, <2>1, <2>2, <3>1
    <2> QED
      BY <1>1, <2>1, <2>2
  <1>2. CASE d = c /\ k = Len(heard[c]) + 1 /\ heard1[d][k] = m
    <2>1. Len(heard1[c]) = Len(heard[c]) + 1 /\ Len(heard[c]) \in Nat
      BY DEF Told, Longer
    <2> QED
      BY <1>2, <2>1
  <1>3. \/ k \in 1 .. Len(heard[d]) /\ heard1[d][k] = heard[d][k]
        \/ d = c /\ k = Len(heard[c]) + 1 /\ heard1[d][k] = m
    BY DEF Told, Longer
  <1> QED
    BY <1>1, <1>2, <1>3

LEMMA ToldConversation ==
    ASSUME NEW heard, NEW heard1, NEW c \in Client, NEW m, Told(heard, heard1, c, m),
           NEW goals, c \in goals, NEW begun, New(heard, m, goals, begun),
           Conversation(heard)
    PROVE  Conversation(heard1)
  <1> DEFINE Old(d, k) == k \in 1 .. Len(heard[d]) /\ heard1[d][k] = heard[d][k]
             Fresh(d, k) == d = c /\ k = Len(heard[c]) + 1 /\ heard1[d][k] = m
  <1>1. \A d \in Client : \A k \in 1 .. Len(heard1[d]) : Old(d, k) \/ Fresh(d, k)
    BY DEF Told, Longer
  <1>2. /\ Len(heard[c]) \in Nat
        /\ \A k \in 1 .. Len(heard[c]) : Spoken(heard[c][k]) => heard[c][k] # m
    BY DEF New, Told, Longer
  <1> HIDE DEF Old, Fresh
  <1> SUFFICES ASSUME NEW a \in Client, NEW d \in Client,
                      NEW i \in 1 .. Len(heard1[a]), NEW j \in 1 .. Len(heard1[a]),
                      i < j, Spoken(heard1[a][i]), Spoken(heard1[a][j])
               PROVE  /\ heard1[a][i] # heard1[a][j]
                      /\ heard1[a][i].from = heard1[a][j].from =>
                            heard1[a][i].n < heard1[a][j].n
                      /\ \A k, l \in 1 .. Len(heard1[d]) :
                            heard1[d][k] = heard1[a][i] /\ heard1[d][l] = heard1[a][j]
                              => k < l
    BY DEF Conversation
  <1>3. Old(a, i)
    <2>1. CASE Fresh(a, i)
      <3>1. i = Len(heard[c]) + 1 /\ a = c
        BY <2>1 DEF Fresh
      <3>2. j <= Len(heard[c])
        <4>1. Len(heard1[c]) = Len(heard[c]) + 1
          BY DEF Told, Longer
        <4>2. CASE Fresh(a, j)
          BY <3>1, <4>2, <1>2 DEF Fresh
        <4>3. CASE Old(a, j)
          BY <3>1, <4>3 DEF Old
        <4> QED
          BY <1>1, <4>2, <4>3
      <3> QED
        BY <1>2, <3>1, <3>2
    <2> QED
      BY <1>1, <2>1
  <1>4. heard1[a][i] # m \/ Old(a, j)
    <2>1. CASE Fresh(a, j)
      BY <1>2, <1>3, <2>1 DEF Fresh, Old
    <2> QED
      BY <1>1, <2>1
  <1>5. CASE Old(a, j)
    <2>1. /\ heard1[a][i] # heard1[a][j]
          /\ heard1[a][i].from = heard1[a][j].from => heard1[a][i].n < heard1[a][j].n
          /\ \A k, l \in 1 .. Len(heard[d]) :
                heard[d][k] = heard1[a][i] /\ heard[d][l] = heard1[a][j] => k < l
      <3>1. /\ i \in 1 .. Len(heard[a]) /\ j \in 1 .. Len(heard[a])
            /\ heard1[a][i] = heard[a][i] /\ heard1[a][j] = heard[a][j]
        BY <1>3, <1>5 DEF Old
      <3> QED
        BY <3>1 DEF Conversation
    <2>2. ASSUME NEW k \in 1 .. Len(heard1[d]), NEW l \in 1 .. Len(heard1[d]),
                 heard1[d][k] = heard1[a][i], heard1[d][l] = heard1[a][j]
          PROVE  k < l
      <3>1. CASE Old(d, k) /\ Old(d, l)
        BY <2>1, <2>2, <3>1 DEF Old
      <3>2. CASE Fresh(d, k)
        <4>1. i \in 1 .. Len(heard[a]) /\ heard[a][i] = m /\ Spoken(heard[a][i])
          BY <1>3, <2>2, <3>2 DEF Old, Fresh
        <4>2. \A x \in 1 .. Len(heard[a]) : Spoken(heard[a][x]) => x <= i
          BY <4>1 DEF New
        <4>3. j \in 1 .. Len(heard[a]) /\ Spoken(heard[a][j])
          BY <1>5 DEF Old
        <4>4. j <= i
          BY <4>2, <4>3
        <4> QED
          BY <1>3, <1>5, <4>4 DEF Old
      <3>3. CASE Old(d, k) /\ Fresh(d, l)
        BY <1>2, <3>3 DEF Old, Fresh
      <3> QED
        BY <1>1, <3>1, <3>2, <3>3
    <2> QED
      BY <2>1, <2>2
  <1>6. CASE Fresh(a, j)
    <2>1. i \in 1 .. Len(heard[c]) /\ heard1[a][i] = heard[c][i] /\ heard1[a][j] = m /\ a = c
      BY <1>3, <1>6 DEF Old, Fresh
    <2>2. heard1[a][i] # m /\ (heard1[a][i].from = m.from => heard1[a][i].n < m.n)
      BY <1>2, <2>1 DEF New
    <2>3. ASSUME NEW k \in 1 .. Len(heard1[d]), NEW l \in 1 .. Len(heard1[d]),
                 heard1[d][k] = heard1[a][i], heard1[d][l] = heard1[a][j]
          PROVE  k < l
      <3>1. Old(d, k)
        BY <1>1, <2>2, <2>3 DEF Fresh
      <3>2. CASE Old(d, l)
        <4>1. l \in 1 .. Len(heard[d]) /\ heard[d][l] = m /\ Spoken(heard[d][l])
          BY <2>1, <2>3, <3>2 DEF Old
        <4>2. k \in 1 .. Len(heard[d]) /\ Spoken(heard[d][k]) /\ heard[d][k] # m
          BY <2>2, <2>3, <3>1 DEF Old
        <4>3. k <= l
          BY <4>1, <4>2 DEF New
        <4>4. k # l
          BY <4>1, <4>2
        <4> QED
          BY <4>1, <4>2, <4>3, <4>4
      <3>3. CASE Fresh(d, l)
        BY <1>2, <3>1, <3>3 DEF Old, Fresh
      <3> QED
        BY <1>1, <3>2, <3>3
    <2> QED
      BY <2>1, <2>2, <2>3
  <1> QED
    BY <1>1, <1>5, <1>6

------------------------------------------------------------------------------
(* What a client has been sent, in its parts.                              *)
Waiting(table, c) ==
    LET queued == {fd \in DOMAIN table : table[fd].client = c}
    IN  IF queued = {} THEN <<>> ELSE table[CHOOSE fd \in queued : TRUE].out

LEMMA HeardIs ==
    ASSUME NEW c
    PROVE  /\ Heard(c) = (got[c] \o sock[c].tx) \o Waiting(conns, c)
           /\ Heard(c)' = (got'[c] \o sock'[c].tx) \o Waiting(conns', c)
  BY DEF Heard, Waiting

LEMMA WaitingOne ==
    ASSUME NEW table, NEW fd \in DOMAIN table, NEW c, table[fd].client = c,
           \A d \in DOMAIN table : table[d].client = c => d = fd
    PROVE  Waiting(table, c) = table[fd].out
  <1>1. PICK queued : queued = {d \in DOMAIN table : table[d].client = c}
    OBVIOUS
  <1>2. queued = {fd}
    BY <1>1
  <1> QED
    BY <1>1, <1>2 DEF Waiting

LEMMA WaitingNone ==
    ASSUME NEW table, NEW c, \A d \in DOMAIN table : table[d].client # c
    PROVE  Waiting(table, c) = <<>>
  BY DEF Waiting

LEMMA WaitingSame ==
    ASSUME NEW table, NEW table1, NEW c,
           \A d : (d \in DOMAIN table /\ table[d].client = c)
                    \/ (d \in DOMAIN table1 /\ table1[d].client = c) =>
              /\ d \in DOMAIN table /\ d \in DOMAIN table1
              /\ table[d].client = c /\ table1[d].client = c
              /\ table[d].out = table1[d].out
    PROVE  Waiting(table1, c) = Waiting(table, c)
  <1>1. PICK queued : queued = {d \in DOMAIN table : table[d].client = c}
    OBVIOUS
  <1>2. queued = {d \in DOMAIN table1 : table1[d].client = c}
    BY <1>1
  <1>3. Waiting(table, c) = IF queued = {} THEN <<>> ELSE table[CHOOSE d \in queued : TRUE].out
    BY <1>1 DEF Waiting
  <1>4. Waiting(table1, c) = IF queued = {} THEN <<>> ELSE table1[CHOOSE d \in queued : TRUE].out
    BY <1>2 DEF Waiting
  <1>5. CASE queued = {}
    BY <1>3, <1>4, <1>5
  <1>6. CASE queued # {}
    <2>1. PICK d : d = CHOOSE x \in queued : TRUE
      OBVIOUS
    <2>2. d \in queued
      BY <1>6, <2>1
    <2>3. table[d].out = table1[d].out
      BY <1>1, <2>2
    <2> QED
      BY <1>3, <1>4, <1>6, <2>1, <2>3
  <1> QED
    BY <1>5, <1>6

LEMMA ThinnedSame ==
    ASSUME NEW s
    PROVE  Thinned(s, s)
  <1>1. PICK place : place = [i \in 1 .. Len(s) |-> i]
    OBVIOUS
  <1>2. \A i \in 1 .. Len(s) : place[i] = i
    BY <1>1
  <1> QED
    BY <1>2 DEF Thinned

LEMMA ThinnedLonger ==
    ASSUME NEW s, NEW t, NEW m, Longer(s, t, m), ~Spoken(m)
    PROVE  Thinned(s, t)
  <1>1. PICK place : place = [i \in 1 .. Len(t) |-> i]
    OBVIOUS
  <1>2. \A i \in 1 .. Len(t) : place[i] = i
    BY <1>1
  <1>3. \A i \in 1 .. Len(t) : Spoken(t[i]) => i \in 1 .. Len(s) /\ s[i] = t[i]
    BY DEF Longer
  <1> QED
    BY <1>2, <1>3 DEF Thinned

(* The end is lost.                                                        *)
LEMMA ThinnedCut ==
    ASSUME NEW s, NEW w, ASeq(s), ASeq(w)
    PROVE  Thinned(s \o w, s \o <<>>)
  <1>1. PICK u, v : u = s \o w /\ v = s \o <<>>
    OBVIOUS
  <1>2. /\ Len(v) = Len(s) /\ Len(s) \in Nat /\ Len(u) = Len(s) + Len(w) /\ Len(w) \in Nat
        /\ \A i \in 1 .. Len(v) : i \in 1 .. Len(u) /\ u[i] = v[i]
    BY <1>1, JoinParts, Calls0
  <1>3. PICK place : place = [i \in 1 .. Len(v) |-> i]
    OBVIOUS
  <1>4. \A i \in 1 .. Len(v) : place[i] = i
    BY <1>3
  <1> QED
    BY <1>1, <1>2, <1>4 DEF Thinned

(* A notice or an answer is lost.                                          *)
LEMMA ThinnedNotice ==
    ASSUME NEW a, NEW b, NEW m, ASeq(a), ASeq(b), ~Spoken(m)
    PROVE  Thinned(a \o (<<m>> \o b), a \o b)
  <1>1. PICK one, tail : one = <<m>> /\ tail = one \o b
    OBVIOUS
  <1>2. PICK u, v : u = a \o tail /\ v = a \o b
    OBVIOUS
  <1>3. ASeq(one) /\ Len(one) = 1
    BY <1>1, Calls1
  <1>4. /\ ASeq(tail) /\ Len(tail) = 1 + Len(b) /\ Len(b) \in Nat
        /\ \A i \in 1 .. Len(b) : tail[i + 1] = b[i]
    <2>1. /\ ASeq(tail) /\ Len(tail) = Len(one) + Len(b) /\ Len(b) \in Nat
          /\ \A i \in 1 .. Len(one) + Len(b) :
                tail[i] = IF i <= Len(one) THEN one[i] ELSE b[i - Len(one)]
      BY <1>1, <1>3, JoinParts
    <2> QED
      BY <1>3, <2>1
  <1>5. /\ Len(u) = Len(a) + Len(tail) /\ Len(a) \in Nat
        /\ \A i \in 1 .. Len(a) + Len(tail) :
              u[i] = IF i <= Len(a) THEN a[i] ELSE tail[i - Len(a)]
    BY <1>2, <1>4, JoinParts
  <1>6. /\ Len(v) = Len(a) + Len(b)
        /\ \A i \in 1 .. Len(a) + Len(b) :
              v[i] = IF i <= Len(a) THEN a[i] ELSE b[i - Len(a)]
    BY <1>2, <1>4, JoinParts
  <1>7. PICK place : place = [i \in 1 .. Len(v) |-> IF i <= Len(a) THEN i ELSE i + 1]
    OBVIOUS
  <1>8. ASSUME NEW i \in 1 .. Len(v)
        PROVE  place[i] \in 1 .. Len(u) /\ u[place[i]] = v[i]
    <2>1. CASE i <= Len(a)
      BY <1>4, <1>5, <1>6, <1>7, <2>1
    <2>2. CASE ~(i <= Len(a))
      <3>1. PICK k : k = i - Len(a)
        OBVIOUS
      <3>2. k \in 1 .. Len(b) /\ v[i] = b[k] /\ tail[k + 1] = b[k]
        BY <1>4, <1>5, <1>6, <2>2, <3>1
      <3>3. place[i] = i + 1 /\ i + 1 \in 1 .. Len(a) + Len(tail)
        BY <1>4, <1>5, <1>6, <1>7, <2>2
      <3>4. u[i + 1] = tail[i + 1 - Len(a)] /\ i + 1 - Len(a) = k + 1
        BY <1>5, <2>2, <3>1, <3>3
      <3> QED
        BY <1>5, <3>2, <3>3, <3>4
    <2> QED
      BY <2>1, <2>2
  <1>9. \A i, j \in 1 .. Len(v) : i < j => place[i] < place[j]
    BY <1>4, <1>5, <1>6, <1>7
  <1> QED
    BY <1>1, <1>2, <1>8, <1>9 DEF Thinned

LEMMA HeardSequence ==
    ASSUME IInv, Kinds, NEW c \in Client
    PROVE  /\ ASeq(got[c]) /\ ASeq(sock[c].tx) /\ ASeq(got[c] \o sock[c].tx)
           /\ ASeq(Waiting(conns, c)) /\ ASeq(Heard(c))
  <1>1. ASeq(got[c]) /\ ASeq(sock[c].tx)
    BY DEF Kinds, GotOK, SocketsOK, SocketOK
  <1>2. ASeq(got[c] \o sock[c].tx)
    BY <1>1, JoinParts
  <1>3. ASeq(Waiting(conns, c))
    <2>1. CASE \E fd \in DOMAIN conns : conns[fd].client = c
      <3>1. PICK fd \in DOMAIN conns : conns[fd].client = c
        BY <2>1
      <3>2. \A d \in DOMAIN conns : conns[d].client = c => d = fd
        BY <3>1 DEF IInv, Owned
      <3>3. Waiting(conns, c) = conns[fd].out
        BY <3>1, <3>2, WaitingOne
      <3> QED
        BY <3>3 DEF Kinds, TableOK, ConnectionOK
    <2>2. CASE \A fd \in DOMAIN conns : conns[fd].client # c
      <3>1. Waiting(conns, c) = <<>>
        BY <2>2, WaitingNone
      <3> QED
        BY <3>1, Calls0
    <2> QED
      BY <2>1, <2>2
  <1> QED
    <2>1. PICK s, w : s = got[c] \o sock[c].tx /\ w = Waiting(conns, c)
      OBVIOUS
    <2>2. Heard(c) = s \o w
      BY <2>1, HeardIs
    <2>3. ASeq(s \o w)
      BY <1>2, <1>3, <2>1, JoinParts
    <2> QED
      BY <1>1, <1>2, <1>3, <2>2, <2>3

LEMMA HeardQuiet ==
    ASSUME IInv, Kinds, NEW c \in Client,
           got'[c] = got[c], sock'[c].tx = sock[c].tx,
           Waiting(conns', c) \in {Waiting(conns, c), <<>>}
    PROVE  Thinned(Heard(c), Heard(c)')
  <1>1. PICK s, w, w1 : s = got[c] \o sock[c].tx /\ w = Waiting(conns, c) /\ w1 = Waiting(conns', c)
    OBVIOUS
  <1>2. Heard(c) = s \o w /\ Heard(c)' = s \o w1
    BY <1>1, HeardIs
  <1>3. ASeq(s) /\ ASeq(w)
    BY <1>1, HeardSequence
  <1>4. CASE w1 = w
    BY <1>2, <1>4, ThinnedSame
  <1>5. CASE w1 = <<>>
    BY <1>2, <1>3, <1>5, ThinnedCut
  <1> QED
    BY <1>1, <1>4, <1>5

(* Steps that touch neither what was sent nor the table.                   *)
LEMMA HeardApart ==
    ASSUME IInv, Kinds, UNCHANGED <<got, conns>>,
           \A c \in Client : sock'[c].tx = sock[c].tx
    PROVE  \A c \in Client : Thinned(Heard(c), Heard(c)')
  <1>1. \A c \in Client : Waiting(conns', c) = Waiting(conns, c) /\ got'[c] = got[c]
    OBVIOUS
  <1> QED
    BY <1>1, HeardQuiet

LEMMA HeardAccept ==
    ASSUME IInv, IInv', Kinds, HandleAccept
    PROVE  \A c \in Client : Thinned(Heard(c), Heard(c)')
  <1>1. CASE UNCHANGED <<sock, conns>>
    BY <1>1, HeardApart DEF HandleAccept
  <1>2. CASE ~UNCHANGED <<sock, conns>>
    <2>1. PICK fd : fd = CHOOSE free \in FreeFds : \A other \in FreeFds : free <= other
      OBVIOUS
    <2>2. PICK b : b = Head(backlog)
      OBVIOUS
    <2>3. /\ backlog # <<>> /\ FreeFds # {}
          /\ conns' = [d \in DOMAIN conns \cup {fd} |->
                         IF d = fd THEN [client |-> b, out |-> <<>>, epollout |-> FALSE]
                                   ELSE conns[d]]
          /\ sock' = [sock EXCEPT ![b].state = "open"] /\ got' = got
      BY <1>2, <2>1, <2>2 DEF HandleAccept
    <2>4. fd \notin DOMAIN conns
      BY <2>1, <2>3, LowestFree DEF FreeFds
    <2>5. b \in Client /\ sock[b].state = "pending"
      BY <2>2, <2>3 DEF IInv, Queued
    <2>6. \A c \in Client : sock'[c].tx = sock[c].tx
      BY <2>3, <2>5 DEF IInv, Shape, Socket
    <2>7. ASSUME NEW c \in Client
          PROVE  Waiting(conns', c) \in {Waiting(conns, c), <<>>}
      <3>1. CASE c = b
        <4>1. fd \in DOMAIN conns' /\ conns'[fd].client = c /\ conns'[fd].out = <<>>
          BY <2>3, <3>1
        <4>2. \A d \in DOMAIN conns' : conns'[d].client = c => d = fd
          BY <4>1 DEF IInv, Owned
        <4>3. Waiting(conns', c) = conns'[fd].out
          BY <4>1, <4>2, WaitingOne
        <4> QED
          BY <4>1, <4>3
      <3>2. CASE c # b
        <4>1. \A d : (d \in DOMAIN conns /\ conns[d].client = c)
                       \/ (d \in DOMAIN conns' /\ conns'[d].client = c) =>
                 /\ d \in DOMAIN conns /\ d \in DOMAIN conns'
                 /\ conns[d].client = c /\ conns'[d].client = c
                 /\ conns[d].out = conns'[d].out
          BY <2>3, <2>4, <3>2
        <4>2. Waiting(conns', c) = Waiting(conns, c)
          BY <4>1, WaitingSame
        <4> QED
          BY <4>2
      <3> QED
        BY <3>1, <3>2
    <2> QED
      BY <2>3, <2>6, <2>7, HeardQuiet
  <1> QED
    BY <1>1, <1>2

LEMMA HeardClose ==
    ASSUME IInv, Kinds, HandleClose
    PROVE  \A c \in Client : Thinned(Heard(c), Heard(c)')
  <1>1. PICK fd \in Call.fds :
           IF fd \in DOMAIN conns THEN CloseConnection(fd)
           ELSE UNCHANGED <<conns, sock>>
    BY DEF HandleClose
  <1>2. CASE fd \notin DOMAIN conns
    BY <1>1, <1>2, HeardApart DEF HandleClose
  <1>3. CASE fd \in DOMAIN conns
    <2>1. /\ conns' = [d \in DOMAIN conns \ {fd} |-> conns[d]] /\ got' = got
          /\ sock' = [sock EXCEPT ![conns[fd].client].state = "closed"]
      BY <1>1, <1>3 DEF CloseConnection, Without, HandleClose
    <2>2. \A c \in Client : sock'[c].tx = sock[c].tx
      BY <2>1 DEF IInv, Shape, Socket
    <2>3. ASSUME NEW c \in Client
          PROVE  Waiting(conns', c) \in {Waiting(conns, c), <<>>}
      <3>1. CASE conns[fd].client = c
        <4>1. \A d \in DOMAIN conns' : conns'[d].client # c
          BY <1>3, <2>1, <3>1 DEF IInv, Owned
        <4> QED
          BY <4>1, WaitingNone
      <3>2. CASE conns[fd].client # c
        <4>1. \A d : (d \in DOMAIN conns /\ conns[d].client = c)
                       \/ (d \in DOMAIN conns' /\ conns'[d].client = c) =>
                 /\ d \in DOMAIN conns /\ d \in DOMAIN conns'
                 /\ conns[d].client = c /\ conns'[d].client = c
                 /\ conns[d].out = conns'[d].out
          BY <2>1, <3>2
        <4>2. Waiting(conns', c) = Waiting(conns, c)
          BY <4>1, WaitingSame
        <4> QED
          BY <4>2
      <3> QED
        BY <3>1, <3>2
    <2> QED
      BY <2>1, <2>2, <2>3, HeardQuiet
  <1> QED
    BY <1>2, <1>3

LEMMA HeardStop ==
    ASSUME IInv, Kinds, Stop
    PROVE  \A c \in Client : Thinned(Heard(c), Heard(c)')
  <1>1. DOMAIN conns' = {} /\ got' = got
    BY DEF Stop
  <1>2. \A c \in Client : sock'[c].tx = sock[c].tx
    BY DEF Stop, IInv, Shape, Socket
  <1>3. \A c \in Client : Waiting(conns', c) = <<>>
    BY <1>1, WaitingNone
  <1> QED
    BY <1>1, <1>2, <1>3, HeardQuiet

LEMMA HeadAgain ==
    ASSUME NEW s, ASeq(s), s # <<>>
    PROVE  s = <<Head(s)>> \o Tail(s)
  <1>1. PICK S : s \in Seq(S)
    BY DEF ASeq
  <1> QED
    BY <1>1, HeadTailProperties

LEMMA HeardRead ==
    ASSUME IInv, Kinds, NEW c \in Client, ClientRead(c), NEW d \in Client
    PROVE  Thinned(Heard(d), Heard(d)')
  <1>1. PICK g, x, w : g = got[c] /\ x = sock[c].tx /\ w = Waiting(conns, c)
    OBVIOUS
  <1>2. PICK m, y : m = Head(x) /\ y = Tail(x)
    OBVIOUS
  <1>3. PICK h : h = IF Spoken(m) THEN Append(g, m) ELSE g
    OBVIOUS
  <1>4. /\ x # <<>> /\ conns' = conns
        /\ sock' = [sock EXCEPT ![c].tx = y] /\ got' = [got EXCEPT ![c] = h]
    BY <1>1, <1>2, <1>3 DEF ClientRead, server
  <1>5. sock'[c].tx = y /\ got'[c] = h
    BY <1>4 DEF IInv, Shape, Socket, Kinds, GotOK
  <1>6. CASE d # c
    <2>1. sock'[d].tx = sock[d].tx /\ got'[d] = got[d] /\ Waiting(conns', d) = Waiting(conns, d)
      BY <1>4, <1>6 DEF IInv, Shape, Socket, Kinds, GotOK
    <2> QED
      BY <2>1, HeardQuiet
  <1>7. CASE d = c
    <2>1. ASeq(g) /\ ASeq(x) /\ ASeq(w)
      BY <1>1, HeardSequence
    <2>2. PICK one : one = <<m>>
      OBVIOUS
    <2>3. ASeq(one) /\ ASeq(y) /\ x = one \o y
      BY <1>2, <1>4, <2>1, <2>2, Calls1, HeadParts, HeadAgain
    <2>4. Heard(d) = (g \o x) \o w /\ Heard(d)' = (h \o y) \o w
      BY <1>1, <1>4, <1>5, <1>7, HeardIs
    <2>5. CASE Spoken(m)
      <3>1. h = g \o one
        BY <1>3, <2>1, <2>2, <2>5, AppendParts
      <3>2. (g \o one) \o y = g \o (one \o y)
        BY ONLY <2>1, <2>3, Regrouped
      <3>3. h \o y = g \o x
        BY <2>3, <3>1, <3>2
      <3> QED
        BY <2>4, <3>3, ThinnedSame
    <2>6. CASE ~Spoken(m)
      <3>1. PICK b : b = y \o w
        OBVIOUS
      <3>2. ASeq(b)
        BY <2>1, <2>3, <3>1, JoinParts
      <3>3. (g \o x) \o w = g \o (x \o w)
        BY ONLY <2>1, Regrouped
      <3>4. (one \o y) \o w = one \o b
        BY ONLY <2>1, <2>3, <3>1, Regrouped
      <3>5. (g \o y) \o w = g \o b
        BY ONLY <2>1, <2>3, <3>1, Regrouped
      <3>6. Heard(d) = g \o (<<m>> \o b)
        BY <2>2, <2>3, <2>4, <3>3, <3>4
      <3>7. Heard(d)' = g \o b
        BY <1>3, <2>4, <2>6, <3>5
      <3> QED
        BY <2>1, <2>6, <3>2, <3>6, <3>7, ThinnedNotice
    <2> QED
      BY <2>5, <2>6
  <1> QED
    BY <1>6, <1>7

(* What a step of output does to what clients have been sent: out, for its *)
(* client, takes the place of what was waiting.                            *)
LEMMA HeardOutput ==
    ASSUME IInv, IInv', Kinds, NEW fd \in DOMAIN conns, NEW out, NEW s, NEW k,
           Outputs(fd, out, s, k), got' = got, NEW c, c = conns[fd].client
    PROVE  /\ Heard(c)' = (got[c] \o sock[c].tx) \o out
           /\ Heard(c) = (got[c] \o sock[c].tx) \o conns[fd].out
           /\ \A d \in Client : d # c => Heard(d)' = Heard(d)
  <1>1. /\ sock' = [sock EXCEPT ![c] = s] /\ conns' = [conns EXCEPT ![fd] = k]
        /\ k.client = c /\ Alike(s.tx, k.out, sock[c].tx, out)
    BY DEF Outputs
  <1>2. c \in Client /\ sock'[c] = s /\ conns'[fd] = k /\ fd \in DOMAIN conns'
    BY <1>1 DEF IInv, Shape
  <1>3. Waiting(conns', c) = k.out
    <2>1. conns'[fd].client = c /\ \A d \in DOMAIN conns' : conns'[d].client = c => d = fd
      BY <1>1, <1>2 DEF IInv, Owned
    <2> QED
      BY <1>2, <2>1, WaitingOne
  <1>4. Waiting(conns, c) = conns[fd].out
    <2>1. \A d \in DOMAIN conns : conns[d].client = c => d = fd
      BY DEF IInv, Owned
    <2> QED
      BY <2>1, WaitingOne
  <1>5. Heard(c)' = (got[c] \o s.tx) \o k.out
    BY <1>2, <1>3, HeardIs
  <1>6. Heard(c) = (got[c] \o sock[c].tx) \o conns[fd].out
    BY <1>4, HeardIs
  <1>7. ASeq(got[c])
    BY <1>2 DEF Kinds, GotOK
  <1>8. (got[c] \o s.tx) \o k.out = (got[c] \o sock[c].tx) \o out
    BY <1>1, <1>7 DEF Alike
  <1>9. ASSUME NEW d \in Client, d # c
        PROVE  Heard(d)' = Heard(d)
    <2>1. sock'[d] = sock[d]
      BY <1>1, <1>9 DEF IInv, Shape
    <2>2. \A e : (e \in DOMAIN conns /\ conns[e].client = d)
                   \/ (e \in DOMAIN conns' /\ conns'[e].client = d) =>
             /\ e \in DOMAIN conns /\ e \in DOMAIN conns'
             /\ conns[e].client = d /\ conns'[e].client = d
             /\ conns[e].out = conns'[e].out
      BY <1>1, <1>9 DEF IInv, Shape
    <2>3. Waiting(conns', d) = Waiting(conns, d)
      BY <2>2, WaitingSame
    <2> QED
      BY <2>1, <2>3, HeardIs
  <1> QED
    BY <1>5, <1>6, <1>8, <1>9

LEMMA HeardWrite ==
    ASSUME IInv, IInv', Kinds, HandleWrite
    PROVE  \A c \in Client : Thinned(Heard(c), Heard(c)')
  <1>1. CASE UNCHANGED <<sock, conns>>
    BY <1>1, HeardApart DEF HandleWrite
  <1>2. CASE ~UNCHANGED <<sock, conns>>
    <2>1. PICK fd, out, c : fd = Call.fd /\ out = conns[fd].out /\ c = conns[fd].client
      OBVIOUS
    <2>2. fd \in DOMAIN conns
      BY <1>2, <2>1, WriteOutputs
    <2>3. PICK s, k : Outputs(fd, out, s, k)
      BY <1>2, <2>1, WriteOutputs
    <2>4. got' = got
      BY DEF HandleWrite
    <2>5. /\ Heard(c)' = (got[c] \o sock[c].tx) \o out
          /\ Heard(c) = (got[c] \o sock[c].tx) \o conns[fd].out
          /\ \A d \in Client : d # c => Heard(d)' = Heard(d)
      <3>1. c = conns[fd].client
        BY <2>1
      <3> QED
        BY <2>2, <2>3, <2>4, <3>1, HeardOutput
    <2>6. \A d \in Client : Heard(d)' = Heard(d)
      BY <2>1, <2>5
    <2> QED
      BY <2>6, ThinnedSame
  <1> QED
    BY <1>1, <1>2

LEMMA HeardSend ==
    ASSUME IInv, IInv', Kinds, NEW fd, SendToFd(fd), got' = got
    PROVE  \/ fd \notin DOMAIN conns /\ \A c \in Client : Thinned(Heard(c), Heard(c)')
           \/ /\ fd \in DOMAIN conns
              /\ \E c \in Client : /\ c = conns[fd].client
                                   /\ Longer(Heard(c), Heard(c)', Call.m)
                                   /\ \A d \in Client : d # c => Heard(d)' = Heard(d)
  <1>1. CASE fd \notin DOMAIN conns
    <2>1. UNCHANGED <<sock, conns>>
      BY <1>1 DEF SendToFd
    <2> QED
      BY <1>1, <2>1, HeardApart
  <1>2. CASE fd \in DOMAIN conns
    <2>1. PICK m, c, was, out : m = Call.m /\ c = conns[fd].client /\ was = conns[fd].out
                                /\ out = Append(was, m)
      OBVIOUS
    <2>2. PICK s, k : Outputs(fd, out, s, k)
      BY <1>2, <2>1, SendOutputs
    <2>3. /\ Heard(c)' = (got[c] \o sock[c].tx) \o out
          /\ Heard(c) = (got[c] \o sock[c].tx) \o was
          /\ \A d \in Client : d # c => Heard(d)' = Heard(d)
      BY <1>2, <2>1, <2>2, HeardOutput
    <2>4. c \in Client
      BY <1>2, <2>1 DEF IInv, Shape
    <2>5. PICK g, one : g = got[c] \o sock[c].tx /\ one = <<m>>
      OBVIOUS
    <2>6. ASeq(g) /\ ASeq(was) /\ ASeq(one)
      BY <1>2, <2>1, <2>4, <2>5, HeardSequence, Calls1 DEF Kinds, TableOK, ConnectionOK
    <2>7. PICK h : h = g \o was
      OBVIOUS
    <2>8. ASeq(h)
      BY <2>6, <2>7, JoinParts
    <2>9. out = was \o one
      BY <2>1, <2>5, <2>6, AppendParts
    <2>10. h \o one = g \o (was \o one)
      BY ONLY <2>6, <2>7, Regrouped
    <2>11. Append(h, m) = h \o one
      BY <2>5, <2>8, AppendParts
    <2>12. Heard(c) = h /\ Heard(c)' = Append(h, m)
      BY <2>3, <2>5, <2>7, <2>9, <2>10, <2>11
    <2>13. PICK h1 : h1 = Append(h, m)
      OBVIOUS
    <2>14. Longer(h, h1, m)
      BY <2>8, <2>13, AppendParts DEF Longer
    <2>15. Longer(Heard(c), Heard(c)', m)
      BY <2>12, <2>13, <2>14
    <2> QED
      BY <1>2, <2>1, <2>3, <2>4, <2>15
  <1> QED
    BY <1>1, <1>2

Hears == [c \in Client |-> Heard(c)]

(* A step adds a message to what one client hears, or none to any.         *)
LEMMA HearsStep ==
    ASSUME Whole, Whole', [Next]_vars
    PROVE  \/ \A c \in Client : Thinned(Heard(c), Heard(c)')
           \/ Calling("send") /\ \E fd \in Call.fds \cap DOMAIN conns :
                  /\ SendToFd(fd)
                  /\ \E c \in Client : /\ c = conns[fd].client
                                       /\ Longer(Heard(c), Heard(c)', Call.m)
                                       /\ \A d \in Client : d # c => Heard(d)' = Heard(d)
  <1>1. IInv /\ IInv' /\ Kinds
    BY DEF Whole
  <1>2. CASE UNCHANGED <<got, conns, sock>>
    BY <1>1, <1>2, HeardApart
  <1>3. CASE \/ Wait \/ TakeEvent \/ (\E due \in BOOLEAN : CheckHeartbeats(due)) \/ Broadcast
             \/ AbandonFrames \/ ProcessMessage \/ UNCHANGED vars \/ Silence
    BY <1>2, <1>3 DEF Wait, TakeEvent, CheckHeartbeats, Broadcast, AbandonFrames,
                      ProcessMessage, Silence, vars, kernel, server
  <1>4. CASE SendMessage
    <2>1. PICK fd \in Call.fds : SendToFd(fd)
      BY <1>4 DEF SendMessage
    <2>2. got' = got /\ Calling("send")
      BY <1>4 DEF SendMessage
    <2> QED
      BY <1>1, <2>1, <2>2, HeardSend
  <1>5. CASE HandleRead
    <2>1. UNCHANGED <<got, conns>>
      BY <1>5 DEF HandleRead
    <2>2. CASE sock' = sock
      BY <1>2, <2>1, <2>2
    <2>3. CASE sock' # sock
      <3>1. PICK a : a = conns[Call.fd].client
        OBVIOUS
      <3>2. sock' = [sock EXCEPT ![a].rx = <<>>]
        BY <1>5, <2>3, <3>1 DEF HandleRead
      <3>3. ASSUME NEW c \in Client
            PROVE  sock'[c].tx = sock[c].tx
        <4>1. Socket(sock[c]) /\ sock = [d \in Client |-> sock[d]]
          BY <1>1 DEF IInv, Shape
        <4>2. sock'[c] = IF c = a THEN [sock[c] EXCEPT !.rx = <<>>] ELSE sock[c]
          BY <3>2, <4>1
        <4> QED
          BY <4>1, <4>2 DEF Socket
      <3> QED
        BY <1>1, <2>1, <3>3, HeardApart
    <2> QED
      BY <2>2, <2>3
  <1>6. ASSUME NEW c \in Client, Connect(c) \/ HangUp(c) \/ Reset(c) \/ ClientSend(c)
        PROVE  \A d \in Client : Thinned(Heard(d), Heard(d)')
    <2>1. UNCHANGED <<got, conns>>
      BY <1>6 DEF Connect, HangUp, Reset, ClientSend, server
    <2>2. ASSUME NEW s, sock' = [sock EXCEPT ![c] = s], s.tx = sock[c].tx
          PROVE  \A d \in Client : sock'[d].tx = sock[d].tx
      BY <1>1, <2>2 DEF IInv, Shape
    <2>3. \E s : sock' = [sock EXCEPT ![c] = s] /\ s.tx = sock[c].tx
      <3>0. Socket(sock[c])
        BY <1>1 DEF IInv, Shape
      <3>1. CASE Connect(c)
        <4>1. PICK s : s = [sock[c] EXCEPT !.state = "pending"]
          OBVIOUS
        <4>2. sock' = [sock EXCEPT ![c] = s]
          BY <3>1, <4>1 DEF Connect
        <4>3. s.tx = sock[c].tx
          BY <3>0, <4>1 DEF Socket
        <4> QED
          BY <4>2, <4>3
      <3>2. CASE HangUp(c)
        <4>1. PICK s : s = [sock[c] EXCEPT !.fin = TRUE]
          OBVIOUS
        <4>2. sock' = [sock EXCEPT ![c] = s]
          BY <3>2, <4>1 DEF HangUp
        <4>3. s.tx = sock[c].tx
          BY <3>0, <4>1 DEF Socket
        <4> QED
          BY <4>2, <4>3
      <3>3. CASE Reset(c)
        <4>1. PICK s : s = [sock[c] EXCEPT !.rst = TRUE]
          OBVIOUS
        <4>2. sock' = [sock EXCEPT ![c] = s]
          BY <3>3, <4>1 DEF Reset
        <4>3. s.tx = sock[c].tx
          BY <3>0, <4>1 DEF Socket
        <4> QED
          BY <4>2, <4>3
      <3>4. CASE ClientSend(c)
        <4>1. PICK n, rx : sock' = [sock EXCEPT ![c].sent = n, ![c].rx = rx]
          BY <3>4 DEF ClientSend
        <4>2. PICK s : s = [sock[c] EXCEPT !.sent = n, !.rx = rx]
          OBVIOUS
        <4>3. sock' = [sock EXCEPT ![c] = s]
          BY <1>1, <4>1, <4>2 DEF IInv, Shape
        <4>4. s.tx = sock[c].tx
          BY <3>0, <4>2 DEF Socket
        <4> QED
          BY <4>3, <4>4
      <3> QED
        BY <1>6, <3>1, <3>2, <3>3, <3>4
    <2> QED
      BY <1>1, <2>1, <2>2, <2>3, HeardApart
  <1>7. CASE ClientStep
    <2>1. PICK c \in Client : Connect(c) \/ ClientSend(c) \/ HangUp(c) \/ Reset(c) \/ ClientRead(c)
      BY <1>7 DEF ClientStep
    <2>2. CASE ClientRead(c)
      BY <1>1, <2>2, HeardRead
    <2> QED
      BY <1>6, <2>1, <2>2
  <1>8. CASE HandleAccept \/ HandleWrite \/ HandleClose \/ Stop
    BY <1>1, <1>8, HeardAccept, HeardWrite, HeardClose, HeardStop
  <1> QED
    BY <1>3, <1>4, <1>5, <1>7, <1>8 DEF Next, ServerStep

------------------------------------------------------------------------------
(* The numbers of the frames.  Those that the server has not read follow   *)
(* on those it has, and those it is at work on are not yet said.           *)
ReadSoFar(c) == sock[c].sent - Len(sock[c].rx)

Numbered ==
    \A c \in Client : /\ ReadSoFar(c) \in Nat
                      /\ \A i \in 1 .. Len(sock[c].rx) : sock[c].rx[i].n = ReadSoFar(c) + i

FramesRead(call) ==
    /\ ASeq(call.frames)
    /\ \A k \in 1 .. Len(call.frames) :
          call.frames[k].n \in Nat /\ call.frames[k].n <= ReadSoFar(call.client)
    /\ \A k, l \in 1 .. Len(call.frames) : k < l => call.frames[k].n < call.frames[l].n

FramesOK == \A i \in 1 .. Len(todo) : todo[i].op = "frames" => FramesRead(todo[i])

(* The n-th frame of c has been processed.                                 *)
Said(c, n) ==
    /\ n \in Nat /\ n <= ReadSoFar(c)
    /\ \A i \in 1 .. Len(todo) : todo[i].op = "frames" /\ todo[i].client = c =>
          \A k \in 1 .. Len(todo[i].frames) : n < todo[i].frames[k].n

(* What a step does to the frames that wait to be read.                    *)
Sent(s, t) == \E f : f.n = s.sent + 1 /\ t.rx = Append(s.rx, f) /\ t.sent = s.sent + 1
Arrival(s, t) ==
    \/ t.rx = s.rx /\ t.sent = s.sent
    \/ t.rx = <<>> /\ t.sent = s.sent
    \/ Sent(s, t)

LEMMA ArrivalOne ==
    ASSUME Shape, NEW c \in Client, NEW t, sock' = [sock EXCEPT ![c] = t], Arrival(sock[c], t)
    PROVE  \A d \in Client : Arrival(sock[d], sock'[d])
  <1>1. sock = [d \in Client |-> sock[d]]
    BY DEF Shape
  <1>2. ASSUME NEW d \in Client
        PROVE  Arrival(sock[d], sock'[d])
    <2>1. CASE d = c
      BY <1>1, <2>1
    <2>2. CASE d # c
      <3>1. sock'[d] = sock[d]
        BY <1>1, <2>2
      <3> QED
        BY <3>1 DEF Arrival
    <2> QED
      BY <2>1, <2>2
  <1> QED
    BY <1>2

(* Steps that leave what waits to be read alone.                           *)
LEMMA ArrivalNone ==
    ASSUME Shape, NEW c \in Client, NEW t, sock' = [sock EXCEPT ![c] = t],
           t.rx = sock[c].rx, t.sent = sock[c].sent
    PROVE  \A d \in Client : Arrival(sock[d], sock'[d])
  <1>1. Arrival(sock[c], t)
    BY DEF Arrival
  <1> QED
    BY <1>1, ArrivalOne

LEMMA ArrivalState ==
    ASSUME Shape, NEW c \in Client, NEW state, sock' = [sock EXCEPT ![c].state = state]
    PROVE  \A d \in Client : Arrival(sock[d], sock'[d])
  <1>1. PICK t : t = [sock[c] EXCEPT !.state = state]
    OBVIOUS
  <1>2. Socket(sock[c])
    BY DEF Shape
  <1>3. t.rx = sock[c].rx /\ t.sent = sock[c].sent
    BY <1>1, <1>2 DEF Socket
  <1>4. sock' = [sock EXCEPT ![c] = t]
    BY <1>1
  <1> QED
    BY <1>3, <1>4, ArrivalNone

LEMMA ArrivalKernel ==
    ASSUME Shape, NEW c \in Client, NEW x,
           \/ sock' = [sock EXCEPT ![c].fin = x] \/ sock' = [sock EXCEPT ![c].rst = x]
           \/ sock' = [sock EXCEPT ![c].tx = x]
    PROVE  \A d \in Client : Arrival(sock[d], sock'[d])
  <1>1. Socket(sock[c])
    BY DEF Shape
  <1>2. PICK t : /\ sock' = [sock EXCEPT ![c] = t]
                 /\ \/ t = [sock[c] EXCEPT !.fin = x] \/ t = [sock[c] EXCEPT !.rst = x]
                    \/ t = [sock[c] EXCEPT !.tx = x]
    <2>1. CASE sock' = [sock EXCEPT ![c].fin = x]
      BY <2>1
    <2>2. CASE sock' = [sock EXCEPT ![c].rst = x]
      BY <2>2
    <2>3. CASE sock' = [sock EXCEPT ![c].tx = x]
      BY <2>3
    <2> QED
      BY <2>1, <2>2, <2>3
  <1>3. t.rx = sock[c].rx /\ t.sent = sock[c].sent
    BY <1>1, <1>2 DEF Socket
  <1> QED
    BY <1>2, <1>3, ArrivalNone

LEMMA Arrivals ==
    ASSUME Whole, [Next]_vars
    PROVE  \A c \in Client : Arrival(sock[c], sock'[c])
  <1>0. IInv /\ Kinds /\ Shape
    BY DEF Whole, IInv
  <1>1. CASE UNCHANGED sock
    BY <1>1 DEF Arrival
  <1>2. CASE \/ Wait \/ TakeEvent \/ (\E due \in BOOLEAN : CheckHeartbeats(due)) \/ Broadcast
             \/ AbandonFrames \/ ProcessMessage \/ UNCHANGED vars \/ Silence
    BY <1>1, <1>2 DEF Wait, TakeEvent, CheckHeartbeats, Broadcast, AbandonFrames,
                      ProcessMessage, Silence, vars, kernel
  <1>3. ASSUME NEW fd \in DOMAIN conns, NEW out, NEW s, NEW k, Outputs(fd, out, s, k)
        PROVE  \A c \in Client : Arrival(sock[c], sock'[c])
    <2>1. PICK c : c = conns[fd].client
      OBVIOUS
    <2>2. /\ c \in Client /\ sock' = [sock EXCEPT ![c] = s]
          /\ s.rx = sock[c].rx /\ s.sent = sock[c].sent
      BY <1>0, <1>3, <2>1 DEF Outputs, Shape
    <2> QED
      BY <1>0, <2>2, ArrivalNone
  <1>4. CASE SendMessage
    <2>1. PICK fd \in Call.fds : SendToFd(fd)
      BY <1>4 DEF SendMessage
    <2>2. CASE fd \in DOMAIN conns
      <3>1. PICK out : out = Append(conns[fd].out, Call.m)
        OBVIOUS
      <3>2. PICK s, k : Outputs(fd, out, s, k)
        BY <1>0, <2>1, <2>2, <3>1, SendOutputs
      <3> QED
        BY <1>3, <2>2, <3>2
    <2>3. CASE fd \notin DOMAIN conns
      BY <1>1, <2>1, <2>3 DEF SendToFd
    <2> QED
      BY <2>2, <2>3
  <1>5. CASE HandleWrite
    <2>1. CASE ~UNCHANGED <<sock, conns>>
      <3>1. PICK fd, out : fd = Call.fd /\ out = conns[Call.fd].out
        OBVIOUS
      <3>2. fd \in DOMAIN conns
        BY <1>0, <1>5, <2>1, <3>1, WriteOutputs
      <3>3. PICK s, k : Outputs(fd, out, s, k)
        BY <1>0, <1>5, <2>1, <3>1, WriteOutputs
      <3> QED
        BY <1>3, <3>2, <3>3
    <2> QED
      BY <1>1, <2>1
  <1>6. CASE HandleClose
    <2>1. PICK fd \in Call.fds : IF fd \in DOMAIN conns THEN CloseConnection(fd) ELSE UNCHANGED sock
      BY <1>6 DEF HandleClose
    <2>2. CASE fd \in DOMAIN conns
      <3>1. PICK c : c = conns[fd].client
        OBVIOUS
      <3>2. c \in Client /\ sock' = [sock EXCEPT ![c].state = "closed"]
        BY <1>0, <2>1, <2>2, <3>1 DEF CloseConnection, Shape
      <3> QED
        BY <1>0, <3>2, ArrivalState
    <2> QED
      BY <1>1, <2>1, <2>2
  <1>7. CASE HandleAccept
    <2>1. CASE UNCHANGED sock
      BY <1>1, <2>1
    <2>2. CASE ~UNCHANGED sock
      <3>1. PICK c : c = Head(backlog)
        OBVIOUS
      <3>2. backlog # <<>> /\ sock' = [sock EXCEPT ![c].state = "open"]
        BY <1>7, <2>2, <3>1 DEF HandleAccept
      <3>3. c \in Client
        BY <1>0, <3>1, <3>2 DEF IInv, Queued
      <3> QED
        BY <1>0, <3>2, <3>3, ArrivalState
    <2> QED
      BY <2>1, <2>2
  <1>8. CASE HandleRead
    <2>1. CASE UNCHANGED sock
      BY <1>1, <2>1
    <2>2. CASE ~UNCHANGED sock
      <3>1. PICK c : c = conns[Call.fd].client
        OBVIOUS
      <3>2. Call.fd \in DOMAIN conns /\ sock' = [sock EXCEPT ![c].rx = <<>>]
        BY <1>8, <2>2, <3>1 DEF HandleRead
      <3>3. c \in Client /\ Socket(sock[c])
        BY <1>0, <3>1, <3>2 DEF Shape
      <3>4. PICK t : t = [sock[c] EXCEPT !.rx = <<>>]
        OBVIOUS
      <3>5. t.rx = <<>> /\ t.sent = sock[c].sent
        BY <3>3, <3>4 DEF Socket
      <3>6. sock' = [sock EXCEPT ![c] = t]
        BY <3>2, <3>4
      <3>7. Arrival(sock[c], t)
        BY <3>5 DEF Arrival
      <3> QED
        BY <1>0, <3>3, <3>6, <3>7, ArrivalOne
    <2> QED
      BY <2>1, <2>2
  <1>9. CASE Stop
    <2>1. ASSUME NEW c \in Client
          PROVE  sock'[c].rx = sock[c].rx /\ sock'[c].sent = sock[c].sent
      BY <1>0, <1>9 DEF Stop, Shape, Socket
    <2> QED
      BY <2>1 DEF Arrival
  <1>10. ASSUME NEW c \in Client, ClientSend(c)
         PROVE  \A d \in Client : Arrival(sock[d], sock'[d])
    <2>1. PICK s : s = sock[c]
      OBVIOUS
    <2>2. PICK f \in Request :
             sock' = [sock EXCEPT ![c].sent = @ + 1,
                                  ![c].rx = Append(@, [type |-> f.type, arg |-> f.arg,
                                                       n |-> sock[c].sent + 1])]
      BY <1>10 DEF ClientSend
    <2>3. PICK g : g = [type |-> f.type, arg |-> f.arg, n |-> s.sent + 1]
      OBVIOUS
    <2>4. PICK n, rx : n = s.sent + 1 /\ rx = Append(s.rx, g)
      OBVIOUS
    <2>5. PICK t : t = [s EXCEPT !.sent = n, !.rx = rx]
      OBVIOUS
    <2>6. Socket(s) /\ sock = [d \in Client |-> sock[d]]
      BY <1>0, <2>1 DEF Shape
    <2>7. sock' = [sock EXCEPT ![c] = t]
      <3>1. sock' = [sock EXCEPT ![c].sent = n, ![c].rx = rx]
        BY <2>1, <2>2, <2>3, <2>4, <2>6
      <3> QED
        BY <2>1, <2>5, <2>6, <3>1
    <2>8. t.sent = n /\ t.rx = rx
      BY <2>5, <2>6 DEF Socket
    <2>9. Arrival(s, t)
      BY <2>3, <2>4, <2>8 DEF Arrival, Sent
    <2> QED
      BY <1>0, <2>1, <2>7, <2>9, ArrivalOne
  <1>11. ASSUME NEW c \in Client, Connect(c) \/ HangUp(c) \/ Reset(c) \/ ClientRead(c)
         PROVE  \A d \in Client : Arrival(sock[d], sock'[d])
    <2>1. CASE Connect(c)
      BY <1>0, <2>1, ArrivalState DEF Connect
    <2>2. CASE HangUp(c)
      BY <1>0, <2>2, ArrivalKernel DEF HangUp
    <2>3. CASE Reset(c)
      BY <1>0, <2>3, ArrivalKernel DEF Reset
    <2>4. CASE ClientRead(c)
      <3>1. PICK tx : tx = Tail(sock[c].tx)
        OBVIOUS
      <3>2. sock' = [sock EXCEPT ![c].tx = tx]
        BY <2>4, <3>1 DEF ClientRead
      <3> QED
        BY <1>0, <3>2, ArrivalKernel
    <2> QED
      BY <1>11, <2>1, <2>2, <2>3, <2>4
  <1>12. CASE ClientStep
    BY <1>10, <1>11, <1>12 DEF ClientStep
  <1> QED
    BY <1>2, <1>4, <1>5, <1>6, <1>7, <1>8, <1>9, <1>12 DEF Next, ServerStep

LEMMA NumberedStep ==
    ASSUME Kinds, Numbered, \A c \in Client : Arrival(sock[c], sock'[c])
    PROVE  Numbered' /\ \A c \in Client : ReadSoFar(c) <= ReadSoFar(c)'
  <1>1. ASSUME NEW c \in Client
        PROVE  /\ ReadSoFar(c)' \in Nat /\ ReadSoFar(c) <= ReadSoFar(c)'
               /\ \A i \in 1 .. Len(sock'[c].rx) : sock'[c].rx[i].n = ReadSoFar(c)' + i
    <2>1. PICK s, t : s = sock[c] /\ t = sock'[c]
      OBVIOUS
    <2>2. /\ s.sent \in Nat /\ ASeq(s.rx) /\ Len(s.rx) \in Nat /\ s.sent - Len(s.rx) \in Nat
          /\ \A i \in 1 .. Len(s.rx) : s.rx[i].n = s.sent - Len(s.rx) + i
      BY <2>1, JoinParts DEF Kinds, SocketsOK, SocketOK, Numbered, ReadSoFar
    <2>3. /\ ReadSoFar(c) = s.sent - Len(s.rx) /\ ReadSoFar(c)' = t.sent - Len(t.rx)
          /\ sock'[c].rx = t.rx
      BY <2>1 DEF ReadSoFar
    <2>4. CASE t.rx = s.rx /\ t.sent = s.sent
      BY <2>2, <2>3, <2>4
    <2>5. CASE t.rx = <<>> /\ t.sent = s.sent
      BY <2>2, <2>3, <2>5
    <2>6. CASE Sent(s, t)
      <3>1. PICK f : f.n = s.sent + 1 /\ t.rx = Append(s.rx, f) /\ t.sent = s.sent + 1
        BY <2>6 DEF Sent
      <3>2. /\ Len(t.rx) = Len(s.rx) + 1 /\ t.rx[Len(s.rx) + 1] = f
            /\ \A i \in 1 .. Len(s.rx) : t.rx[i] = s.rx[i]
        BY <2>2, <3>1, AppendParts
      <3>3. t.sent - Len(t.rx) = s.sent - Len(s.rx)
        BY <2>2, <3>1, <3>2
      <3>4. ASSUME NEW i \in 1 .. Len(t.rx)
            PROVE  t.rx[i].n = t.sent - Len(t.rx) + i
        <4>1. CASE i <= Len(s.rx)
          <5>1. i \in 1 .. Len(s.rx)
            BY <2>2, <4>1
          <5>2. t.rx[i] = s.rx[i] /\ s.rx[i].n = s.sent - Len(s.rx) + i
            BY <2>2, <3>2, <5>1
          <5> QED
            BY <3>3, <5>2
        <4>2. CASE ~(i <= Len(s.rx))
          <5>1. i = Len(s.rx) + 1
            BY <2>2, <3>2, <4>2
          <5>2. t.rx[i].n = s.sent + 1
            BY <3>1, <3>2, <5>1
          <5> QED
            BY <2>2, <3>3, <5>1, <5>2
        <4> QED
          BY <4>1, <4>2
      <3> QED
        BY <2>2, <2>3, <3>3, <3>4
    <2> QED
      BY <2>1, <2>4, <2>5, <2>6 DEF Arrival
  <1> QED
    BY <1>1 DEF Numbered

(* Where a loop over frames comes from.                                    *)
LEMMA FrameSource ==
    ASSUME Whole, [Next]_vars, NEW i \in 1 .. Len(todo'), NEW call, call = todo'[i],
           call.op = "frames"
    PROVE  \/ \E j \in 1 .. Len(todo) : todo[j] = call
           \/ /\ todo # <<>> /\ Call.op = "frames"
              /\ call.client = Call.client /\ call.frames = Tail(Call.frames)
           \/ Fetched(call)
  <1>1. IInv /\ Kinds /\ Stack /\ RegistryShape
    BY RegistryShaped DEF Whole
  <1>2. CASE UNCHANGED todo
    BY <1>2
  <1>3. CASE Begins
    BY <1>3 DEF Begins, Begun
  <1>4. CASE todo # <<>> /\ Advanced
    <2>1. PICK calls : Do(calls) /\ Pushed(calls)
      BY <1>4 DEF Advanced
    <2>2. /\ Len(calls) \in Nat /\ Len(todo) \in Nat \ {0}
          /\ Len(todo') = Len(calls) + Len(todo) - 1
          /\ \A k \in 1 .. Len(todo') :
                todo'[k] = IF k <= Len(calls) THEN calls[k] ELSE todo[k - Len(calls) + 1]
      BY <1>1, <1>4, <2>1, DoParts DEF Stack, Pushed
    <2>3. CASE i <= Len(calls)
      <3>1. i \in 1 .. Len(calls) /\ calls[i] = call
        BY <2>2, <2>3
      <3>2. Fits(calls[i], i, Len(calls))
        BY <2>1, <3>1 DEF Pushed
      <3>3. Fits(call, i, Len(calls))
        BY <3>1, <3>2
      <3> QED
        BY <1>4, <3>3 DEF Fits, Base
    <2>4. CASE ~(i <= Len(calls))
      <3>1. PICK j : j = i - Len(calls) + 1
        OBVIOUS
      <3>2. j \in 1 .. Len(todo) /\ todo[j] = call
        BY <2>2, <2>4, <3>1
      <3> QED
        BY <3>2
    <2> QED
      BY <2>3, <2>4
  <1>5. UNCHANGED todo \/ Begins \/ (todo # <<>> /\ Advanced)
    BY <1>1, TodoStep DEF Outside
  <1> QED
    BY <1>2, <1>3, <1>4, <1>5

LEMMA TopFrames ==
    ASSUME Stack, FramesOK, todo # <<>>, Call.op = "frames"
    PROVE  /\ FramesRead(Call) /\ Call.client \in Client /\ Call.frames # <<>>
           /\ \E i \in 1 .. Len(todo) : todo[i] = Call
           /\ \A i \in 1 .. Len(todo) : i # 1 => todo[i].op = "write"
  <1>1. Call = todo[1] /\ 1 \in 1 .. Len(todo)
    BY HeadParts DEF Stack, Call
  <1>2. CallShape(Call)
    BY HeadShape
  <1> QED
    BY <1>1, <1>2, NoCloseUnderBase DEF FramesOK, CallShape, CallOK, Base

LEMMA FetchedParts ==
    ASSUME Kinds, Numbered, NEW call, Fetched(call), call.op = "frames"
    PROVE  /\ call.client \in Client /\ FramesRead(call)'
           /\ \A k \in 1 .. Len(call.frames) : ReadSoFar(call.client) < call.frames[k].n
  <1>1. PICK c, fs : c = call.client /\ fs = call.frames
    OBVIOUS
  <1>2. PICK s, t : s = sock[c] /\ t = sock'[c]
    OBVIOUS
  <1>3. c \in Client /\ fs = s.rx /\ t.rx = <<>> /\ t.sent = s.sent
    BY <1>1, <1>2 DEF Fetched
  <1>4. /\ s.sent \in Nat /\ ASeq(fs) /\ Len(fs) \in Nat /\ s.sent - Len(fs) \in Nat
        /\ \A i \in 1 .. Len(fs) : fs[i].n = s.sent - Len(fs) + i
    BY <1>2, <1>3, JoinParts DEF Kinds, SocketsOK, SocketOK, Numbered, ReadSoFar
  <1>5. ReadSoFar(c) = s.sent - Len(fs) /\ ReadSoFar(c)' = s.sent
    BY <1>2, <1>3, <1>4 DEF ReadSoFar
  <1>6. \A k \in 1 .. Len(fs) : fs[k].n \in Nat /\ fs[k].n <= s.sent /\ s.sent - Len(fs) < fs[k].n
    BY <1>4
  <1>7. \A k, l \in 1 .. Len(fs) : k < l => fs[k].n < fs[l].n
    BY <1>4
  <1>8. FramesRead(call)'
    BY <1>1, <1>4, <1>5, <1>6, <1>7 DEF FramesRead
  <1> QED
    BY <1>1, <1>3, <1>5, <1>6, <1>8

LEMMA FramesStep ==
    ASSUME Whole, Numbered, FramesOK, [Next]_vars
    PROVE  FramesOK'
  <1>0. /\ Kinds /\ Stack /\ Numbered'
        /\ \A c \in Client : /\ ReadSoFar(c) \in Nat /\ ReadSoFar(c)' \in Nat
                             /\ ReadSoFar(c) <= ReadSoFar(c)'
    <2>1. Kinds /\ Stack
      BY DEF Whole
    <2>2. Numbered' /\ \A c \in Client : ReadSoFar(c) <= ReadSoFar(c)'
      BY <2>1, Arrivals, NumberedStep
    <2> QED
      BY <2>1, <2>2 DEF Numbered
  <1>1. ASSUME NEW i \in 1 .. Len(todo'), NEW call, call = todo'[i], call.op = "frames"
        PROVE  FramesRead(call)'
    <2>1. CASE \E j \in 1 .. Len(todo) : todo[j] = call
      <3>1. FramesRead(call) /\ CallShape(call)
        BY <1>0, <1>1, <2>1 DEF FramesOK, Stack
      <3>2. call.client \in Client
        BY <1>1, <3>1 DEF CallShape, CallOK
      <3>3. PICK c : c = call.client
        OBVIOUS
      <3>4. ReadSoFar(c) \in Nat /\ ReadSoFar(c)' \in Nat /\ ReadSoFar(c) <= ReadSoFar(c)'
        BY <1>0, <3>2, <3>3
      <3>5. \A k \in 1 .. Len(call.frames) :
               call.frames[k].n \in Nat /\ call.frames[k].n <= ReadSoFar(c)'
        BY <3>1, <3>3, <3>4 DEF FramesRead
      <3> QED
        BY <3>1, <3>3, <3>5 DEF FramesRead
    <2>2. CASE /\ todo # <<>> /\ Call.op = "frames"
               /\ call.client = Call.client /\ call.frames = Tail(Call.frames)
      <3>1. PICK c, fs, gs : c = Call.client /\ fs = Call.frames /\ gs = Tail(Call.frames)
        OBVIOUS
      <3>2. FramesRead(Call) /\ c \in Client /\ fs # <<>>
        BY <1>0, <2>2, <3>1, TopFrames
      <3>3. ASeq(fs)
        BY <3>1, <3>2 DEF FramesRead
      <3>4. /\ ASeq(gs) /\ Len(fs) \in Nat \ {0} /\ Len(gs) = Len(fs) - 1
            /\ \A k \in 1 .. Len(gs) : gs[k] = fs[k + 1]
        BY <3>1, <3>2, <3>3, HeadParts
      <3>5. ReadSoFar(c) \in Nat /\ ReadSoFar(c)' \in Nat /\ ReadSoFar(c) <= ReadSoFar(c)'
        BY <1>0, <3>2
      <3>6. /\ \A k \in 1 .. Len(fs) : fs[k].n \in Nat /\ fs[k].n <= ReadSoFar(c)
            /\ \A k, l \in 1 .. Len(fs) : k < l => fs[k].n < fs[l].n
        BY <3>1, <3>2 DEF FramesRead
      <3>7. \A k \in 1 .. Len(gs) : gs[k].n \in Nat /\ gs[k].n <= ReadSoFar(c)'
        BY <3>4, <3>5, <3>6
      <3>8. \A k, l \in 1 .. Len(gs) : k < l => gs[k].n < gs[l].n
        <4>1. ASSUME NEW k \in 1 .. Len(gs), NEW l \in 1 .. Len(gs), k < l
              PROVE  gs[k].n < gs[l].n
          <5>1. k + 1 \in 1 .. Len(fs) /\ l + 1 \in 1 .. Len(fs) /\ k + 1 < l + 1
            BY <3>4, <4>1
          <5>2. fs[k + 1].n < fs[l + 1].n
            BY <3>6, <5>1
          <5> QED
            BY <3>4, <5>2
        <4> QED
          BY <4>1
      <3>9. call.client = c /\ call.frames = gs
        BY <2>2, <3>1
      <3> QED
        BY <3>4, <3>7, <3>8, <3>9 DEF FramesRead
    <2>3. CASE Fetched(call)
      BY <1>0, <1>1, <2>3, FetchedParts
    <2> QED
      BY <1>1, <2>1, <2>2, <2>3, FrameSource
  <1>2. ASSUME NEW i \in 1 .. Len(todo'), todo'[i].op = "frames"
        PROVE  FramesRead(todo[i])'
    <2>1. PICK call : call = todo'[i]
      OBVIOUS
    <2>2. FramesRead(call)'
      BY <1>1, <1>2, <2>1
    <2> QED
      BY <2>1, <2>2 DEF FramesRead
  <1> QED
    BY <1>2 DEF FramesOK

(* What has been said stays said.                                          *)
LEMMA SaidStep ==
    ASSUME Whole, Numbered, FramesOK, [Next]_vars, NEW c \in Client, NEW n, Said(c, n)
    PROVE  Said(c, n)'
  <1>0. /\ Kinds /\ Stack
        /\ ReadSoFar(c) \in Nat /\ ReadSoFar(c)' \in Nat /\ ReadSoFar(c) <= ReadSoFar(c)'
    <2>1. Kinds /\ Stack
      BY DEF Whole
    <2>2. Numbered' /\ ReadSoFar(c) <= ReadSoFar(c)'
      BY <2>1, Arrivals, NumberedStep
    <2> QED
      BY <2>1, <2>2 DEF Numbered
  <1>1. n \in Nat /\ n <= ReadSoFar(c)
    BY DEF Said
  <1>2. ASSUME NEW i \in 1 .. Len(todo'), NEW call, call = todo'[i],
               call.op = "frames", call.client = c, NEW k \in 1 .. Len(call.frames)
        PROVE  n < call.frames[k].n
    <2>1. CASE \E j \in 1 .. Len(todo) : todo[j] = call
      BY <1>2, <2>1 DEF Said
    <2>2. CASE /\ todo # <<>> /\ Call.op = "frames"
               /\ call.client = Call.client /\ call.frames = Tail(Call.frames)
      <3>1. PICK fs, gs : fs = Call.frames /\ gs = Tail(Call.frames)
        OBVIOUS
      <3>2. /\ FramesRead(Call) /\ fs # <<>>
            /\ \E j \in 1 .. Len(todo) : todo[j] = Call
        BY <1>0, <2>2, <3>1, TopFrames
      <3>3. ASeq(fs)
        BY <3>1, <3>2 DEF FramesRead
      <3>4. /\ Len(fs) \in Nat \ {0} /\ Len(gs) = Len(fs) - 1
            /\ \A l \in 1 .. Len(gs) : gs[l] = fs[l + 1]
        BY <3>1, <3>2, <3>3, HeadParts
      <3>5. \A l \in 1 .. Len(fs) : n < fs[l].n
        BY <1>2, <2>2, <3>1, <3>2 DEF Said
      <3>6. call.frames = gs /\ k + 1 \in 1 .. Len(fs)
        BY <1>2, <2>2, <3>1, <3>4
      <3> QED
        BY <1>2, <3>4, <3>5, <3>6
    <2>3. CASE Fetched(call)
      <3>1. ReadSoFar(c) < call.frames[k].n /\ FramesRead(call)'
        BY <1>0, <1>2, <2>3, FetchedParts
      <3>2. call.frames[k].n \in Nat
        BY <1>2, <3>1 DEF FramesRead
      <3> QED
        BY <1>0, <1>1, <3>1, <3>2
    <2> QED
      BY <1>2, <2>1, <2>2, <2>3, FrameSource
  <1>3. n <= ReadSoFar(c)'
    BY <1>0, <1>1
  <1>4. \A i \in 1 .. Len(todo') : todo'[i].op = "frames" /\ todo'[i].client = c =>
          \A k \in 1 .. Len(todo'[i].frames) : n < todo'[i].frames[k].n
    BY <1>2
  <1> QED
    BY <1>1, <1>3, <1>4 DEF Said

------------------------------------------------------------------------------
(* One conversation.                                                       *)

(* The clients that a send has still to reach.                             *)
Goals(call) == {conns[fd].client : fd \in call.fds \cap DOMAIN conns}

(* What a carrying call may rely on.                                       *)
Voiced(call) ==
    /\ call.m.from \in Client /\ Said(call.m.from, call.m.n)
    /\ New(Hears, call.m, Goals(call), call.op = "send")

Voices == \A i \in 1 .. Len(todo) : Carries(todo[i]) => Voiced(todo[i])

(* The server says one thing at a time.                                    *)
OneVoice == \A i, j \in 1 .. Len(todo) : Carries(todo[i]) /\ Carries(todo[j]) => i = j

HeardSaid ==
    \A c \in Client : \A k \in 1 .. Len(Heard(c)) : Spoken(Heard(c)[k]) =>
        Heard(c)[k].from \in Client /\ Said(Heard(c)[k].from, Heard(c)[k].n)

Talk == Numbered /\ FramesOK /\ OneVoice /\ Voices /\ HeardSaid /\ Conversation(Hears)

LEMMA GoalsStep ==
    ASSUME Whole, [Next]_vars, ~HandleAccept, NEW call, NEW call1, call1.fds \subseteq call.fds
    PROVE  Goals(call1)' \subseteq Goals(call)
  <1>1. /\ DOMAIN conns' \subseteq DOMAIN conns
        /\ \A fd \in DOMAIN conns' : conns'[fd].client = conns[fd].client
    <2>1. CASE HandleRead
      BY <2>1 DEF HandleRead
    <2>2. CASE ~HandleRead
      BY <2>2, CausesLast
    <2> QED
      BY <2>1, <2>2
  <1> QED
    BY <1>1 DEF Goals

(* A carrying call after a step is one of before, or takes over from it,   *)
(* or comes from a frame.                                                  *)
LEMMA VoiceSource ==
    ASSUME Whole, OneVoice, [Next]_vars,
           NEW i \in 1 .. Len(todo'), NEW call, call = todo'[i], Carries(call)
    PROVE  \/ ~HandleAccept /\ \E j \in 1 .. Len(todo) : todo[j] = call
           \/ /\ ~HandleAccept /\ todo # <<>> /\ Carries(Call)
              /\ call.m = Call.m /\ call.op = "send"
              /\ Call.op = "send" => call.fds \subseteq Call.fds
           \/ /\ Calling("frames") /\ Advanced
              /\ call.m.from = Call.client /\ call.m.n = Head(Call.frames).n
  <1>1. IInv /\ Kinds /\ Stack /\ RegistryShape
    BY RegistryShaped DEF Whole
  <1>2. ASSUME HandleAccept, NEW j \in 1 .. Len(todo)
        PROVE  ~Carries(todo[j])
    <2>1. todo # <<>> /\ Call.op = "accept" /\ Call = todo[1]
      BY <1>1, <1>2, HeadParts DEF Stack, HandleAccept, Calling, Call
    <2>2. j # 1 => todo[j].op = "write"
      BY <1>1, <2>1, NoCloseUnderBase DEF Base
    <2> QED
      BY <2>1, <2>2 DEF Carries
  <1>3. CASE UNCHANGED todo
    BY <1>2, <1>3
  <1>4. CASE Begins
    BY <1>4 DEF Begins, Begun, Carries
  <1>5. CASE todo # <<>> /\ Advanced
    <2>1. PICK calls : Do(calls) /\ Pushed(calls)
      BY <1>5 DEF Advanced
    <2>2. /\ Len(calls) \in Nat /\ Len(todo) \in Nat \ {0}
          /\ Len(todo') = Len(calls) + Len(todo) - 1
          /\ \A k \in 1 .. Len(todo') :
                todo'[k] = IF k <= Len(calls) THEN calls[k] ELSE todo[k - Len(calls) + 1]
      BY <1>1, <1>5, <2>1, DoParts DEF Stack, Pushed
    <2>3. CASE i <= Len(calls)
      <3>1. i \in 1 .. Len(calls) /\ calls[i] = call
        BY <2>2, <2>3
      <3>2. Fits(calls[i], i, Len(calls))
        BY <2>1, <3>1 DEF Pushed
      <3>3. Fits(call, i, Len(calls))
        BY <3>1, <3>2
      <3>4. Carries(Call) => ~HandleAccept
        BY DEF HandleAccept, Calling, Carries
      <3> QED
        BY <1>5, <3>3, <3>4 DEF Fits, Calling
    <2>4. CASE ~(i <= Len(calls))
      <3>1. PICK j : j = i - Len(calls) + 1
        OBVIOUS
      <3>2. j \in 1 .. Len(todo) /\ todo[j] = call
        BY <2>2, <2>4, <3>1
      <3> QED
        BY <1>2, <3>2
    <2> QED
      BY <2>3, <2>4
  <1>6. UNCHANGED todo \/ Begins \/ (todo # <<>> /\ Advanced)
    BY <1>1, TodoStep DEF Outside
  <1> QED
    BY <1>3, <1>4, <1>5, <1>6

LEMMA OneVoiceStep ==
    ASSUME Whole, OneVoice, [Next]_vars
    PROVE  OneVoice'
  <1>1. IInv /\ Kinds /\ Stack /\ RegistryShape
    BY RegistryShaped DEF Whole
  <1>2. CASE UNCHANGED todo
    BY <1>2 DEF OneVoice
  <1>3. CASE Begins
    <2>1. \A i \in 1 .. Len(todo') : ~Carries(todo'[i])
      BY <1>3 DEF Begins, Begun, Carries
    <2> QED
      BY <2>1 DEF OneVoice, Carries
  <1>4. CASE todo # <<>> /\ Advanced
    <2>1. PICK calls : Do(calls) /\ Pushed(calls)
      BY <1>4 DEF Advanced
    <2>2. /\ Len(calls) \in Nat /\ Len(todo) \in Nat \ {0}
          /\ Len(todo') = Len(calls) + Len(todo) - 1
          /\ Call = todo[1]
          /\ \A k \in 1 .. Len(todo') :
                todo'[k] = IF k <= Len(calls) THEN calls[k] ELSE todo[k - Len(calls) + 1]
      BY <1>1, <1>4, <2>1, DoParts DEF Stack, Pushed
    <2>3. ASSUME NEW i \in 1 .. Len(calls), Carries(calls[i]),
                 NEW j \in 1 .. Len(todo), j # 1
          PROVE  ~Carries(todo[j])
      <3>1. Fits(calls[i], i, Len(calls))
        BY <2>1 DEF Pushed
      <3>2. Carries(Call) \/ Call.op = "frames"
        BY <2>3, <3>1 DEF Fits
      <3>3. CASE Carries(Call)
        BY <2>2, <2>3, <3>3 DEF OneVoice
      <3>4. CASE Call.op = "frames"
        <4>1. todo[j].op = "write"
          BY <1>1, <1>4, <2>3, <3>4, NoCloseUnderBase DEF Base
        <4> QED
          BY <4>1 DEF Carries
      <3> QED
        BY <3>2, <3>3, <3>4
    <2>4. ASSUME NEW i \in 1 .. Len(todo'), NEW j \in 1 .. Len(todo'),
                 Carries(todo'[i]), Carries(todo'[j])
          PROVE  i = j
      <3>1. PICK n, a, b : n = Len(calls) /\ a = i - n + 1 /\ b = j - n + 1
        OBVIOUS
      <3>2. CASE i <= n /\ j <= n
        <4>1. /\ i \in 1 .. Len(calls) /\ j \in 1 .. Len(calls)
              /\ Carries(calls[i]) /\ Carries(calls[j])
          BY <2>2, <2>4, <3>1, <3>2
        <4> QED
          BY <2>1, <4>1 DEF Pushed
      <3>3. CASE i <= n /\ ~(j <= n)
        <4>1. i \in 1 .. Len(calls) /\ Carries(calls[i])
          BY <2>2, <2>4, <3>1, <3>3
        <4>2. b \in 1 .. Len(todo) /\ b # 1 /\ todo'[j] = todo[b]
          BY <2>2, <3>1, <3>3
        <4> QED
          BY <2>3, <2>4, <4>1, <4>2
      <3>4. CASE ~(i <= n) /\ j <= n
        <4>1. j \in 1 .. Len(calls) /\ todo'[j] = calls[j]
          BY <2>2, <3>1, <3>4
        <4>2. a \in 1 .. Len(todo) /\ a # 1
          BY <2>2, <3>1, <3>4
        <4>3. todo'[i] = todo[a]
          BY <2>2, <3>1, <3>4
        <4> QED
          BY <2>3, <2>4, <4>1, <4>2, <4>3
      <3>5. CASE ~(i <= n) /\ ~(j <= n)
        <4>1. a \in 1 .. Len(todo) /\ Carries(todo[a])
          BY <2>2, <2>4, <3>1, <3>5
        <4>2. b \in 1 .. Len(todo) /\ Carries(todo[b])
          BY <2>2, <2>4, <3>1, <3>5
        <4>3. a = b
          BY <4>1, <4>2 DEF OneVoice
        <4> QED
          BY <2>2, <3>1, <4>3
      <3> QED
        BY <3>2, <3>3, <3>4, <3>5
    <2> QED
      BY <2>4 DEF OneVoice, Carries
  <1>5. UNCHANGED todo \/ Begins \/ (todo # <<>> /\ Advanced)
    BY <1>1, TodoStep DEF Outside
  <1> QED
    BY <1>2, <1>3, <1>4, <1>5

(* A frame under way has more to say than anybody has heard of its sender. *)
LEMMA SayingNew ==
    ASSUME Whole, Talk, Calling("frames"), NEW m,
           m.from = Call.client, m.n = Head(Call.frames).n, NEW goals, NEW begun
    PROVE  /\ m.from \in Client /\ m.n \in Nat /\ m.n <= ReadSoFar(m.from)
           /\ New(Hears, m, goals, begun)
  <1>1. /\ FramesRead(Call) /\ Call.client \in Client /\ Call.frames # <<>>
        /\ \E i \in 1 .. Len(todo) : todo[i] = Call
    BY TopFrames DEF Whole, Talk, Calling
  <1>2. PICK c, fs : c = Call.client /\ fs = Call.frames
    OBVIOUS
  <1>3. Len(fs) \in Nat \ {0} /\ m.n = fs[1].n /\ m.from = c
    <2>1. ASeq(fs) /\ fs # <<>>
      BY <1>1, <1>2 DEF FramesRead
    <2> QED
      BY <1>2, <2>1, HeadParts
  <1>4. fs[1].n \in Nat /\ fs[1].n <= ReadSoFar(c)
    BY <1>1, <1>2, <1>3 DEF FramesRead
  <1>5. ASSUME NEW d \in Client, NEW k \in 1 .. Len(Hears[d]), Spoken(Hears[d][k])
        PROVE  /\ Hears[d][k] # m
               /\ Hears[d][k].from = m.from => Hears[d][k].n < m.n
    <2>1. PICK h : h = Hears[d][k]
      OBVIOUS
    <2>2. h = Heard(d)[k] /\ k \in 1 .. Len(Heard(d)) /\ Spoken(h)
      BY <1>5, <2>1 DEF Hears
    <2>3. Said(h.from, h.n)
      BY <2>2 DEF Talk, HeardSaid
    <2>4. h.from = c => h.n < fs[1].n
      BY <1>1, <1>2, <1>3, <2>3 DEF Said, Calling
    <2>5. h.n \in Nat
      BY <2>3 DEF Said
    <2>6. h # m
      BY <1>3, <1>4, <2>4, <2>5
    <2> QED
      BY <1>3, <2>1, <2>4, <2>6
  <1>6. New(Hears, m, goals, begun)
    BY <1>5 DEF New
  <1> QED
    BY <1>1, <1>2, <1>3, <1>4, <1>6

(* Once its call is made, the frame is said.                               *)
LEMMA SayingSaid ==
    ASSUME Whole, Talk, [Next]_vars, Calling("frames"), Advanced,
           NEW c, c = Call.client, NEW n, n = Head(Call.frames).n
    PROVE  Said(c, n)'
  <1>1. PICK fs, gs : fs = Call.frames /\ gs = Tail(Call.frames)
    OBVIOUS
  <1>2. IInv /\ Kinds /\ Stack /\ RegistryShape /\ FramesOK /\ todo # <<>> /\ Call.op = "frames"
    BY RegistryShaped DEF Whole, Talk, Calling
  <1>3. /\ FramesRead(Call) /\ c \in Client /\ fs # <<>>
        /\ \A i \in 1 .. Len(todo) : i # 1 => todo[i].op = "write"
    BY <1>1, <1>2, TopFrames
  <1>4. /\ ASeq(fs) /\ Len(fs) \in Nat \ {0} /\ Len(gs) = Len(fs) - 1 /\ n = fs[1].n
        /\ \A k \in 1 .. Len(gs) : gs[k] = fs[k + 1]
    <2>1. ASeq(fs)
      BY <1>1, <1>3 DEF FramesRead
    <2> QED
      BY <1>1, <1>3, <2>1, HeadParts
  <1>5. /\ n \in Nat /\ n <= ReadSoFar(c)
        /\ \A k \in 1 .. Len(gs) : n < gs[k].n
    <2>1. n \in Nat /\ n <= ReadSoFar(c)
      BY <1>1, <1>3, <1>4 DEF FramesRead
    <2>2. ASSUME NEW k \in 1 .. Len(gs)
          PROVE  n < gs[k].n
      <3>1. 1 \in 1 .. Len(fs) /\ k + 1 \in 1 .. Len(fs) /\ 1 < k + 1
        BY <1>4
      <3>2. fs[1].n < fs[k + 1].n
        BY <1>1, <1>3, <3>1 DEF FramesRead
      <3> QED
        BY <1>4, <3>2
    <2> QED
      BY <2>1, <2>2
  <1>6. n <= ReadSoFar(c)'
    <2>1. /\ ReadSoFar(c) \in Nat /\ ReadSoFar(c)' \in Nat /\ ReadSoFar(c) <= ReadSoFar(c)'
      <3>1. Numbered /\ Numbered' /\ \A d \in Client : ReadSoFar(d) <= ReadSoFar(d)'
        BY <1>2, Arrivals, NumberedStep DEF Talk
      <3> QED
        BY <1>3, <3>1 DEF Numbered
    <2> QED
      BY <1>5, <2>1
  <1>8. PICK calls : Do(calls) /\ Pushed(calls)
    BY DEF Advanced
  <1>9. /\ Len(calls) \in Nat /\ Len(todo) \in Nat \ {0}
        /\ Len(todo') = Len(calls) + Len(todo) - 1
        /\ \A k \in 1 .. Len(todo') :
              todo'[k] = IF k <= Len(calls) THEN calls[k] ELSE todo[k - Len(calls) + 1]
    BY <1>2, <1>8, DoParts DEF Stack, Pushed
  <1>10. ASSUME NEW i \in 1 .. Len(todo'), NEW call, call = todo'[i],
                call.op = "frames", call.client = c, NEW k \in 1 .. Len(call.frames)
         PROVE  n < call.frames[k].n
    <2>1. CASE i <= Len(calls)
      <3>1. i \in 1 .. Len(calls) /\ calls[i] = call
        BY <1>9, <1>10, <2>1
      <3>2. Fits(calls[i], i, Len(calls))
        BY <1>8, <3>1 DEF Pushed
      <3>3. call.frames = gs
        BY <1>1, <1>2, <1>10, <3>1, <3>2 DEF Fits, Base
      <3> QED
        BY <1>5, <1>10, <3>3
    <2>2. CASE ~(i <= Len(calls))
      <3>1. PICK j : j = i - Len(calls) + 1
        OBVIOUS
      <3>2. j \in 1 .. Len(todo) /\ j # 1 /\ todo[j] = call
        BY <1>9, <1>10, <2>2, <3>1
      <3> QED
        BY <1>3, <1>10, <3>2
    <2> QED
      BY <2>1, <2>2
  <1>11. \A i \in 1 .. Len(todo') : todo'[i].op = "frames" /\ todo'[i].client = c =>
            \A k \in 1 .. Len(todo'[i].frames) : n < todo'[i].frames[k].n
    BY <1>10
  <1> QED
    BY <1>5, <1>6, <1>11 DEF Said

(* A step by which nobody hears anything that was said.                    *)
LEMMA TalkThinned ==
    ASSUME Whole, Talk, [Next]_vars, \A c \in Client : Thinned(Heard(c), Heard(c)')
    PROVE  Voices' /\ HeardSaid' /\ Conversation(Hears)'
  <1>0. /\ IInv /\ Kinds /\ Stack /\ RegistryShape
        /\ Numbered /\ FramesOK /\ OneVoice /\ Voices /\ HeardSaid /\ Conversation(Hears)
    BY RegistryShaped DEF Whole, Talk
  <1>1. PICK h, h1 : h = Hears /\ h1 = Hears'
    OBVIOUS
  <1>2. \A c \in Client : h[c] = Heard(c) /\ h1[c] = Heard(c)' /\ Thinned(h[c], h1[c])
    BY <1>1 DEF Hears
  <1>3. Conversation(Hears)'
    <2>1. Conversation(h)
      BY <1>0, <1>1
    <2>2. Conversation(h1)
      BY <1>2, <2>1, ThinnedConversation
    <2> QED
      BY <1>1, <2>2 DEF Conversation
  <1>4. ASSUME NEW m, NEW goals, NEW goals1, goals1 \subseteq goals, NEW begun,
               New(Hears, m, goals, begun)
        PROVE  New(h1, m, goals1, begun)
    <2>1. New(h, m, goals, begun)
      BY <1>1, <1>4
    <2>2. \A c \in Client : Thinned(h[c], h1[c])
      BY <1>2
    <2> QED
      BY ONLY <1>4, <2>1, <2>2, ThinnedNew
  <1>5. ASSUME NEW i \in 1 .. Len(todo'), NEW call, call = todo'[i], Carries(call)
        PROVE  /\ call.m.from \in Client /\ Said(call.m.from, call.m.n)'
               /\ New(h1, call.m, Goals(call)', call.op = "send")
    <2>1. PICK m, who, n : m = call.m /\ who = m.from /\ n = m.n
      OBVIOUS
    <2>2. PICK goals1 : goals1 = Goals(call)'
      OBVIOUS
    <2>3. CASE ~HandleAccept /\ \E j \in 1 .. Len(todo) : todo[j] = call
      <3>1. Voiced(call)
        BY <1>0, <1>5, <2>3 DEF Voices
      <3>2. PICK goals, begun : goals = Goals(call) /\ begun = (call.op = "send")
        OBVIOUS
      <3>3. who \in Client /\ Said(who, n) /\ New(Hears, m, goals, begun)
        BY <2>1, <3>1, <3>2 DEF Voiced
      <3>4. goals1 \subseteq goals
        BY <2>2, <2>3, <3>2, GoalsStep
      <3>5. Said(who, n)'
        BY <1>0, <3>3, SaidStep
      <3>6. New(h1, m, goals1, begun)
        BY <1>4, <3>3, <3>4
      <3> QED
        BY <2>1, <2>2, <3>2, <3>3, <3>5, <3>6
    <2>4. CASE /\ ~HandleAccept /\ todo # <<>> /\ Carries(Call)
               /\ call.m = Call.m /\ call.op = "send"
               /\ Call.op = "send" => call.fds \subseteq Call.fds
      <3>1. 1 \in 1 .. Len(todo) /\ Call = todo[1]
        BY <1>0, <2>4, HeadParts DEF Stack, Call
      <3>2. PICK top : top = Call
        OBVIOUS
      <3>3. Voiced(top) /\ top.m = m /\ top.op \in {"send", "cast"}
        BY <1>0, <2>1, <2>4, <3>1, <3>2 DEF Voices, Carries
      <3>4. PICK goals : goals = Goals(top)
        OBVIOUS
      <3>5. who \in Client /\ Said(who, n) /\ New(Hears, m, goals, top.op = "send")
        BY <2>1, <3>3, <3>4 DEF Voiced
      <3>6. Said(who, n)'
        BY <1>0, <3>5, SaidStep
      <3>7. New(h1, m, goals1, TRUE)
        <4>1. CASE top.op = "send"
          <5>1. goals1 \subseteq goals
            BY <2>2, <2>4, <3>2, <3>4, <4>1, GoalsStep
          <5>2. New(Hears, m, goals, TRUE)
            BY <3>5, <4>1
          <5> QED
            BY <1>4, <5>1, <5>2
        <4>2. CASE top.op # "send"
          <5>1. New(Hears, m, goals, FALSE)
            BY <3>5, <4>2
          <5>2. New(Hears, m, goals1, TRUE)
            BY <5>1 DEF New
          <5> QED
            BY <1>4, <5>2
        <4> QED
          BY <4>1, <4>2
      <3> QED
        BY <2>1, <2>2, <2>4, <3>5, <3>6, <3>7
    <2>5. CASE /\ Calling("frames") /\ Advanced
               /\ call.m.from = Call.client /\ call.m.n = Head(Call.frames).n
      <3>1. PICK begun : begun = (call.op = "send")
        OBVIOUS
      <3>2. who \in Client /\ New(Hears, m, goals1, begun)
        BY <2>1, <2>5, SayingNew
      <3>3. Said(who, n)'
        BY <2>1, <2>5, SayingSaid
      <3>4. New(h1, m, goals1, begun)
        BY <1>4, <3>2
      <3> QED
        BY <2>1, <2>2, <3>1, <3>2, <3>3, <3>4
    <2> QED
      BY <1>0, <1>5, <2>3, <2>4, <2>5, VoiceSource
  <1>6. Voices'
    <2>1. ASSUME NEW i \in 1 .. Len(todo'), Carries(todo'[i])
          PROVE  Voiced(todo[i])'
      <3>1. PICK call : call = todo'[i]
        OBVIOUS
      <3>2. /\ call.m.from \in Client /\ Said(call.m.from, call.m.n)'
            /\ New(h1, call.m, Goals(call)', call.op = "send")
        BY <1>5, <2>1, <3>1
      <3>3. Voiced(call)'
        BY <1>1, <3>2 DEF Voiced
      <3> QED
        BY <3>1, <3>3 DEF Voiced, Said, Goals
    <2> QED
      BY <2>1 DEF Voices, Carries
  <1>7. ASSUME NEW c \in Client, NEW k \in 1 .. Len(Heard(c)'), NEW m, m = Heard(c)'[k], Spoken(m)
        PROVE  m.from \in Client /\ Said(m.from, m.n)'
    <2>1. PICK place : place[k] \in 1 .. Len(Heard(c)) /\ Heard(c)[place[k]] = m
      BY <1>7 DEF Thinned
    <2>2. PICK who, n : who = m.from /\ n = m.n
      OBVIOUS
    <2>3. who \in Client /\ Said(who, n)
      BY <1>0, <1>7, <2>1, <2>2 DEF HeardSaid
    <2>4. Said(who, n)'
      BY <1>0, <2>3, SaidStep
    <2> QED
      BY <2>2, <2>3, <2>4
  <1>8. HeardSaid'
    <2>1. ASSUME NEW c \in Client, NEW k \in 1 .. Len(Heard(c)'), Spoken(Heard(c)'[k])
          PROVE  /\ Heard(c)'[k].from \in Client
                 /\ Said(Heard(c)[k].from, Heard(c)[k].n)'
      <3>1. PICK m : m = Heard(c)'[k]
        OBVIOUS
      <3>2. m.from \in Client /\ Said(m.from, m.n)'
        BY <1>7, <2>1, <3>1
      <3> QED
        BY <3>1, <3>2 DEF Said
    <2> QED
      BY <2>1 DEF HeardSaid
  <1> QED
    BY <1>3, <1>6, <1>8

(* A step by which one client hears what was said.                         *)
LEMMA TalkTold ==
    ASSUME Whole, Talk, [Next]_vars, Calling("send"), Carries(Call),
           NEW fd \in Call.fds \cap DOMAIN conns, SendToFd(fd),
           NEW c \in Client, c = conns[fd].client, Longer(Heard(c), Heard(c)', Call.m),
           \A d \in Client : d # c => Heard(d)' = Heard(d)
    PROVE  Voices' /\ HeardSaid' /\ Conversation(Hears)'
  <1>0. /\ IInv /\ Kinds /\ Stack /\ RegistryShape /\ todo # <<>> /\ Call.op = "send"
        /\ Numbered /\ FramesOK /\ OneVoice /\ Voices /\ HeardSaid /\ Conversation(Hears)
    BY RegistryShaped DEF Whole, Talk, Calling
  <1>1. PICK h, h1 : h = Hears /\ h1 = Hears'
    OBVIOUS
  <1>2. PICK top, m : top = Call /\ m = Call.m
    OBVIOUS
  <1>3. PICK goals : goals = Goals(top)
    OBVIOUS
  <1>4. Told(h, h1, c, m)
    <2>1. h[c] = Heard(c) /\ h1[c] = Heard(c)' /\ \A d \in Client : d # c => h1[d] = h[d]
      BY <1>1 DEF Hears
    <2> QED
      BY <1>2, <2>1 DEF Told
  <1>5. Call = todo[1] /\ 1 \in 1 .. Len(todo)
    BY <1>0, HeadParts DEF Stack, Call
  <1>6. m.from \in Client /\ Said(m.from, m.n) /\ New(h, m, goals, TRUE)
    <2>1. Voiced(top)
      BY <1>0, <1>2, <1>5 DEF Voices
    <2> QED
      BY <1>0, <1>1, <1>2, <1>3, <2>1 DEF Voiced
  <1>7. c \in goals
    BY <1>2, <1>3 DEF Goals
  <1>8. Conversation(Hears)'
    <2>1. Conversation(h)
      BY <1>0, <1>1
    <2>2. Conversation(h1)
      BY <1>4, <1>6, <1>7, <2>1, ToldConversation
    <2> QED
      BY <1>1, <2>2 DEF Conversation
  <1>9. Said(m.from, m.n)'
    <2>1. PICK who, n : who = m.from /\ n = m.n
      OBVIOUS
    <2>2. Said(who, n)'
      BY <1>0, <1>6, <2>1, SaidStep
    <2> QED
      BY <2>1, <2>2
  <1>10. ASSUME NEW i \in 1 .. Len(todo'), NEW call, call = todo'[i], Carries(call)
         PROVE  /\ call.m = m /\ call.op = "send"
                /\ New(h1, m, Goals(call)', TRUE)
    <2>1. PICK calls : Do(calls) /\ Pushed(calls) /\ OthersOnly(calls, fd)
      BY <1>0, SendPushes
    <2>2. /\ Len(calls) \in Nat /\ Len(todo) \in Nat \ {0}
          /\ Len(todo') = Len(calls) + Len(todo) - 1
          /\ \A k \in 1 .. Len(todo') :
                todo'[k] = IF k <= Len(calls) THEN calls[k] ELSE todo[k - Len(calls) + 1]
      BY <1>0, <2>1, DoParts DEF Stack, Pushed
    <2>3. CASE ~(i <= Len(calls))
      <3>1. PICK j : j = i - Len(calls) + 1
        OBVIOUS
      <3>2. j \in 1 .. Len(todo) /\ j # 1 /\ todo[j] = call
        BY <1>10, <2>2, <2>3, <3>1
      <3>3. Carries(todo[j]) /\ Carries(todo[1])
        BY <1>5, <1>10, <3>2
      <3> QED
        BY <1>0, <1>5, <3>2, <3>3 DEF OneVoice
    <2>4. CASE i <= Len(calls)
      <3>1. i \in 1 .. Len(calls) /\ calls[i] = call
        BY <1>10, <2>2, <2>4
      <3>2. Fits(calls[i], i, Len(calls))
        BY <2>1, <3>1 DEF Pushed
      <3>3. call.m = m /\ call.op = "send"
        BY <1>0, <1>2, <1>10, <3>1, <3>2 DEF Fits
      <3>4. call.fds \subseteq top.fds \ {fd}
        BY <1>2, <2>1, <3>1, <3>3 DEF OthersOnly
      <3>5. PICK goals1 : goals1 = Goals(call)'
        OBVIOUS
      <3>6. goals1 \subseteq goals \ {c}
        <4>1. conns' = [conns EXCEPT ![fd] = conns'[fd]] /\ conns'[fd].client = c
          <5>1. PICK out : out = Append(conns[fd].out, Call.m)
            OBVIOUS
          <5>2. PICK s, k : Outputs(fd, out, s, k)
            BY <1>0, <5>1, SendOutputs
          <5> QED
            BY <1>0, <5>2 DEF Outputs, IInv, Shape
        <4>2. \A d \in DOMAIN conns' : d \in DOMAIN conns /\ conns'[d].client = conns[d].client
          BY <1>0, <4>1 DEF IInv, Shape
        <4>3. ASSUME NEW d \in call.fds \cap DOMAIN conns'
              PROVE  conns'[d].client \in goals \ {c}
          <5>1. d \in top.fds /\ d # fd /\ d \in DOMAIN conns /\ conns'[d].client = conns[d].client
            BY <3>4, <4>2
          <5>2. conns[d].client # c
            BY <1>0, <5>1 DEF IInv, Owned
          <5> QED
            BY <1>3, <5>1, <5>2 DEF Goals
        <4> QED
          BY <3>5, <4>3 DEF Goals
      <3>7. New(h1, m, goals1, TRUE)
        BY <1>4, <1>6, <1>7, <3>6, ToldNew
      <3> QED
        BY <3>3, <3>5, <3>7
    <2> QED
      BY <2>3, <2>4
  <1>11. Voices'
    <2>1. ASSUME NEW i \in 1 .. Len(todo'), Carries(todo'[i])
          PROVE  Voiced(todo[i])'
      <3>1. PICK call : call = todo'[i]
        OBVIOUS
      <3>2. call.m = m /\ call.op = "send" /\ New(h1, m, Goals(call)', TRUE)
        BY <1>10, <2>1, <3>1
      <3>3. Voiced(call)'
        BY <1>1, <1>6, <1>9, <3>2 DEF Voiced, Said
      <3> QED
        BY <3>1, <3>3 DEF Voiced, Said, Goals
    <2> QED
      BY <2>1 DEF Voices, Carries
  <1>12. ASSUME NEW d \in Client, NEW k \in 1 .. Len(Heard(d)'), NEW said,
                said = Heard(d)'[k], Spoken(said)
         PROVE  said.from \in Client /\ Said(said.from, said.n)'
    <2>1. CASE said = m
      BY <1>6, <1>9, <2>1
    <2>2. CASE k \in 1 .. Len(Heard(d)) /\ Heard(d)[k] = said
      <3>1. PICK who, n : who = said.from /\ n = said.n
        OBVIOUS
      <3>2. who \in Client /\ Said(who, n)
        BY <1>0, <1>12, <2>2, <3>1 DEF HeardSaid
      <3>3. Said(who, n)'
        BY <1>0, <3>2, SaidStep
      <3> QED
        BY <3>1, <3>2, <3>3
    <2>3. said = m \/ (k \in 1 .. Len(Heard(d)) /\ Heard(d)[k] = said)
      <3>1. CASE d # c
        BY <1>12, <3>1
      <3>2. CASE d = c
        BY <1>2, <1>12, <3>2 DEF Longer
      <3> QED
        BY <3>1, <3>2
    <2> QED
      BY <2>1, <2>2, <2>3
  <1>13. HeardSaid'
    <2>1. ASSUME NEW d \in Client, NEW k \in 1 .. Len(Heard(d)'), Spoken(Heard(d)'[k])
          PROVE  /\ Heard(d)'[k].from \in Client
                 /\ Said(Heard(d)[k].from, Heard(d)[k].n)'
      <3>1. PICK said : said = Heard(d)'[k]
        OBVIOUS
      <3>2. said.from \in Client /\ Said(said.from, said.n)'
        BY <1>12, <2>1, <3>1
      <3> QED
        BY <3>1, <3>2 DEF Said
    <2> QED
      BY <2>1 DEF HeardSaid
  <1> QED
    BY <1>8, <1>11, <1>13

LEMMA TalkStep ==
    ASSUME Whole, Whole', Talk, [Next]_vars
    PROVE  Talk'
  <1>1. Kinds /\ Numbered /\ FramesOK /\ OneVoice
    BY DEF Whole, Talk
  <1>2. Numbered'
    BY <1>1, Arrivals, NumberedStep
  <1>3. FramesOK' /\ OneVoice'
    BY <1>1, FramesStep, OneVoiceStep
  <1>4. Voices' /\ HeardSaid' /\ Conversation(Hears)'
    <2>1. CASE \A c \in Client : Thinned(Heard(c), Heard(c)')
      BY <2>1, TalkThinned
    <2>2. CASE ~\A c \in Client : Thinned(Heard(c), Heard(c)')
      <3>1. Calling("send") /\ \E fd \in Call.fds \cap DOMAIN conns :
              /\ SendToFd(fd)
              /\ \E c \in Client : /\ c = conns[fd].client
                                   /\ Longer(Heard(c), Heard(c)', Call.m)
                                   /\ \A d \in Client : d # c => Heard(d)' = Heard(d)
        BY <2>2, HearsStep
      <3>2. PICK fd \in Call.fds \cap DOMAIN conns :
              /\ SendToFd(fd)
              /\ \E c \in Client : /\ c = conns[fd].client
                                   /\ Longer(Heard(c), Heard(c)', Call.m)
                                   /\ \A d \in Client : d # c => Heard(d)' = Heard(d)
        BY <3>1
      <3>3. PICK c \in Client : /\ c = conns[fd].client
                                /\ Longer(Heard(c), Heard(c)', Call.m)
                                /\ \A d \in Client : d # c => Heard(d)' = Heard(d)
        BY <3>2
      <3>4. Carries(Call)
        <4>1. CASE ~Spoken(Call.m)
          <5>1. \A d \in Client : Thinned(Heard(d), Heard(d)')
            BY <3>3, <4>1, ThinnedSame, ThinnedLonger
          <5> QED
            BY <2>2, <5>1
        <4> QED
          BY <3>1, <4>1 DEF Carries, Calling
      <3> QED
        BY <3>1, <3>2, <3>3, <3>4, TalkTold
    <2> QED
      BY <2>1, <2>2
  <1> QED
    BY <1>2, <1>3, <1>4 DEF Talk

LEMMA TalkInit == Init => Talk
  <1> SUFFICES ASSUME Init
               PROVE  Talk
    OBVIOUS
  <1>1. todo = <<>> /\ DOMAIN conns = {}
    BY DEF Init
  <1>2. \A c \in Client : /\ got[c] = <<>> /\ sock[c].tx = <<>>
                          /\ sock[c].rx = <<>> /\ sock[c].sent = 0
    BY DEF Init
  <1>3. \A i : i \notin 1 .. Len(todo)
    BY <1>1
  <1>4. ASSUME NEW c \in Client
        PROVE  Heard(c) = <<>>
    <2>1. Waiting(conns, c) = <<>>
      BY <1>1, WaitingNone
    <2>2. Heard(c) = (got[c] \o sock[c].tx) \o Waiting(conns, c)
      BY HeardIs
    <2>3. got[c] = <<>> /\ sock[c].tx = <<>>
      BY <1>2
    <2>4. <<>> \o <<>> = <<>>
      BY EmptySeq, ConcatEmptySeq
    <2>5. Heard(c) = (<<>> \o <<>>) \o <<>>
      BY <2>1, <2>2, <2>3
    <2> QED
      BY <2>4, <2>5
  <1>5. Numbered
    BY <1>2 DEF Numbered, ReadSoFar
  <1>6. FramesOK /\ OneVoice /\ Voices
    BY <1>3 DEF FramesOK, OneVoice, Voices
  <1>7. HeardSaid
    BY <1>4 DEF HeardSaid
  <1>8. Conversation(Hears)
    BY <1>4 DEF Conversation, Hears
  <1> QED
    BY <1>5, <1>6, <1>7, <1>8 DEF Talk

LEMMA TalkHolds == Spec => [](Whole /\ Talk)
  <1>1. Init => Whole /\ Talk
    BY WholeInit, TalkInit
  <1>2. Whole /\ Talk /\ [Next]_vars => (Whole /\ Talk)'
    BY WholeStep, TalkStep
  <1> QED
    BY <1>1, <1>2, PTL DEF Spec

(* The clients of the server hear one conversation: no chat or private     *)
(* message reaches a client twice, each sender's arrive in the order in    *)
(* which it sent them, and two clients that hear the same two messages     *)
(* hear them in the same order, through full send buffers, partial         *)
(* flushes, closes in the middle of a broadcast, and stop().               *)
THEOREM AllHearOneConversation == Spec => []OneConversation
  <1>1. Whole /\ Talk => OneConversation
    <2> SUFFICES ASSUME Whole, Talk
                 PROVE  OneConversation
      OBVIOUS
    <2>1. \A c \in Client : ASeq(Heard(c)) /\ Hears[c] = Heard(c)
      BY HeardSequence DEF Whole, Hears
    <2>2. \A c \in Client : DOMAIN Heard(c) = 1 .. Len(Heard(c))
      BY <2>1 DEF ASeq
    <2>3. ASSUME NEW c \in Client, NEW d \in Client,
                 NEW i \in DOMAIN Heard(c), NEW j \in DOMAIN Heard(c),
                 i < j, Spoken(Heard(c)[i]), Spoken(Heard(c)[j])
          PROVE  /\ Heard(c)[i] # Heard(c)[j]
                 /\ Heard(c)[i].from = Heard(c)[j].from => Heard(c)[i].n < Heard(c)[j].n
                 /\ \A k, l \in DOMAIN Heard(d) :
                       Heard(d)[k] = Heard(c)[i] /\ Heard(d)[l] = Heard(c)[j] => k < l
      <3>1. Conversation(Hears)
        BY DEF Talk
      <3> QED
        BY <2>1, <2>2, <2>3, <3>1 DEF Conversation
    <2> QED
      BY <2>3 DEF OneConversation
  <1> QED
    BY <1>1, TalkHolds, PTL
=============================================================================
