---------------------------- MODULE ClassicProofs ----------------------------
(***************************************************************************)
(* The thread-per-client server, for any number of connections,            *)
(* descriptors and threads, and every interleaving of them.                *)
(*                                                                         *)
(* Descriptors: only the listener, handle_disconnect, stop() and the end   *)
(* of the process touch the tables; the other steps leave them alone.      *)
(***************************************************************************)
EXTENDS Classic, SequenceTheorems, TLAPS

(* The listener holds one accepted connection at a time.                   *)
OneInHand == \A a, b \in hand : a = b

IInv == DescriptorsOwned /\ OneInHand

SameTables == UNCHANGED <<file, clients, hand>>

(* The steps that leave both tables as they are.                           *)
LEMMA OtherSteps ==
    ASSUME Next,
           ~Accept, ~StartWorker, ~StopClients, ~Terminate, \A t \in Thread : ~CloseFd(t)
    PROVE  SameTables
  <1> USE DEF SameTables, table, kernel
  <1>1. ASSUME NEW t \in Thread, ThreadStep(t) PROVE SameTables
    <2>1. CASE BeginRecv(t) \/ EndRecv(t)
      BY <2>1 DEF BeginRecv, EndRecv
    <2>2. CASE ProcessClientMessage(t)
      BY <2>2 DEF ProcessClientMessage
    <2>3. CASE LookUp(t) \/ BeginSend(t) \/ EndSend(t) \/ Broadcast(t)
      BY <2>3 DEF LookUp, BeginSend, EndSend, Broadcast
    <2>4. CASE HandleDisconnect(t) \/ AskRoom(t) \/ UnregisterUser(t)
      BY <2>4 DEF HandleDisconnect, AskRoom, UnregisterUser
    <2> QED
      BY <1>1, <2>1, <2>2, <2>3, <2>4 DEF ThreadStep
  <1>2. CASE Scan \/ ReapNext \/ MainEnds
    BY <1>2 DEF Scan, ReapNext, MainEnds, Stop
  <1>3. CASE Outside
    BY <1>3 DEF Outside, Connect, ClientSend, ClientRead, HangUp, Silence, AcceptFails,
                   Signal, Stop
  <1> QED
    BY <1>1, <1>2, <1>3 DEF Next, Onward

(* A free descriptor is taken into the listener's hand.                    *)
LEMMA AcceptStep == IInv /\ Accept => IInv'
  <1> SUFFICES ASSUME IInv, Accept PROVE IInv'
    OBVIOUS
  <1>1. PICK fd \in FreeFds : file' = With(file, fd, Head(backlog)) /\ hand' = {fd}
    BY DEF Accept
  <1>2. hand = {} /\ clients' = clients
    BY DEF Accept
  <1>3. /\ DOMAIN file' = DOMAIN file \cup {fd}
        /\ \A d \in DOMAIN file : d # fd /\ file'[d] = file[d]
    BY <1>1 DEF With, FreeFds
  <1> QED
    BY <1>1, <1>2, <1>3 DEF IInv, DescriptorsOwned, OneInHand

(* What is in hand goes into clients_ under the connection it stands for.  *)
LEMMA StartWorkerStep == IInv /\ StartWorker => IInv'
  <1> SUFFICES ASSUME IInv, StartWorker PROVE IInv'
    OBVIOUS
  <1>1. PICK fd \in hand : /\ clients' = With(clients, fd, file[fd])
                           /\ hand' = {} /\ file' = file
    BY DEF StartWorker
  <1>2. hand = {fd} /\ fd \notin DOMAIN clients
    BY <1>1 DEF IInv, DescriptorsOwned, OneInHand
  <1>3. /\ DOMAIN clients' = DOMAIN clients \cup {fd}
        /\ clients'[fd] = file[fd]
        /\ \A d \in DOMAIN clients : clients'[d] = clients[d]
    BY <1>1, <1>2 DEF With
  <1> QED
    BY <1>1, <1>2, <1>3 DEF IInv, DescriptorsOwned, OneInHand

(* A descriptor that clients_ has goes from both tables, any other stays.  *)
LEMMA CloseStep ==
    ASSUME IInv, NEW t \in Thread, CloseFd(t)
    PROVE  IInv'
  <1> DEFINE fd == Call(t).fd
  <1>1. CASE fd \in DOMAIN clients
    <2>1. file' = Without(file, fd) /\ clients' = Without(clients, fd) /\ hand' = hand
      BY <1>1 DEF CloseFd
    <2>2. /\ DOMAIN file' = DOMAIN file \ {fd} /\ DOMAIN clients' = DOMAIN clients \ {fd}
          /\ \A d \in DOMAIN file \ {fd} : file'[d] = file[d]
          /\ \A d \in DOMAIN clients \ {fd} : clients'[d] = clients[d]
      BY <2>1 DEF Without
    <2> QED
      BY <1>1, <2>1, <2>2 DEF IInv, DescriptorsOwned, OneInHand
  <1>2. CASE fd \notin DOMAIN clients
    <2>1. UNCHANGED <<file, clients, hand>>
      BY <1>2 DEF CloseFd
    <2> QED
      BY <2>1 DEF IInv, DescriptorsOwned, OneInHand
  <1> QED
    BY <1>1, <1>2

(* stop() leaves what the listener has in hand, and nothing else.          *)
LEMMA StopStep == IInv /\ StopClients => IInv'
  <1> SUFFICES ASSUME IInv, StopClients PROVE IInv'
    OBVIOUS
  <1>1. /\ file' = [fd \in DOMAIN file \ DOMAIN clients |-> file[fd]]
        /\ clients' = [fd \in {} |-> fd]
        /\ hand' = hand
    BY DEF StopClients
  <1>2. DOMAIN clients' = {} /\ DOMAIN file' = DOMAIN file \ DOMAIN clients
    BY <1>1
  <1>3. DOMAIN file' = hand
    BY <1>2 DEF IInv, DescriptorsOwned
  <1> QED
    BY <1>1, <1>2, <1>3 DEF IInv, DescriptorsOwned, OneInHand

(* With the process all descriptors are gone.                              *)
LEMMA TerminateStep == IInv /\ Terminate => IInv'
  <1> SUFFICES ASSUME IInv, Terminate PROVE IInv'
    OBVIOUS
  <1>1. DOMAIN file' = {} /\ DOMAIN clients' = {} /\ hand' = {}
    BY DEF Terminate, Nothing
  <1> QED
    BY <1>1 DEF IInv, DescriptorsOwned, OneInHand

(* It holds at the start.                                                  *)
LEMMA IInvInit == Init => IInv
  <1> SUFFICES ASSUME Init PROVE IInv
    OBVIOUS
  <1>1. DOMAIN file = {} /\ DOMAIN clients = {} /\ hand = {}
    BY DEF Init
  <1> QED
    BY <1>1 DEF IInv, DescriptorsOwned, OneInHand

(* Every step keeps it.                                                    *)
LEMMA IInvKept == IInv /\ Next => IInv'
  <1> SUFFICES ASSUME IInv, Next PROVE IInv'
    OBVIOUS
  <1>1. ASSUME SameTables PROVE IInv'
    BY <1>1 DEF SameTables, IInv, DescriptorsOwned, OneInHand
  <1> QED
    BY <1>1, AcceptStep, StartWorkerStep, StopStep, TerminateStep, CloseStep, OtherSteps

(* Every open descriptor is in clients_ under its own context, or in the   *)
(* listener's hand: none leaks, none is closed twice, and no context       *)
(* outlives its file, however threads interleave (classic_server.cpp       *)
(* 100-128, 367-385, 69-76).                                               *)
THEOREM DescriptorsNeverLeak == Spec => []DescriptorsOwned
  <1>1. IInv /\ [Next]_vars => IInv'
    <2>1. IInv /\ UNCHANGED vars => IInv'
      BY DEF vars, table, IInv, DescriptorsOwned, OneInHand
    <2> QED
      BY <2>1, IInvKept
  <1>2. IInv => DescriptorsOwned
    BY DEF IInv
  <1> QED
    BY IInvInit, <1>1, <1>2, PTL DEF Spec

------------------------------------------------------------------------------
(* Users.  Who is registered under a descriptor has a worker whose stack   *)
(* still holds the end of its connection.                                  *)

(* A call that leads to the unregistration of fd by its worker.            *)
Keeps(call, fd) ==
    \/ call.op \in {"loop", "recv"}
    \/ call.op \in {"disconnect", "leave", "unregister"} /\ call.fd = fd

Committed(s, fd) == \E i \in 1 .. Len(s) : Keeps(s[i], fd)

(* A worker handles frames inside its loop, to which it comes back.        *)
FramesThenLoop(s) ==
    \A i \in 1 .. Len(s) :
        s[i].op = "frames" => \E j \in i + 1 .. Len(s) : s[j].op = "loop"

WorkerOps == {"loop", "recv", "frames"}

StartedOnly(t) ==
    \A i \in 1 .. Len(todo[t]) : todo[t][i].op \in WorkerOps => t \in DOMAIN fdOf

Served ==
    \A fd \in DOMAIN usersById :
        \E c \in DOMAIN fdOf : c \in Thread /\ fdOf[c] = fd /\ Committed(todo[c], fd)

ASeq(s) == \E S : s \in Seq(S)

Stacks ==
    /\ todo = [t \in Thread |-> todo[t]]
    /\ \A t \in Thread : ASeq(todo[t]) /\ StartedOnly(t) /\ FramesThenLoop(todo[t])
    /\ Served

(* Calls none of which is one of ops.                                      *)
Plain(calls, ops) ==
    ASeq(calls) /\ \A i \in 1 .. Len(calls) : calls[i].op \notin ops

(* No calls are plain ones.                                                *)
LEMMA PlainNone ==
    ASSUME NEW ops
    PROVE  Plain(<<>>, ops)
  <1>1. <<>> \in Seq({})
    OBVIOUS
  <1> QED
    BY <1>1 DEF Plain, ASeq

(* So is one call, when it is not one of them.                             *)
LEMMA PlainOne ==
    ASSUME NEW ops, NEW a, a.op \notin ops
    PROVE  Plain(<<a>>, ops)
  <1>1. <<a>> \in Seq({a}) /\ Len(<<a>>) = 1 /\ <<a>>[1] = a
    OBVIOUS
  <1>2. ASSUME NEW i \in 1 .. Len(<<a>>) PROVE <<a>>[i].op \notin ops
    <2>1. i = 1
      BY <1>1
    <2> QED
      BY <1>1, <2>1
  <1> QED
    BY <1>1, <1>2 DEF Plain, ASeq

(* Two sequences have a set of elements in common.                         *)
LEMMA CommonSet ==
    ASSUME NEW a, NEW b, ASeq(a), ASeq(b)
    PROVE  \E S : a \in Seq(S) /\ b \in Seq(S)
  <1>1. PICK A : a \in Seq(A)
    BY DEF ASeq
  <1>2. PICK B : b \in Seq(B)
    BY DEF ASeq
  <1>3. a \in Seq(A \cup B)
    BY <1>1
  <1>4. b \in Seq(A \cup B)
    BY <1>2
  <1> QED
    BY <1>3, <1>4

(* So are two pieces together.                                             *)
LEMMA PlainConcat ==
    ASSUME NEW ops, NEW a, NEW b, Plain(a, ops), Plain(b, ops)
    PROVE  Plain(a \o b, ops)
  <1>1. PICK S : a \in Seq(S) /\ b \in Seq(S)
    BY CommonSet DEF Plain
  <1>2. /\ a \o b \in Seq(S)
        /\ Len(a \o b) = Len(a) + Len(b)
        /\ \A i \in 1 .. Len(a) + Len(b) : (a \o b)[i] =
              IF i <= Len(a) THEN a[i] ELSE b[i - Len(a)]
    BY <1>1, ConcatProperties
  <1>3. Len(a) \in Nat /\ Len(b) \in Nat
    BY <1>1, LenProperties
  <1>4. ASSUME NEW i \in 1 .. Len(a \o b) PROVE (a \o b)[i].op \notin ops
    <2>1. i \in 1 .. Len(a) + Len(b)
      BY <1>2
    <2>2. CASE i <= Len(a)
      <3>1. (a \o b)[i] = a[i] /\ i \in 1 .. Len(a)
        BY <1>2, <1>3, <2>1, <2>2
      <3> QED
        BY <3>1 DEF Plain
    <2>3. CASE ~(i <= Len(a))
      <3>1. (a \o b)[i] = b[i - Len(a)] /\ i - Len(a) \in 1 .. Len(b)
        BY <1>2, <1>3, <2>1, <2>3
      <3> QED
        BY <3>1 DEF Plain
    <2> QED
      BY <2>2, <2>3
  <1>5. ASeq(a \o b)
    BY <1>2 DEF ASeq
  <1> QED
    BY <1>4, <1>5 DEF Plain

(* A stack whose head has been replaced by calls.                          *)
LEMMA Replaced ==
    ASSUME NEW s, NEW calls, ASeq(s), ASeq(calls), s # <<>>,
           NEW new, new = calls \o Tail(s)
    PROVE  /\ ASeq(new) /\ Len(s) \in Nat /\ Len(calls) \in Nat /\ Len(s) >= 1
           /\ Len(new) = Len(calls) + Len(s) - 1
           /\ \A i \in 1 .. Len(calls) : i \in 1 .. Len(new) /\ new[i] = calls[i]
           /\ \A i \in 2 .. Len(s) : /\ Len(calls) + i - 1 \in 1 .. Len(new)
                                     /\ new[Len(calls) + i - 1] = s[i]
           /\ \A k \in 1 .. Len(new) :
                 \/ k \in 1 .. Len(calls)
                 \/ k - Len(calls) + 1 \in 2 .. Len(s)
  <1>1. PICK S : s \in Seq(S) /\ calls \in Seq(S)
    BY CommonSet
  <1> DEFINE t == Tail(s)
  <1>2. /\ t \in Seq(S) /\ Len(t) = Len(s) - 1
        /\ \A i \in 1 .. Len(t) : t[i] = s[i + 1]
    BY <1>1, HeadTailProperties
  <1>3. Len(s) \in Nat /\ Len(calls) \in Nat /\ Len(s) >= 1
    <2>1. Len(s) \in Nat /\ Len(s) # 0 /\ Len(calls) \in Nat
      BY <1>1, LenProperties, EmptySeq
    <2> QED
      BY <2>1
  <1> HIDE DEF t
  <1>4. /\ new \in Seq(S)
        /\ Len(new) = Len(calls) + Len(t)
        /\ \A i \in 1 .. Len(calls) + Len(t) : new[i] =
              IF i <= Len(calls) THEN calls[i] ELSE t[i - Len(calls)]
    <2>1. new = calls \o t
      BY DEF t
    <2>2. calls \in Seq(S) /\ t \in Seq(S)
      BY <1>1, <1>2
    <2>3. /\ calls \o t \in Seq(S)
          /\ Len(calls \o t) = Len(calls) + Len(t)
          /\ \A i \in 1 .. Len(calls) + Len(t) : (calls \o t)[i] =
                IF i <= Len(calls) THEN calls[i] ELSE t[i - Len(calls)]
      BY <2>2, ConcatProperties
    <2> QED
      BY <2>1, <2>3
  <1>5. \A i \in 1 .. Len(calls) : i \in 1 .. Len(new) /\ new[i] = calls[i]
    BY <1>2, <1>3, <1>4
  <1>6. ASSUME NEW i \in 2 .. Len(s)
        PROVE  /\ Len(calls) + i - 1 \in 1 .. Len(new)
               /\ new[Len(calls) + i - 1] = s[i]
    <2>1. /\ Len(calls) + i - 1 \in 1 .. Len(calls) + Len(t)
          /\ ~(Len(calls) + i - 1 <= Len(calls))
          /\ (Len(calls) + i - 1) - Len(calls) = i - 1
          /\ i - 1 \in 1 .. Len(t) /\ (i - 1) + 1 = i
      BY <1>2, <1>3
    <2> QED
      BY <1>2, <1>4, <2>1
  <1>7. ASeq(new)
    BY <1>4 DEF ASeq
  <1>8. \A k \in 1 .. Len(new) :
           k \in 1 .. Len(calls) \/ k - Len(calls) + 1 \in 2 .. Len(s)
    BY <1>2, <1>3, <1>4
  <1> QED
    BY <1>2, <1>3, <1>4, <1>5, <1>6, <1>7, <1>8

(* The head of a stack is replaced: what the stack promised is promised by *)
(* the rest of it, by the new calls, or was promised by the head.          *)
LEMMA ReplacedKeeps ==
    ASSUME NEW s, NEW calls, ASeq(s), ASeq(calls), s # <<>>,
           NEW new, new = calls \o Tail(s), NEW fd,
           Committed(s, fd), Keeps(s[1], fd) => Committed(calls, fd)
    PROVE  Committed(new, fd)
  <1>1. CASE Committed(calls, fd)
    <2>1. PICK i \in 1 .. Len(calls) : Keeps(calls[i], fd)
      BY <1>1 DEF Committed
    <2>2. i \in 1 .. Len(new) /\ new[i] = calls[i]
      BY <2>1, Replaced
    <2> QED
      BY <2>1, <2>2 DEF Committed
  <1>2. CASE ~Committed(calls, fd)
    <2>1. PICK i \in 1 .. Len(s) : Keeps(s[i], fd)
      BY DEF Committed
    <2>2. i # 1
      BY <1>2, <2>1
    <2>3. Len(s) \in Nat /\ i \in 2 .. Len(s)
      <3>1. Len(s) \in Nat
        BY Replaced
      <3> QED
        BY <2>1, <2>2, <3>1
    <2>4. Len(calls) + i - 1 \in 1 .. Len(new) /\ new[Len(calls) + i - 1] = s[i]
      BY <2>3, Replaced
    <2> QED
      BY <2>1, <2>4 DEF Committed
  <1> QED
    BY <1>1, <1>2

(* Frames among the new calls have a loop after them, among the calls or   *)
(* in the rest of the stack, where the frames at its head had it.          *)
LEMMA ReplacedFrames ==
    ASSUME NEW s, NEW calls, ASeq(s), ASeq(calls), s # <<>>,
           NEW new, new = calls \o Tail(s),
           FramesThenLoop(s), s[1].op = "frames" \/ FramesThenLoop(calls)
    PROVE  FramesThenLoop(new)
  <1>1. /\ Len(s) \in Nat /\ Len(calls) \in Nat /\ Len(s) >= 1
        /\ Len(new) = Len(calls) + Len(s) - 1
        /\ \A i \in 1 .. Len(calls) : i \in 1 .. Len(new) /\ new[i] = calls[i]
        /\ \A i \in 2 .. Len(s) : /\ Len(calls) + i - 1 \in 1 .. Len(new)
                                  /\ new[Len(calls) + i - 1] = s[i]
        /\ \A k \in 1 .. Len(new) :
              k \in 1 .. Len(calls) \/ k - Len(calls) + 1 \in 2 .. Len(s)
    BY Replaced
  <1> SUFFICES ASSUME NEW k \in 1 .. Len(new), new[k].op = "frames"
               PROVE  \E j \in k + 1 .. Len(new) : new[j].op = "loop"
    BY DEF FramesThenLoop
  <1>2. ASSUME NEW i \in 1 .. Len(s), NEW j \in i + 1 .. Len(s), s[j].op = "loop"
        PROVE  /\ Len(calls) + j - 1 \in Len(calls) + i .. Len(new)
               /\ new[Len(calls) + j - 1].op = "loop"
    <2>1. j \in 2 .. Len(s)
      BY <1>1
    <2>2. new[Len(calls) + j - 1] = s[j]
      BY <1>1, <2>1
    <2> QED
      BY <1>1, <1>2, <2>2
  <1>3. CASE k \in 1 .. Len(calls) /\ s[1].op = "frames"
    <2>1. PICK j \in 1 + 1 .. Len(s) : s[j].op = "loop"
      <3>1. 1 \in 1 .. Len(s)
        BY <1>1
      <3> QED
        BY <1>3, <3>1 DEF FramesThenLoop
    <2>2. /\ Len(calls) + j - 1 \in Len(calls) + 1 .. Len(new)
          /\ new[Len(calls) + j - 1].op = "loop"
      <3>1. 1 \in 1 .. Len(s)
        BY <1>1
      <3> QED
        BY <1>2, <2>1, <3>1
    <2>3. Len(calls) + j - 1 \in k + 1 .. Len(new)
      BY <1>1, <1>3, <2>2
    <2> QED
      BY <2>2, <2>3
  <1>4. CASE k \in 1 .. Len(calls) /\ FramesThenLoop(calls)
    <2>1. calls[k].op = "frames"
      BY <1>1, <1>4
    <2>2. PICK j \in k + 1 .. Len(calls) : calls[j].op = "loop"
      BY <1>4, <2>1 DEF FramesThenLoop
    <2>3. j \in 1 .. Len(calls)
      BY <1>1, <1>4, <2>2
    <2>4. j \in 1 .. Len(new) /\ new[j] = calls[j]
      BY <1>1, <2>3
    <2>5. j \in k + 1 .. Len(new)
      BY <1>1, <1>4, <2>2, <2>4
    <2> QED
      BY <2>2, <2>4, <2>5
  <1>5. CASE k - Len(calls) + 1 \in 2 .. Len(s)
    <2> DEFINE i == k - Len(calls) + 1
    <2>1. Len(calls) + i - 1 = k /\ i \in 2 .. Len(s) /\ i \in 1 .. Len(s)
      BY <1>1, <1>5
    <2> HIDE DEF i
    <2>2. s[i].op = "frames"
      BY <1>1, <2>1
    <2>3. PICK j \in i + 1 .. Len(s) : s[j].op = "loop"
      BY <2>1, <2>2 DEF FramesThenLoop
    <2>4. /\ Len(calls) + j - 1 \in Len(calls) + i .. Len(new)
          /\ new[Len(calls) + j - 1].op = "loop"
      BY <1>2, <2>1, <2>3
    <2>5. Len(calls) + i = k + 1
      BY <1>1, <2>1
    <2> QED
      BY <2>4, <2>5
  <1> QED
    BY <1>1, <1>3, <1>4, <1>5

(* What a step of a thread must do to keep the stacks: replace its head by *)
(* calls that do no more than the head allowed.                            *)
LEMMA StacksKept ==
    ASSUME Stacks, NEW t \in Thread, NEW calls, ASeq(calls), todo[t] # <<>>,
           todo' = [todo EXCEPT ![t] = calls \o Tail(@)], fdOf' = fdOf,
           Plain(calls, WorkerOps) \/ Call(t).op \in WorkerOps,
           Call(t).op = "frames" \/ FramesThenLoop(calls),
           \A fd \in DOMAIN usersById' :
               fd \in DOMAIN usersById \/ (Call(t).op = "frames" /\ fd = fdOf[t]),
           \A fd \in DOMAIN usersById' :
               Keeps(Call(t), fd) /\ fd = fdOf[t] /\ t \in DOMAIN fdOf => Committed(calls, fd)
    PROVE  Stacks'
  <1> DEFINE s == todo[t]
             new == calls \o Tail(s)
  <1>1. /\ DOMAIN todo = Thread /\ todo' = [x \in Thread |-> todo'[x]]
        /\ todo'[t] = new /\ \A x \in Thread \ {t} : todo'[x] = todo[x]
    BY DEF Stacks
  <1>2. ASeq(s) /\ StartedOnly(t) /\ FramesThenLoop(s) /\ s # <<>>
    BY DEF Stacks
  <1>3. Call(t) = s[1]
    BY DEF Call
  <1> HIDE DEF s
  <1>4. /\ ASeq(new) /\ Len(s) \in Nat /\ Len(calls) \in Nat /\ Len(s) >= 1
        /\ Len(new) = Len(calls) + Len(s) - 1
        /\ \A i \in 1 .. Len(calls) : i \in 1 .. Len(new) /\ new[i] = calls[i]
        /\ \A i \in 2 .. Len(s) : /\ Len(calls) + i - 1 \in 1 .. Len(new)
                                  /\ new[Len(calls) + i - 1] = s[i]
        /\ \A k \in 1 .. Len(new) :
              k \in 1 .. Len(calls) \/ k - Len(calls) + 1 \in 2 .. Len(s)
    BY <1>2, Replaced
  <1>5. FramesThenLoop(new)
    BY <1>2, <1>3, ReplacedFrames
  <1> HIDE DEF new
  <1>6. ASSUME NEW k \in 1 .. Len(new), new[k].op \in WorkerOps
        PROVE  t \in DOMAIN fdOf
    <2>1. \A i \in 1 .. Len(s) : s[i].op \in WorkerOps => t \in DOMAIN fdOf
      BY <1>2 DEF StartedOnly, s
    <2>2. CASE k \in 1 .. Len(calls)
      <3>1. calls[k].op \in WorkerOps
        BY <1>4, <1>6, <2>2
      <3>2. s[1].op \in WorkerOps
        BY <1>3, <2>2, <3>1 DEF Plain
      <3> QED
        BY <1>4, <2>1, <3>2
    <2>3. CASE k - Len(calls) + 1 \in 2 .. Len(s)
      <3> DEFINE i == k - Len(calls) + 1
      <3>1. Len(calls) + i - 1 = k /\ i \in 2 .. Len(s) /\ i \in 1 .. Len(s)
        BY <1>4, <2>3
      <3> HIDE DEF i
      <3>2. s[i].op \in WorkerOps
        BY <1>4, <1>6, <3>1
      <3> QED
        BY <2>1, <3>1, <3>2
    <2> QED
      BY <1>4, <2>2, <2>3
  <1>7. ASSUME NEW x \in Thread
        PROVE  ASeq(todo'[x]) /\ StartedOnly(x)' /\ FramesThenLoop(todo'[x])
    <2>1. CASE x = t
      BY <1>1, <1>4, <1>5, <1>6, <2>1 DEF StartedOnly
    <2>2. CASE x # t
      <3>1. todo'[x] = todo[x]
        BY <1>1, <2>2
      <3> QED
        BY <3>1 DEF Stacks, StartedOnly
    <2> QED
      BY <2>1, <2>2
  <1>8. ASSUME NEW fd \in DOMAIN usersById'
        PROVE  \E c \in DOMAIN fdOf' : c \in Thread /\ fdOf'[c] = fd /\ Committed(todo'[c], fd)
    <2>1. CASE Call(t).op = "frames" /\ fd = fdOf[t]
      <3>1. PICK j \in 1 + 1 .. Len(s) : s[j].op = "loop"
        <4>1. 1 \in 1 .. Len(s)
          BY <1>4
        <4> QED
          BY <1>2, <1>3, <2>1, <4>1 DEF FramesThenLoop
      <3>2. t \in DOMAIN fdOf
        <4>1. 1 \in 1 .. Len(s) /\ s[1].op \in WorkerOps
          BY <1>3, <1>4, <2>1 DEF WorkerOps
        <4> QED
          BY <1>2, <4>1 DEF StartedOnly, s
      <3>3. Len(calls) + j - 1 \in 1 .. Len(new) /\ new[Len(calls) + j - 1].op = "loop"
        BY <1>4, <3>1
      <3>4. Committed(todo'[t], fd)
        BY <1>1, <3>3 DEF Committed, Keeps
      <3> QED
        BY <2>1, <3>2, <3>4
    <2>2. CASE ~(Call(t).op = "frames" /\ fd = fdOf[t])
      <3>1. fd \in DOMAIN usersById
        BY <2>2
      <3>2. PICK c \in DOMAIN fdOf : c \in Thread /\ fdOf[c] = fd /\ Committed(todo[c], fd)
        BY <3>1 DEF Stacks, Served
      <3>3. CASE c = t
        <4>1. Keeps(s[1], fd) => Committed(calls, fd)
          BY <1>3, <3>2, <3>3
        <4>2. Committed(s, fd)
          BY <3>2, <3>3 DEF s
        <4>3. Committed(new, fd)
          BY <1>2, <4>1, <4>2, ReplacedKeeps DEF new
        <4> QED
          BY <1>1, <3>2, <3>3, <4>3
      <3>4. CASE c # t
        BY <1>1, <3>2, <3>4
      <3> QED
        BY <3>3, <3>4
    <2> QED
      BY <2>1, <2>2
  <1>9. Served'
    BY <1>8 DEF Served
  <1> QED
    BY <1>1, <1>7, <1>9 DEF Stacks

(* The usual step: the head and its calls have no part in the end of a     *)
(* connection.                                                             *)
LEMMA PlainStep ==
    ASSUME Stacks, NEW t \in Thread, NEW calls, todo[t] # <<>>, Do(t, calls),
           fdOf' = fdOf, Plain(calls, WorkerOps),
           Call(t).op \notin {"loop", "recv", "disconnect", "leave", "unregister"},
           DOMAIN usersById' \subseteq DOMAIN usersById
    PROVE  Stacks'
  <1>1. ASeq(calls) /\ FramesThenLoop(calls)
    BY DEF Plain, FramesThenLoop, WorkerOps
  <1>2. todo' = [todo EXCEPT ![t] = calls \o Tail(@)]
    BY DEF Do
  <1>3. \A fd : ~Keeps(Call(t), fd)
    BY DEF Keeps
  <1> QED
    BY <1>1, <1>2, <1>3, StacksKept

(* A step of process_client_message with a frame: whatever it calls, and   *)
(* if it registers a user, the worker's loop is still to come.             *)
LEMMA FrameStep ==
    ASSUME Stacks, NEW t \in Thread, NEW calls, Calling(t, "frames"), Process(t, calls),
           fdOf' = fdOf, ASeq(calls),
           DOMAIN usersById' \subseteq DOMAIN usersById \cup {Me(t)}
    PROVE  Stacks'
  <1> DEFINE fs == Tail(Call(t).frames)
             all == calls \o FrameLoop(fs)
  <1>1. todo' = [todo EXCEPT ![t] = all \o Tail(@)]
    BY DEF Process, Do
  <1>2. todo[t] # <<>> /\ Call(t).op = "frames"
    BY DEF Calling
  <1>3. ASeq(FrameLoop(fs))
    <2>1. Plain(<<>>, {}) /\ Plain(<<Frames(fs)>>, {})
      BY PlainNone, PlainOne
    <2> QED
      BY <2>1 DEF FrameLoop, Plain
  <1> HIDE DEF fs
  <1>4. ASeq(all)
    <2>1. Plain(calls, {}) /\ Plain(FrameLoop(fs), {})
      BY <1>3 DEF Plain
    <2>2. Plain(calls \o FrameLoop(fs), {})
      BY <2>1, PlainConcat
    <2> QED
      BY <2>2 DEF Plain
  <1> HIDE DEF all
  <1>5. "frames" \in WorkerOps
    BY DEF WorkerOps
  <1>6. \A fd : ~Keeps(Call(t), fd)
    BY <1>2 DEF Keeps
  <1>7. \A fd \in DOMAIN usersById' : fd \in DOMAIN usersById \/ fd = fdOf[t]
    BY DEF Me
  <1> QED
    BY <1>1, <1>2, <1>4, <1>5, <1>6, <1>7, StacksKept

(* Calls that need no look into their arguments.                           *)
LEMMA PlainCalls ==
    /\ \A fds : Send(fds).op \notin WorkerOps
    /\ \A r, e : Cast(r, e).op \notin WorkerOps
    /\ \A f : Carry(f).op \notin WorkerOps
    /\ \A fd, c : Lock(fd, c).op \notin WorkerOps
    /\ \A fd, c : Write(fd, c).op \notin WorkerOps
    /\ \A fds : Reap(fds).op \notin WorkerOps
    /\ \A fd : /\ Disconnect(fd).op \notin WorkerOps /\ Leave(fd).op \notin WorkerOps
               /\ Unregister(fd).op \notin WorkerOps /\ Close(fd).op \notin WorkerOps
  BY DEF Send, Cast, Carry, Lock, Write, Reap, Disconnect, Leave, Unregister, Close, WorkerOps

(* Two such calls in a row.                                                *)
LEMMA PlainTwo ==
    ASSUME NEW ops, NEW a, a.op \notin ops, NEW b, b.op \notin ops
    PROVE  Plain(<<a, b>>, ops)
  <1> DEFINE s == <<a, b>>
  <1>1. s \in Seq({a, b}) /\ Len(s) = 2 /\ s[1] = a /\ s[2] = b
    OBVIOUS
  <1> HIDE DEF s
  <1>2. ASSUME NEW i \in 1 .. Len(s) PROVE s[i].op \notin ops
    <2>1. i = 1 \/ i = 2
      BY <1>1
    <2> QED
      BY <1>1, <2>1
  <1> QED
    BY <1>1, <1>2 DEF Plain, ASeq, s

(* Three such calls in a row.                                              *)
LEMMA PlainThree ==
    ASSUME NEW ops, NEW a, a.op \notin ops, NEW b, b.op \notin ops, NEW c, c.op \notin ops
    PROVE  Plain(<<a, b, c>>, ops)
  <1> DEFINE s == <<a, b, c>>
  <1>1. s \in Seq({a, b, c}) /\ Len(s) = 3 /\ s[1] = a /\ s[2] = b /\ s[3] = c
    OBVIOUS
  <1> HIDE DEF s
  <1>2. ASSUME NEW i \in 1 .. Len(s) PROVE s[i].op \notin ops
    <2>1. i = 1 \/ i = 2 \/ i = 3
      BY <1>1
    <2> QED
      BY <1>1, <2>1
  <1> QED
    BY <1>1, <1>2 DEF Plain, ASeq, s

(* What the registry's operations do to the set of registered descriptors. *)
LEMMA RegistryDomains ==
    ASSUME NEW fd
    PROVE  /\ \A u : RM!RegisterUser(fd, u) =>
                        DOMAIN usersById' = DOMAIN usersById \cup {fd}
           /\ RM!UnregisterUser(fd) => DOMAIN usersById' = DOMAIN usersById \ {fd}
           /\ \A r : RM!JoinRoom(fd, r) => DOMAIN usersById' = DOMAIN usersById
           /\ RM!LeaveRoom(fd) => DOMAIN usersById' = DOMAIN usersById
  <1>1. ASSUME NEW u, RM!RegisterUser(fd, u)
        PROVE  DOMAIN usersById' = DOMAIN usersById \cup {fd}
    BY <1>1 DEF RM!RegisterUser, RM!SetUser
  <1>2. ASSUME RM!UnregisterUser(fd) PROVE DOMAIN usersById' = DOMAIN usersById \ {fd}
    BY <1>2 DEF RM!UnregisterUser
  <1>3. ASSUME NEW r, RM!JoinRoom(fd, r) PROVE DOMAIN usersById' = DOMAIN usersById
    BY <1>3 DEF RM!JoinRoom, RM!SetUser
  <1>4. ASSUME RM!LeaveRoom(fd) PROVE DOMAIN usersById' = DOMAIN usersById
    BY <1>4 DEF RM!LeaveRoom, RM!SetUser
  <1> QED
    BY <1>1, <1>2, <1>3, <1>4

(* process_client_message, command by command.                             *)
LEMMA ProcessKeeps ==
    ASSUME Stacks, NEW t \in Thread, ProcessClientMessage(t)
    PROVE  Stacks'
  <1>0. fdOf' = fdOf
    BY DEF ProcessClientMessage, table
  <1>1. CASE ProcessRegister(t)
    <2>1. Calling(t, "frames")
      BY <1>1 DEF ProcessRegister, Processing
    <2>2. CASE /\ RM!RegisterUser(Me(t), Frame(t).arg)
               /\ Process(t, <<Send({Me(t)}), Cast(General, {Me(t)})>>)
      <3>1. ASeq(<<Send({Me(t)}), Cast(General, {Me(t)})>>)
        BY PlainTwo, PlainCalls DEF Plain
      <3>2. DOMAIN usersById' \subseteq DOMAIN usersById \cup {Me(t)}
        BY <2>2, RegistryDomains
      <3> QED
        BY <1>0, <2>1, <2>2, <3>1, <3>2, FrameStep
    <2>3. CASE Process(t, <<Send({Me(t)})>>) /\ UNCHANGED registry
      <3>1. ASeq(<<Send({Me(t)})>>)
        BY PlainOne, PlainCalls DEF Plain
      <3>2. usersById' = usersById
        BY <2>3 DEF registry
      <3> QED
        BY <1>0, <2>1, <2>3, <3>1, <3>2, FrameStep
    <2> QED
      BY <1>1, <2>2, <2>3 DEF ProcessRegister
  <1>2. CASE AskUsername(t) \/ ProcessQuery(t) \/ ProcessDisconnect(t)
    <2>1. Calling(t, "frames") /\ usersById' = usersById
      BY <1>2 DEF AskUsername, ProcessQuery, ProcessDisconnect, Processing, registry
    <2>2. \/ Process(t, <<Carry(Frame(t))>>) \/ Process(t, <<>>)
          \/ Process(t, <<Send({Me(t)})>>) \/ Process(t, <<Disconnect(Me(t))>>)
      BY <1>2 DEF AskUsername, ProcessQuery, ProcessDisconnect
    <2>3. /\ ASeq(<<Carry(Frame(t))>>) /\ ASeq(<<>>)
          /\ ASeq(<<Send({Me(t)})>>) /\ ASeq(<<Disconnect(Me(t))>>)
      BY PlainNone, PlainOne, PlainCalls DEF Plain
    <2> QED
      BY <1>0, <2>1, <2>2, <2>3, FrameStep
  <1>3. ASSUME Calling(t, "carry"), NEW calls, Do(t, calls), Plain(calls, WorkerOps),
               DOMAIN usersById' = DOMAIN usersById
        PROVE  Stacks'
    <2>1. todo[t] # <<>> /\ Call(t).op = "carry"
      BY <1>3 DEF Calling
    <2> QED
      BY <1>0, <1>3, <2>1, PlainStep
  <1>4. CASE CarryChat(t)
    <2>1. Plain(<<Cast(RoomNow(Me(t)), {})>>, WorkerOps)
      BY PlainOne, PlainCalls
    <2> QED
      BY <1>3, <1>4, <2>1 DEF CarryChat, Carrying, registry
  <1>5. CASE CarryJoin(t)
    <2>1. Calling(t, "carry")
      BY <1>5 DEF CarryJoin, Carrying
    <2> DEFINE room == Call(t).frame.arg
    <2>2. CASE /\ RM!JoinRoom(Me(t), room)
               /\ Do(t, <<Cast(RoomNow(Me(t)), {}), Cast(room, {}), Send({Me(t)})>>)
      <3>1. Plain(<<Cast(RoomNow(Me(t)), {}), Cast(room, {}), Send({Me(t)})>>, WorkerOps)
        BY PlainThree, PlainCalls
      <3>2. DOMAIN usersById' = DOMAIN usersById
        BY <2>2, RegistryDomains
      <3> QED
        BY <1>3, <2>1, <2>2, <3>1, <3>2
    <2>3. CASE Do(t, <<Send({Me(t)})>>) /\ UNCHANGED registry
      <3>1. Plain(<<Send({Me(t)})>>, WorkerOps)
        BY PlainOne, PlainCalls
      <3> QED
        BY <1>3, <2>1, <2>3, <3>1 DEF registry
    <2> QED
      BY <1>5, <2>2, <2>3 DEF CarryJoin
  <1>6. CASE CarryLeave(t)
    <2>1. Calling(t, "carry")
      BY <1>6 DEF CarryLeave, Carrying
    <2>2. CASE /\ RM!LeaveRoom(Me(t))
               /\ Do(t, <<Cast(RoomNow(Me(t)), {}), Cast(General, {}), Send({Me(t)})>>)
      <3>1. Plain(<<Cast(RoomNow(Me(t)), {}), Cast(General, {}), Send({Me(t)})>>, WorkerOps)
        BY PlainThree, PlainCalls
      <3>2. DOMAIN usersById' = DOMAIN usersById
        BY <2>2, RegistryDomains
      <3> QED
        BY <1>3, <2>1, <2>2, <3>1, <3>2
    <2>3. CASE Do(t, <<Send({Me(t)})>>) /\ UNCHANGED registry
      <3>1. Plain(<<Send({Me(t)})>>, WorkerOps)
        BY PlainOne, PlainCalls
      <3> QED
        BY <1>3, <2>1, <2>3, <3>1 DEF registry
    <2> QED
      BY <1>6, <2>2, <2>3 DEF CarryLeave
  <1>7. CASE CarryPrivate(t)
    <2>1. Calling(t, "carry") /\ usersById' = usersById
      BY <1>7 DEF CarryPrivate, Carrying, registry
    <2> DEFINE name == NormalizeName[Call(t).frame.arg]
    <2>2. /\ Plain(<<Send({usersByName[name]}), Send({Me(t)})>>, WorkerOps)
          /\ Plain(<<Send({Me(t)})>>, WorkerOps)
      BY PlainOne, PlainTwo, PlainCalls
    <2>3. \/ Do(t, <<Send({usersByName[name]}), Send({Me(t)})>>)
          \/ Do(t, <<Send({Me(t)})>>)
      BY <1>7 DEF CarryPrivate
    <2> QED
      BY <1>3, <2>1, <2>2, <2>3
  <1>8. CASE EndCorrupted(t)
    <2> DEFINE calls == <<Send({Me(t)}), Disconnect(Me(t))>>
    <2>1. /\ todo' = [todo EXCEPT ![t] = calls] /\ usersById' = usersById
      BY <1>8 DEF EndCorrupted, registry
    <2>2. /\ todo' = [x \in Thread |-> todo'[x]]
          /\ todo'[t] = calls /\ \A x \in Thread \ {t} : todo'[x] = todo[x]
      BY <2>1 DEF Stacks
    <2>3. Plain(calls, WorkerOps)
      BY PlainTwo, PlainCalls
    <2>4. \A fd : fd = fdOf[t] => Committed(calls, fd)
      <3>1. Len(calls) = 2 /\ calls[2] = Disconnect(fdOf[t])
        BY DEF Me
      <3>2. Keeps(calls[2], fdOf[t])
        BY <3>1 DEF Keeps, Disconnect
      <3> HIDE DEF calls
      <3> QED
        BY <3>1, <3>2 DEF Committed
    <2> HIDE DEF calls
    <2>5. ASSUME NEW x \in Thread
          PROVE  ASeq(todo'[x]) /\ StartedOnly(x)' /\ FramesThenLoop(todo'[x])
      <3>1. CASE x = t
        <4>1. \A i \in 1 .. Len(calls) : calls[i].op \notin WorkerOps /\ calls[i].op # "frames"
          BY <2>3 DEF Plain, WorkerOps
        <4> QED
          BY <2>2, <2>3, <3>1, <4>1 DEF Plain, StartedOnly, FramesThenLoop
      <3>2. CASE x # t
        <4>1. todo'[x] = todo[x]
          BY <2>2, <3>2
        <4> QED
          BY <1>0, <4>1 DEF Stacks, StartedOnly
      <3> QED
        BY <3>1, <3>2
    <2>6. Served'
      <3> SUFFICES ASSUME NEW fd \in DOMAIN usersById'
                   PROVE  \E c \in DOMAIN fdOf' :
                             c \in Thread /\ fdOf'[c] = fd /\ Committed(todo'[c], fd)
        BY DEF Served
      <3>1. PICK c \in DOMAIN fdOf : c \in Thread /\ fdOf[c] = fd /\ Committed(todo[c], fd)
        BY <2>1 DEF Stacks, Served
      <3>2. Committed(todo'[c], fd)
        BY <2>2, <2>4, <3>1
      <3> QED
        BY <1>0, <3>1, <3>2
    <2> QED
      BY <2>2, <2>5, <2>6 DEF Stacks
  <1> QED
    BY <1>1, <1>2, <1>4, <1>5, <1>6, <1>7, <1>8 DEF ProcessClientMessage

(* Output changes no registry and ends no connection.                      *)
LEMMA OutputKeeps ==
    ASSUME Stacks, NEW t \in Thread,
           LookUp(t) \/ BeginSend(t) \/ EndSend(t) \/ Broadcast(t)
    PROVE  Stacks'
  <1>1. fdOf' = fdOf /\ usersById' = usersById
    BY DEF LookUp, BeginSend, EndSend, Broadcast, table, registry
  <1>2. /\ todo[t] # <<>>
        /\ Call(t).op \notin {"loop", "recv", "disconnect", "leave", "unregister"}
    BY DEF LookUp, BeginSend, EndSend, Broadcast, Calling
  <1>3. ASSUME NEW calls, Do(t, calls), Plain(calls, WorkerOps)
        PROVE  Stacks'
    BY <1>1, <1>2, <1>3, PlainStep
  <1>4. ASSUME NEW fds PROVE Plain(SendLoop(fds), WorkerOps)
    BY PlainNone, PlainOne, PlainCalls DEF SendLoop
  <1>5. CASE LookUp(t)
    <2>1. PICK fd \in Call(t).fds :
             Do(t, (IF fd \in DOMAIN clients THEN <<Lock(fd, clients[fd])>> ELSE <<>>)
                     \o SendLoop(Call(t).fds \ {fd}))
      BY <1>5 DEF LookUp
    <2> DEFINE first == IF fd \in DOMAIN clients THEN <<Lock(fd, clients[fd])>> ELSE <<>>
               rest == SendLoop(Call(t).fds \ {fd})
    <2>2. Plain(first, WorkerOps)
      BY PlainNone, PlainOne, PlainCalls
    <2>3. Plain(rest, WorkerOps)
      BY <1>4
    <2>4. Do(t, first \o rest)
      BY <2>1
    <2> HIDE DEF first, rest
    <2>5. Plain(first \o rest, WorkerOps)
      BY <2>2, <2>3, PlainConcat
    <2> QED
      BY <1>3, <2>4, <2>5
  <1>6. CASE BeginSend(t)
    <2> DEFINE w == Write(Call(t).ctx, file[Call(t).fd])
    <2>1. Do(t, <<w>>) \/ Do(t, <<>>)
      BY <1>6 DEF BeginSend
    <2>2. Plain(<<w>>, WorkerOps) /\ Plain(<<>>, WorkerOps)
      BY PlainNone, PlainOne, PlainCalls
    <2> QED
      BY <1>3, <2>1, <2>2
  <1>7. CASE EndSend(t)
    BY <1>3, <1>7, PlainNone DEF EndSend
  <1>8. CASE Broadcast(t)
    BY <1>3, <1>4, <1>8 DEF Broadcast
  <1> QED
    BY <1>5, <1>6, <1>7, <1>8

(* client_handler: the loop becomes a recv or the end, a recv frames and   *)
(* the loop, or the end.                                                   *)
LEMMA LoopKeeps ==
    ASSUME Stacks, NEW t \in Thread, BeginRecv(t) \/ EndRecv(t)
    PROVE  Stacks'
  <1>1. fdOf' = fdOf /\ usersById' = usersById
    BY DEF BeginRecv, EndRecv, table, registry
  <1>2. todo[t] # <<>> /\ Call(t).op \in {"loop", "recv"}
    BY DEF BeginRecv, EndRecv, Calling
  <1>3. ASSUME NEW calls, Do(t, calls), ASeq(calls), FramesThenLoop(calls),
               Committed(calls, fdOf[t])
        PROVE  Stacks'
    <2>1. todo' = [todo EXCEPT ![t] = calls \o Tail(@)]
      BY <1>3 DEF Do
    <2>2. Call(t).op \in WorkerOps
      BY <1>2 DEF WorkerOps
    <2> QED
      BY <1>1, <1>2, <1>3, <2>1, <2>2, StacksKept
  <1>4. ASSUME NEW a, Keeps(a, fdOf[t]), a.op # "frames"
        PROVE  ASeq(<<a>>) /\ FramesThenLoop(<<a>>) /\ Committed(<<a>>, fdOf[t])
    <2> DEFINE s == <<a>>
    <2>1. s[1] = a /\ Len(s) = 1
      OBVIOUS
    <2>2. Plain(s, {"frames"})
      BY <1>4, PlainOne
    <2> HIDE DEF s
    <2>3. Committed(s, fdOf[t])
      BY <1>4, <2>1 DEF Committed
    <2>4. ASeq(s) /\ FramesThenLoop(s)
      BY <2>2 DEF Plain, FramesThenLoop
    <2> QED
      BY <2>3, <2>4 DEF s
  <1>5. /\ Keeps(Disconnect(Me(t)), fdOf[t]) /\ Disconnect(Me(t)).op # "frames"
        /\ \A c : Keeps(Recv(c), fdOf[t]) /\ Recv(c).op # "frames"
    BY DEF Keeps, Disconnect, Recv, Me
  <1>6. CASE BeginRecv(t)
    <2>1. Do(t, <<Recv(file[Me(t)])>>) \/ Do(t, <<Disconnect(Me(t))>>)
      BY <1>6 DEF BeginRecv
    <2> QED
      BY <1>3, <1>4, <1>5, <2>1
  <1>7. CASE EndRecv(t)
    <2> DEFINE c == Call(t).file
               f == Frames(sock[c].rx)
               s == <<f, Loop>>
    <2>1. Do(t, s) \/ Do(t, <<Disconnect(Me(t))>>)
      BY <1>7 DEF EndRecv
    <2>2. f.op = "frames" /\ Loop.op = "loop"
      BY DEF Frames, Loop
    <2>3. s[1] = f /\ s[2] = Loop /\ Len(s) = 2 /\ s \in Seq({f, Loop})
      OBVIOUS
    <2> HIDE DEF f, s
    <2>4. FramesThenLoop(s)
      <3> SUFFICES ASSUME NEW i \in 1 .. Len(s), s[i].op = "frames"
                   PROVE  \E j \in i + 1 .. Len(s) : s[j].op = "loop"
        BY DEF FramesThenLoop
      <3>1. i = 1
        BY <2>2, <2>3
      <3>2. 2 \in i + 1 .. Len(s) /\ s[2].op = "loop"
        BY <2>2, <2>3, <3>1
      <3> QED
        BY <3>2
    <2>5. Committed(s, fdOf[t])
      <3>1. Keeps(s[2], fdOf[t]) /\ 2 \in 1 .. Len(s)
        BY <2>2, <2>3 DEF Keeps
      <3> QED
        BY <3>1 DEF Committed
    <2>6. ASeq(s)
      BY <2>3 DEF ASeq
    <2> QED
      BY <1>3, <1>4, <1>5, <2>1, <2>4, <2>5, <2>6
  <1> QED
    BY <1>6, <1>7

(* handle_disconnect: each of its calls leads to the next until the user   *)
(* is gone.                                                                *)
LEMMA DisconnectKeeps ==
    ASSUME Stacks, NEW t \in Thread,
           HandleDisconnect(t) \/ AskRoom(t) \/ UnregisterUser(t) \/ CloseFd(t)
    PROVE  Stacks'
  <1>1. fdOf' = fdOf
    BY DEF HandleDisconnect, AskRoom, UnregisterUser, CloseFd, table
  <1>2. ASSUME NEW calls, NEW fd, Do(t, calls), Plain(calls, WorkerOps), todo[t] # <<>>,
               Call(t).op \in {"disconnect", "leave", "unregister"}, Call(t).fd = fd,
               DOMAIN usersById' \subseteq DOMAIN usersById,
               fd \in DOMAIN usersById' => Committed(calls, fd)
        PROVE  Stacks'
    <2>1. todo' = [todo EXCEPT ![t] = calls \o Tail(@)]
      BY <1>2 DEF Do
    <2>2. ASeq(calls) /\ FramesThenLoop(calls)
      BY <1>2 DEF Plain, FramesThenLoop, WorkerOps
    <2>3. \A d : Keeps(Call(t), d) => d = fd
      BY <1>2 DEF Keeps
    <2> QED
      BY <1>1, <1>2, <2>1, <2>2, <2>3, StacksKept
  <1> DEFINE fd == Call(t).fd
  <1>3. ASSUME NEW calls, NEW i \in 1 .. Len(calls),
               calls[i].op \in {"leave", "unregister"}, calls[i].fd = fd
        PROVE  Committed(calls, fd)
    BY <1>3 DEF Committed, Keeps
  <1>4. CASE HandleDisconnect(t)
    <2>1. todo[t] # <<>> /\ Call(t).op = "disconnect" /\ usersById' = usersById
      BY <1>4 DEF HandleDisconnect, Calling, registry
    <2>2. CASE IsUser(fd)
      <3> DEFINE s == <<Leave(fd)>>
      <3>1. Do(t, s)
        BY <1>4, <2>2 DEF HandleDisconnect
      <3>2. Plain(s, WorkerOps)
        BY PlainOne, PlainCalls
      <3>3. 1 \in 1 .. Len(s) /\ s[1].op = "leave" /\ s[1].fd = fd
        BY DEF Leave
      <3> HIDE DEF s, fd
      <3>4. Committed(s, fd)
        BY <1>3, <3>3
      <3> QED
        BY <1>2, <2>1, <3>1, <3>2, <3>4 DEF fd
    <2>3. CASE ~IsUser(fd)
      <3>1. Do(t, <<Close(fd)>>) /\ fd \notin DOMAIN usersById'
        BY <1>4, <2>1, <2>3 DEF HandleDisconnect, IsUser
      <3>2. Plain(<<Close(fd)>>, WorkerOps)
        BY PlainOne, PlainCalls
      <3> QED
        BY <1>2, <2>1, <3>1, <3>2
    <2> QED
      BY <2>2, <2>3
  <1>5. CASE AskRoom(t)
    <2> DEFINE s == <<Unregister(fd), Close(fd), Cast(RoomNow(fd), {})>>
    <2>1. todo[t] # <<>> /\ Call(t).op = "leave" /\ usersById' = usersById
      BY <1>5 DEF AskRoom, Calling, registry
    <2>2. Do(t, s)
      BY <1>5 DEF AskRoom
    <2>3. Plain(s, WorkerOps)
      BY PlainThree, PlainCalls
    <2>4. 1 \in 1 .. Len(s) /\ s[1].op = "unregister" /\ s[1].fd = fd
      BY DEF Unregister
    <2> HIDE DEF s, fd
    <2>5. Committed(s, fd)
      BY <1>3, <2>4
    <2> QED
      BY <1>2, <2>1, <2>2, <2>3, <2>5 DEF fd
  <1>6. CASE UnregisterUser(t)
    <2>1. todo[t] # <<>> /\ Call(t).op = "unregister" /\ Do(t, <<>>)
      BY <1>6 DEF UnregisterUser, Calling
    <2>2. DOMAIN usersById' = DOMAIN usersById \ {fd}
      <3>1. CASE RM!UnregisterUser(fd)
        BY <3>1, RegistryDomains
      <3>2. CASE ~IsUser(fd) /\ UNCHANGED registry
        BY <3>2 DEF IsUser, registry
      <3> QED
        BY <1>6, <3>1, <3>2 DEF UnregisterUser
    <2>3. Plain(<<>>, WorkerOps)
      BY PlainNone
    <2> QED
      BY <1>2, <2>1, <2>2, <2>3
  <1>7. CASE CloseFd(t)
    <2>1. /\ todo[t] # <<>> /\ Call(t).op = "close" /\ Do(t, <<>>)
          /\ usersById' = usersById
      BY <1>7 DEF CloseFd, Calling, registry
    <2> QED
      BY <1>1, <2>1, PlainNone, PlainStep
  <1> QED
    BY <1>4, <1>5, <1>6, <1>7

------------------------------------------------------------------------------
(* Connections.  A client connects once, so that whoever waits for accept, *)
(* or for a worker, has none yet.                                          *)

Born == {c \in Client : sock[c].used}

SockShape ==
    /\ sock = [c \in Client |-> sock[c]]
    /\ \A c \in Client : sock[c] = [field \in {"used", "rx", "tx", "fin", "down"} |->
                                      sock[c][field]]

Fresh ==
    /\ backlog \in Seq(Client)
    /\ \A i, j \in 1 .. Len(backlog) : backlog[i] = backlog[j] => i = j
    /\ \A i \in 1 .. Len(backlog) : backlog[i] \in Born \ DOMAIN fdOf
    /\ DOMAIN fdOf \subseteq Born
    /\ \A fd \in hand : /\ file[fd] \in Born \ DOMAIN fdOf
                        /\ \A i \in 1 .. Len(backlog) : backlog[i] # file[fd]

LEMMA FreshKept ==
    ASSUME Fresh, backlog' = backlog, fdOf' = fdOf, hand' = hand,
           \A fd \in hand : file'[fd] = file[fd], Born \subseteq Born'
    PROVE  Fresh'
  BY DEF Fresh

(* Whatever else changes in the kernel, who has connected has connected.   *)
LEMMA BornKept ==
    ASSUME SockShape, NEW c \in Client, NEW field \in {"rx", "tx", "fin", "down"}, NEW v,
           sock' = [sock EXCEPT ![c] = [@ EXCEPT ![field] = v]]
    PROVE  SockShape' /\ Born' = Born
  <1>1. /\ DOMAIN sock = Client
        /\ sock' = [x \in Client |-> sock'[x]]
        /\ sock'[c] = [sock[c] EXCEPT ![field] = v]
        /\ \A x \in Client \ {c} : sock'[x] = sock[x]
    BY DEF SockShape
  <1>2. sock[c] = [f \in {"used", "rx", "tx", "fin", "down"} |-> sock[c][f]]
    BY DEF SockShape
  <1>3. /\ sock'[c] = [f \in {"used", "rx", "tx", "fin", "down"} |-> sock'[c][f]]
        /\ sock'[c].used = sock[c].used
    BY <1>1, <1>2
  <1>4. SockShape'
    BY <1>1, <1>3 DEF SockShape
  <1>5. \A x \in Client : sock'[x].used = sock[x].used
    BY <1>1, <1>3
  <1> QED
    BY <1>4, <1>5 DEF Born

LEMMA ConnectStep ==
    ASSUME Fresh, SockShape, NEW c \in Client, Connect(c)
    PROVE  Fresh' /\ SockShape'
  <1>1. /\ ~sock[c].used /\ sock' = [sock EXCEPT ![c].used = TRUE]
        /\ backlog' = Append(backlog, c)
        /\ file' = file /\ hand' = hand /\ fdOf' = fdOf
    BY DEF Connect, table
  <1>2. /\ DOMAIN sock = Client
        /\ sock' = [x \in Client |-> sock'[x]]
        /\ sock'[c] = [sock[c] EXCEPT !.used = TRUE]
        /\ \A x \in Client \ {c} : sock'[x] = sock[x]
    BY <1>1 DEF SockShape
  <1>3. sock[c] = [f \in {"used", "rx", "tx", "fin", "down"} |-> sock[c][f]]
    BY DEF SockShape
  <1>4. /\ sock'[c] = [f \in {"used", "rx", "tx", "fin", "down"} |-> sock'[c][f]]
        /\ sock'[c].used
    BY <1>2, <1>3
  <1>5. SockShape'
    BY <1>2, <1>4 DEF SockShape
  <1>6. c \notin Born /\ Born' = Born \cup {c}
    BY <1>1, <1>2, <1>4 DEF Born
  <1>7. /\ backlog' \in Seq(Client) /\ Len(backlog) \in Nat
        /\ Len(backlog') = Len(backlog) + 1
        /\ \A i \in 1 .. Len(backlog) : backlog'[i] = backlog[i]
        /\ backlog'[Len(backlog) + 1] = c
    <2>1. backlog \in Seq(Client)
      BY DEF Fresh
    <2> QED
      BY <1>1, <2>1
  <1>8. \A i \in 1 .. Len(backlog') : i \in 1 .. Len(backlog) \/ i = Len(backlog) + 1
    BY <1>7
  <1>9. \A i \in 1 .. Len(backlog) : backlog[i] # c
    BY <1>6 DEF Fresh
  <1>10. \A i, j \in 1 .. Len(backlog') : backlog'[i] = backlog'[j] => i = j
    BY <1>7, <1>8, <1>9 DEF Fresh
  <1>11. \A i \in 1 .. Len(backlog') : backlog'[i] \in Born' \ DOMAIN fdOf'
    BY <1>1, <1>6, <1>7, <1>8 DEF Fresh
  <1>12. \A fd \in hand' : /\ file'[fd] \in Born' \ DOMAIN fdOf'
                           /\ \A i \in 1 .. Len(backlog') : backlog'[i] # file'[fd]
    BY <1>1, <1>6, <1>7, <1>8 DEF Fresh
  <1>13. DOMAIN fdOf' \subseteq Born'
    BY <1>1, <1>6 DEF Fresh
  <1> QED
    BY <1>5, <1>7, <1>10, <1>11, <1>12, <1>13 DEF Fresh

LEMMA AcceptFresh == Fresh /\ Accept => Fresh'
  <1> SUFFICES ASSUME Fresh, Accept PROVE Fresh'
    OBVIOUS
  <1>1. PICK fd \in FreeFds : file' = With(file, fd, Head(backlog)) /\ hand' = {fd}
    BY DEF Accept
  <1>2. /\ backlog # <<>> /\ backlog' = Tail(backlog)
        /\ fdOf' = fdOf /\ sock' = sock
    BY DEF Accept
  <1>3. backlog \in Seq(Client)
    BY DEF Fresh
  <1>4. /\ backlog' \in Seq(Client) /\ Len(backlog) \in Nat /\ Len(backlog) >= 1
        /\ Len(backlog') = Len(backlog) - 1 /\ Head(backlog) = backlog[1]
        /\ \A i \in 1 .. Len(backlog') : backlog'[i] = backlog[i + 1]
    <2>1. Len(backlog) \in Nat /\ Len(backlog) # 0
      BY <1>2, <1>3, LenProperties, EmptySeq
    <2> QED
      BY <1>2, <1>3, <2>1, HeadTailProperties
  <1>5. \A i \in 1 .. Len(backlog') : i + 1 \in 1 .. Len(backlog) /\ i + 1 # 1
    BY <1>4
  <1>6. 1 \in 1 .. Len(backlog)
    BY <1>4
  <1>7. Born' = Born
    BY <1>2 DEF Born
  <1>8. file'[fd] = backlog[1]
    BY <1>1, <1>4 DEF With
  <1>9. \A i, j \in 1 .. Len(backlog') : backlog'[i] = backlog'[j] => i = j
    <2> SUFFICES ASSUME NEW i \in 1 .. Len(backlog'), NEW j \in 1 .. Len(backlog'),
                        backlog'[i] = backlog'[j]
                 PROVE  i = j
      OBVIOUS
    <2>1. i + 1 = j + 1
      BY <1>4, <1>5 DEF Fresh
    <2> QED
      BY <2>1
  <1>10. \A i \in 1 .. Len(backlog') : /\ backlog'[i] \in Born' \ DOMAIN fdOf'
                                       /\ backlog'[i] # backlog[1]
    <2> SUFFICES ASSUME NEW i \in 1 .. Len(backlog')
                 PROVE  /\ backlog[i + 1] \in Born \ DOMAIN fdOf
                        /\ backlog[i + 1] # backlog[1]
      BY <1>2, <1>4, <1>7
    <2> QED
      BY <1>5, <1>6 DEF Fresh
  <1>11. backlog[1] \in Born \ DOMAIN fdOf
    BY <1>6 DEF Fresh
  <1> QED
    BY <1>1, <1>2, <1>4, <1>7, <1>8, <1>9, <1>10, <1>11 DEF Fresh

(* The worker of the connection in hand is its first.                      *)
LEMMA StartWorkerFresh == IInv /\ Fresh /\ StartWorker => Fresh'
  <1> SUFFICES ASSUME IInv, Fresh, StartWorker PROVE Fresh'
    OBVIOUS
  <1>1. PICK fd \in hand : fdOf' = With(fdOf, file[fd], fd) /\ hand' = {}
    BY DEF StartWorker
  <1>2. backlog' = backlog /\ sock' = sock
    BY DEF StartWorker, kernel
  <1>3. DOMAIN fdOf' = DOMAIN fdOf \cup {file[fd]} /\ Born' = Born
    BY <1>1, <1>2 DEF With, Born
  <1> QED
    BY <1>1, <1>2, <1>3 DEF Fresh

LEMMA StopFresh == Fresh /\ Stop => Fresh'
  <1> SUFFICES ASSUME Fresh, Stop PROVE Fresh'
    OBVIOUS
  <1>1. /\ backlog' = <<>> /\ sock' = sock
        /\ file' = file /\ hand' = hand /\ fdOf' = fdOf
    BY DEF Stop, table
  <1>2. backlog' \in Seq(Client) /\ Len(backlog') = 0 /\ Born' = Born
    BY <1>1 DEF Born
  <1>3. \A i \in 1 .. Len(backlog') : FALSE
    BY <1>2
  <1> QED
    BY <1>1, <1>2, <1>3 DEF Fresh

LEMMA StopClientsFresh ==
    IInv /\ Fresh /\ SockShape /\ StopClients => Fresh' /\ SockShape'
  <1> SUFFICES ASSUME IInv, Fresh, SockShape, StopClients PROVE Fresh' /\ SockShape'
    OBVIOUS
  <1>1. /\ backlog' = backlog /\ hand' = hand /\ fdOf' = fdOf
        /\ file' = [fd \in DOMAIN file \ DOMAIN clients |-> file[fd]]
        /\ sock' = [c \in Client |->
                      IF \E fd \in DOMAIN clients : clients[fd] = c
                      THEN [sock[c] EXCEPT !.down = TRUE] ELSE sock[c]]
    BY DEF StopClients
  <1>2. ASSUME NEW c \in Client
        PROVE  /\ sock'[c] = [f \in {"used", "rx", "tx", "fin", "down"} |-> sock'[c][f]]
               /\ sock'[c].used = sock[c].used
    <2>1. sock[c] = [f \in {"used", "rx", "tx", "fin", "down"} |-> sock[c][f]]
      BY DEF SockShape
    <2>2. sock'[c] = [sock[c] EXCEPT !.down = TRUE] \/ sock'[c] = sock[c]
      BY <1>1
    <2> QED
      BY <2>1, <2>2
  <1>3. sock' = [c \in Client |-> sock'[c]]
    BY <1>1
  <1>4. SockShape' /\ Born' = Born
    BY <1>2, <1>3 DEF SockShape, Born
  <1>5. \A fd \in hand : file'[fd] = file[fd]
    BY <1>1 DEF IInv, DescriptorsOwned
  <1> QED
    BY <1>1, <1>4, <1>5, FreshKept

LEMMA TerminateFresh == Fresh /\ SockShape /\ Terminate => Fresh' /\ SockShape'
  <1> SUFFICES ASSUME Fresh, SockShape, Terminate PROVE Fresh' /\ SockShape'
    OBVIOUS
  <1>1. backlog' = backlog /\ sock' = sock /\ fdOf' = fdOf /\ hand' = {}
    BY DEF Terminate, kernel
  <1>2. SockShape' /\ Born' = Born
    BY <1>1 DEF SockShape, Born
  <1>3. Fresh'
    BY <1>1, <1>2 DEF Fresh
  <1> QED
    BY <1>2, <1>3

LEMMA CloseFresh ==
    ASSUME IInv, Fresh, NEW t \in Thread, CloseFd(t)
    PROVE  Fresh'
  <1>1. backlog' = backlog /\ sock' = sock /\ hand' = hand /\ fdOf' = fdOf
    BY DEF CloseFd, kernel
  <1>2. \A fd \in hand : file'[fd] = file[fd]
    BY DEF CloseFd, Without, IInv, DescriptorsOwned
  <1>3. Born' = Born
    BY <1>1 DEF Born
  <1> QED
    BY <1>1, <1>2, <1>3, FreshKept

(* The other steps change at most what is in the buffers of a socket or    *)
(* whether it is still open.                                               *)
LEMMA OthersFresh ==
    ASSUME Fresh, SockShape, Next, SameTables, fdOf' = fdOf,
           ~Stop, \A c \in Client : ~Connect(c), ~StopClients, ~Terminate, ~Accept
    PROVE  Fresh' /\ SockShape'
  <1>1. ASSUME backlog' = backlog, SockShape', Born' = Born
        PROVE  Fresh' /\ SockShape'
    BY <1>1, FreshKept DEF SameTables
  <1>2. ASSUME backlog' = backlog, sock' = sock PROVE Fresh' /\ SockShape'
    BY <1>1, <1>2 DEF Born, SockShape
  <1>3. ASSUME NEW c, NEW field \in {"rx", "tx", "fin", "down"}, NEW v,
               sock' = [sock EXCEPT ![c] = [@ EXCEPT ![field] = v]],
               backlog' = backlog
        PROVE  Fresh' /\ SockShape'
    <2>1. CASE c \in Client
      BY <1>1, <1>3, <2>1, BornKept
    <2>2. CASE c \notin Client
      <3>1. sock = [x \in Client |-> sock[x]]
        BY DEF SockShape
      <3>2. sock' = [x \in Client |-> sock[x]]
        BY <1>3, <2>2, <3>1
      <3> QED
        BY <1>2, <1>3, <3>1, <3>2
    <2> QED
      BY <2>1, <2>2
  <1>4. ASSUME NEW t \in Thread, ThreadStep(t) PROVE Fresh' /\ SockShape'
    <2>1. CASE BeginRecv(t) \/ LookUp(t) \/ BeginSend(t) \/ Broadcast(t)
      BY <1>2, <2>1 DEF BeginRecv, LookUp, BeginSend, Broadcast, kernel
    <2>2. CASE HandleDisconnect(t) \/ AskRoom(t) \/ UnregisterUser(t) \/ CloseFd(t)
      BY <1>2, <2>2 DEF HandleDisconnect, AskRoom, UnregisterUser, CloseFd, kernel
    <2>3. CASE ProcessClientMessage(t)
      BY <1>2, <2>3 DEF ProcessClientMessage, kernel
    <2>4. CASE EndRecv(t)
      <3>1. backlog' = backlog
        BY <2>4 DEF EndRecv
      <3>2. CASE sock' = sock
        BY <1>2, <3>1, <3>2
      <3>3. CASE sock' = [sock EXCEPT ![Call(t).file].rx = <<>>]
        <4>1. sock' = [sock EXCEPT ![Call(t).file] = [@ EXCEPT !["rx"] = <<>>]]
          BY <3>3
        <4> QED
          BY <1>3, <3>1, <4>1
      <3> QED
        BY <2>4, <3>2, <3>3 DEF EndRecv
    <2>5. CASE EndSend(t)
      <3>1. backlog' = backlog
        BY <2>5 DEF EndSend
      <3>2. CASE sock' = sock
        BY <1>2, <3>1, <3>2
      <3> DEFINE c == Call(t).file
      <3>3. CASE sock' = [sock EXCEPT ![c].tx = @ + 1]
        <4>1. sock' = [sock EXCEPT ![c] = [@ EXCEPT !["tx"] = sock[c].tx + 1]]
          BY <3>3
        <4> QED
          BY <1>3, <3>1, <4>1
      <3> QED
        BY <2>5, <3>2, <3>3 DEF EndSend
    <2> QED
      BY <1>4, <2>1, <2>2, <2>3, <2>4, <2>5 DEF ThreadStep
  <1>5. CASE Scan \/ ReapNext \/ StartWorker
    BY <1>2, <1>5 DEF Scan, ReapNext, StartWorker, kernel
  <1>6. ASSUME NEW c \in Client, ClientRead(c) \/ HangUp(c) \/ ClientSend(c)
        PROVE  Fresh' /\ SockShape'
    BY <1>3, <1>6 DEF ClientRead, HangUp, ClientSend
  <1>7. CASE Silence \/ AcceptFails
    BY <1>2, <1>7 DEF Silence, AcceptFails, kernel
  <1> QED
    BY <1>4, <1>5, <1>6, <1>7 DEF Next, Onward, Outside, MainEnds, Signal

------------------------------------------------------------------------------
(* The stacks of the threads that the listener, the reaper and stop() see  *)
(* to, and the theorem.                                                    *)

(* A worker starts with its loop, under a descriptor of its own.           *)
LEMMA StartWorkerKeeps == Stacks /\ Fresh /\ StartWorker => Stacks'
  <1> SUFFICES ASSUME Stacks, Fresh, StartWorker PROVE Stacks'
    OBVIOUS
  <1>1. PICK fd \in hand : /\ fdOf' = With(fdOf, file[fd], fd)
                           /\ todo' = [todo EXCEPT ![file[fd]] = <<Loop>>]
    BY DEF StartWorker
  <1>2. usersById' = usersById
    BY DEF StartWorker, registry
  <1>3. PICK c : c = file[fd]
    OBVIOUS
  <1>4. c \in Client /\ c \in Thread /\ c \notin DOMAIN fdOf
    BY <1>3 DEF Fresh, Born, Thread
  <1>5. /\ DOMAIN fdOf' = DOMAIN fdOf \cup {c}
        /\ \A x \in DOMAIN fdOf : fdOf'[x] = fdOf[x]
    BY <1>1, <1>3, <1>4 DEF With
  <1>6. /\ todo' = [x \in Thread |-> todo'[x]]
        /\ todo'[c] = <<Loop>> /\ \A x \in Thread \ {c} : todo'[x] = todo[x]
    BY <1>1, <1>3, <1>4 DEF Stacks
  <1>7. ASeq(<<Loop>>) /\ Len(<<Loop>>) = 1 /\ <<Loop>>[1].op = "loop"
    <2>1. <<Loop>> \in Seq({Loop}) /\ Len(<<Loop>>) = 1 /\ <<Loop>>[1] = Loop
      OBVIOUS
    <2>2. ASeq(<<Loop>>)
      BY <2>1 DEF ASeq
    <2> QED
      BY <2>1, <2>2 DEF Loop
  <1>8. ASSUME NEW x \in Thread
        PROVE  ASeq(todo'[x]) /\ StartedOnly(x)' /\ FramesThenLoop(todo'[x])
    <2>1. CASE x = c
      <3>1. \A i \in 1 .. Len(todo'[c]) : todo'[c][i].op = "loop"
        <4> SUFFICES ASSUME NEW i \in 1 .. Len(<<Loop>>) PROVE <<Loop>>[i].op = "loop"
          BY <1>6
        <4>1. i = 1
          BY <1>7
        <4> QED
          BY <1>7, <4>1
      <3>2. StartedOnly(x)'
        BY <1>5, <2>1 DEF StartedOnly
      <3>3. FramesThenLoop(todo'[x])
        BY <2>1, <3>1 DEF FramesThenLoop
      <3> QED
        BY <1>6, <1>7, <2>1, <3>2, <3>3
    <2>2. CASE x # c
      <3>1. todo'[x] = todo[x]
        BY <1>6, <2>2
      <3>2. ASeq(todo[x]) /\ StartedOnly(x) /\ FramesThenLoop(todo[x])
        BY DEF Stacks
      <3> QED
        BY <1>5, <3>1, <3>2 DEF StartedOnly
    <2> QED
      BY <2>1, <2>2
  <1>9. ASSUME NEW d \in DOMAIN usersById'
        PROVE  \E x \in DOMAIN fdOf' : x \in Thread /\ fdOf'[x] = d /\ Committed(todo'[x], d)
    <2>1. PICK x \in DOMAIN fdOf : x \in Thread /\ fdOf[x] = d /\ Committed(todo[x], d)
      BY <1>2 DEF Stacks, Served
    <2>2. x # c
      BY <1>4
    <2> QED
      BY <1>5, <1>6, <2>1, <2>2
  <1> QED
    BY <1>6, <1>8, <1>9 DEF Stacks, Served

(* The reaper has no connection of its own to end.                         *)
LEMMA ReaperKeeps == Stacks /\ (Scan \/ ReapNext) => Stacks'
  <1> SUFFICES ASSUME Stacks, Scan \/ ReapNext PROVE Stacks'
    OBVIOUS
  <1>1. fdOf' = fdOf /\ usersById' = usersById /\ Reaper \in Thread
    BY DEF Scan, ReapNext, table, registry, Thread
  <1>2. CASE Scan
    <2>1. PICK dead : todo' = [todo EXCEPT ![Reaper] = <<Reap(dead)>>]
      BY <1>2 DEF Scan
    <2>2. todo[Reaper] = <<>>
      BY <1>2 DEF Scan
    <2> DEFINE s == <<Reap(dead)>>
    <2>3. /\ todo' = [x \in Thread |-> todo'[x]]
          /\ todo'[Reaper] = s /\ \A x \in Thread \ {Reaper} : todo'[x] = todo[x]
      BY <1>1, <2>1 DEF Stacks
    <2>4. Plain(s, WorkerOps)
      BY PlainOne, PlainCalls
    <2> HIDE DEF s
    <2>5. ASSUME NEW x \in Thread
          PROVE  ASeq(todo'[x]) /\ StartedOnly(x)' /\ FramesThenLoop(todo'[x])
      <3>1. CASE x = Reaper
        BY <2>3, <2>4, <3>1 DEF Plain, StartedOnly, FramesThenLoop, WorkerOps
      <3>2. CASE x # Reaper
        <4>1. todo'[x] = todo[x]
          BY <2>3, <3>2
        <4> QED
          BY <1>1, <4>1 DEF Stacks, StartedOnly
      <3> QED
        BY <3>1, <3>2
    <2>6. ASSUME NEW d \in DOMAIN usersById'
          PROVE  \E x \in DOMAIN fdOf' : x \in Thread /\ fdOf'[x] = d /\ Committed(todo'[x], d)
      <3>1. PICK x \in DOMAIN fdOf : x \in Thread /\ fdOf[x] = d /\ Committed(todo[x], d)
        BY <1>1 DEF Stacks, Served
      <3>2. x # Reaper
        <4>1. Len(<<>>) = 0
          OBVIOUS
        <4>2. ~Committed(<<>>, d)
          BY <4>1 DEF Committed
        <4> QED
          BY <2>2, <3>1, <4>2
      <3> QED
        BY <1>1, <2>3, <3>1, <3>2
    <2> QED
      BY <2>3, <2>5, <2>6 DEF Stacks, Served
  <1>3. CASE ReapNext
    <2>1. todo[Reaper] # <<>> /\ Call(Reaper).op = "reap"
      BY <1>3 DEF ReapNext, Calling
    <2>2. PICK fd : Do(Reaper, <<Disconnect(fd)>> \o ReapLoop(Call(Reaper).fds \ {fd}))
      BY <1>3 DEF ReapNext
    <2> DEFINE first == <<Disconnect(fd)>>
               rest == ReapLoop(Call(Reaper).fds \ {fd})
    <2>3. Plain(first, WorkerOps)
      BY PlainOne, PlainCalls
    <2>4. Plain(rest, WorkerOps)
      BY PlainNone, PlainOne, PlainCalls DEF ReapLoop
    <2>5. Do(Reaper, first \o rest)
      BY <2>2
    <2> HIDE DEF first, rest
    <2>6. Plain(first \o rest, WorkerOps)
      BY <2>3, <2>4, PlainConcat
    <2> QED
      BY <1>1, <2>1, <2>5, <2>6, PlainStep
  <1> QED
    BY <1>2, <1>3

(* With the process all stacks are gone, and all users.                    *)
LEMMA TerminateKeeps == Terminate => Stacks'
  <1> SUFFICES ASSUME Terminate PROVE Stacks'
    OBVIOUS
  <1>1. todo' = [t \in Thread |-> <<>>] /\ DOMAIN usersById' = {}
    BY DEF Terminate, Nothing
  <1>2. ASeq(<<>>) /\ \A i \in 1 .. Len(<<>>) : FALSE
    <2>1. Len(<<>>) = 0
      OBVIOUS
    <2> QED
      BY <2>1, PlainNone DEF Plain
  <1>3. ASSUME NEW t \in Thread
        PROVE  ASeq(todo'[t]) /\ StartedOnly(t)' /\ FramesThenLoop(todo'[t])
    <2>1. todo'[t] = <<>>
      BY <1>1
    <2> QED
      BY <1>2, <2>1 DEF StartedOnly, FramesThenLoop
  <1> QED
    BY <1>1, <1>3 DEF Stacks, Served

(* The steps of no thread that has a stack.                                *)
LEMMA OtherStacks ==
    ASSUME Next, ~StartWorker, ~Scan, ~ReapNext, ~Terminate, \A t \in Thread : ~ThreadStep(t)
    PROVE  UNCHANGED <<todo, fdOf, usersById>>
  <1> USE DEF table, registry
  <1>1. CASE Accept \/ MainEnds \/ StopClients
    BY <1>1 DEF Accept, MainEnds, Stop, StopClients
  <1>2. ASSUME NEW c \in Client, ClientRead(c) \/ Connect(c) \/ ClientSend(c) \/ HangUp(c)
        PROVE  UNCHANGED <<todo, fdOf, usersById>>
    BY <1>2 DEF ClientRead, Connect, ClientSend, HangUp
  <1>3. CASE Silence \/ AcceptFails \/ Signal
    BY <1>3 DEF Silence, AcceptFails, Signal, Stop
  <1> QED
    BY <1>1, <1>2, <1>3 DEF Next, Onward, Outside

(* fdOf is written when a worker starts, and never again.                  *)
LEMMA DescriptorOfWorker == Next /\ ~StartWorker => fdOf' = fdOf
  <1> SUFFICES ASSUME Next, ~StartWorker PROVE fdOf' = fdOf
    OBVIOUS
  <1> USE DEF table
  <1>1. ASSUME NEW t \in Thread, ThreadStep(t) PROVE fdOf' = fdOf
    <2>1. CASE BeginRecv(t) \/ EndRecv(t) \/ ProcessClientMessage(t)
      BY <2>1 DEF BeginRecv, EndRecv, ProcessClientMessage
    <2>2. CASE LookUp(t) \/ BeginSend(t) \/ EndSend(t) \/ Broadcast(t)
      BY <2>2 DEF LookUp, BeginSend, EndSend, Broadcast
    <2>3. CASE HandleDisconnect(t) \/ AskRoom(t) \/ UnregisterUser(t) \/ CloseFd(t)
      BY <2>3 DEF HandleDisconnect, AskRoom, UnregisterUser, CloseFd
    <2> QED
      BY <1>1, <2>1, <2>2, <2>3 DEF ThreadStep
  <1>2. CASE Scan \/ ReapNext \/ Terminate
    BY <1>2 DEF Scan, ReapNext, Terminate
  <1> QED
    BY <1>1, <1>2, OtherStacks

UInv == IInv /\ SockShape /\ Fresh /\ Stacks

LEMMA UInvInit == Init => UInv
  <1> SUFFICES ASSUME Init PROVE UInv
    OBVIOUS
  <1>1. IInv
    BY IInvInit
  <1>2. SockShape
    BY DEF Init, SockShape
  <1>3. Fresh
    <2>1. backlog = <<>> /\ DOMAIN fdOf = {} /\ hand = {}
      BY DEF Init
    <2>2. backlog \in Seq(Client) /\ Len(backlog) = 0
      BY <2>1
    <2>3. \A i \in 1 .. Len(backlog) : FALSE
      BY <2>2
    <2> QED
      BY <2>1, <2>2, <2>3 DEF Fresh
  <1>4. Stacks
    <2>1. todo = [t \in Thread |-> <<>>] /\ DOMAIN usersById = {}
      BY DEF Init, RM!Init
    <2>2. ASeq(<<>>) /\ \A i \in 1 .. Len(<<>>) : FALSE
      <3>1. Len(<<>>) = 0
        OBVIOUS
      <3> QED
        BY <3>1, PlainNone DEF Plain
    <2>3. \A t \in Thread : ASeq(todo[t]) /\ StartedOnly(t) /\ FramesThenLoop(todo[t])
      BY <2>1, <2>2 DEF StartedOnly, FramesThenLoop
    <2> QED
      BY <2>1, <2>3 DEF Stacks, Served
  <1> QED
    BY <1>1, <1>2, <1>3, <1>4 DEF UInv

LEMMA FreshHolds == UInv /\ Next => Fresh' /\ SockShape'
  <1> SUFFICES ASSUME UInv, Next PROVE Fresh' /\ SockShape'
    OBVIOUS
  <1> USE DEF UInv
  <1>1. ASSUME sock' = sock PROVE SockShape'
    BY <1>1 DEF SockShape
  <1>2. CASE Accept
    BY <1>1, <1>2, AcceptFresh DEF Accept
  <1>3. CASE StartWorker
    BY <1>1, <1>3, StartWorkerFresh DEF StartWorker, kernel
  <1>4. CASE StopClients
    BY <1>4, StopClientsFresh
  <1>5. CASE Stop
    BY <1>1, <1>5, StopFresh DEF Stop
  <1>8. CASE Terminate
    BY <1>8, TerminateFresh
  <1>6. ASSUME NEW t \in Thread, CloseFd(t) PROVE Fresh' /\ SockShape'
    BY <1>1, <1>6, CloseFresh DEF CloseFd, kernel
  <1>7. ASSUME NEW c \in Client, Connect(c) PROVE Fresh' /\ SockShape'
    BY <1>7, ConnectStep
  <1> QED
    BY <1>2, <1>3, <1>4, <1>5, <1>6, <1>7, <1>8, OtherSteps, DescriptorOfWorker, OthersFresh

LEMMA StacksHold == UInv /\ Next => Stacks'
  <1> SUFFICES ASSUME UInv, Next PROVE Stacks'
    OBVIOUS
  <1> USE DEF UInv
  <1>1. CASE StartWorker
    BY <1>1, StartWorkerKeeps
  <1>2. CASE Scan \/ ReapNext
    BY <1>2, ReaperKeeps
  <1>3. ASSUME NEW t \in Thread, ThreadStep(t) PROVE Stacks'
    BY <1>3, LoopKeeps, ProcessKeeps, OutputKeeps, DisconnectKeeps DEF ThreadStep
  <1>4. ASSUME UNCHANGED <<todo, fdOf, usersById>> PROVE Stacks'
    BY <1>4 DEF Stacks, StartedOnly, Served
  <1>5. CASE Terminate
    BY <1>5, TerminateKeeps
  <1> QED
    BY <1>1, <1>2, <1>3, <1>4, <1>5, OtherStacks

(* Although a command is several calls of the registry, between which its  *)
(* connection may be closed, by the reaper or by stop(), and the           *)
(* descriptor given to another, whoever is registered has a worker that is *)
(* still to unregister it (classic_server.cpp 130-146, 341-392).           *)
THEOREM NobodyLeftBehind == Spec => []UsersServed
  <1>1. UInv /\ [Next]_vars => UInv'
    <2> SUFFICES ASSUME UInv, [Next]_vars PROVE UInv'
      OBVIOUS
    <2>1. CASE Next
      BY <2>1, IInvKept, FreshHolds, StacksHold DEF UInv
    <2>2. CASE UNCHANGED vars
      <3>1. /\ UNCHANGED <<file, clients, hand>> /\ UNCHANGED <<sock, backlog>>
            /\ UNCHANGED <<fdOf, todo, usersById>>
        BY <2>2 DEF vars, kernel, table, registry
      <3>2. IInv'
        BY <3>1 DEF UInv, IInv, DescriptorsOwned, OneInHand
      <3>3. Fresh' /\ SockShape'
        BY <3>1 DEF UInv, Fresh, SockShape, Born
      <3>4. Stacks'
        BY <3>1 DEF UInv, Stacks, StartedOnly, Served
      <3> QED
        BY <3>2, <3>3, <3>4 DEF UInv
    <2> QED
      BY <2>1, <2>2
  <1>2. UInv => UsersServed
    <2> SUFFICES ASSUME UInv, NEW fd \in DOMAIN usersById PROVE WorkedOn(fd)
      BY DEF UsersServed
    <2>1. PICK c \in DOMAIN fdOf : fdOf[c] = fd /\ Committed(todo[c], fd)
      BY DEF UInv, Stacks, Served
    <2>2. todo[c] # <<>>
      <3>1. Len(<<>>) = 0
        OBVIOUS
      <3> QED
        BY <2>1, <3>1 DEF Committed
    <2> QED
      BY <2>1, <2>2 DEF WorkedOn
  <1> QED
    BY UInvInit, <1>1, <1>2, PTL DEF Spec
==============================================================================
