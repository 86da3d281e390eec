------------------------------ MODULE MCReactor ------------------------------
(* Instances of Reactor: two or three connections, two users, two rooms.   *)
EXTENDS Reactor, TLC

CONSTANTS c1, c2, c3

TwoClients == {c1, c2}
ThreeClients == {c1, c2, c3}

(* Sound where no temporal property but []-[A]_v is checked: clients       *)
(* differ in nothing.                                                      *)
Symmetry == Permutations(TwoClients)

Names == {"alice", "bob", ""}
Nobody == {""}
GoodNames == Names \ Nobody
SameCase == [u \in Names |-> u]
Rooms == {"general", "gaming"}

Register(u) == [type |-> "USER_REGISTER", arg |-> u]
Say == [type |-> "CHAT_MESSAGE", arg |-> ""]
Whisper(u) == [type |-> "PRIVATE_MESSAGE", arg |-> u]
Enter(r) == [type |-> "JOIN_ROOM", arg |-> r]
Plain(t) == [type |-> t, arg |-> ""]

(* Arrivals only.                                                          *)
Registrations == {Register("alice"), Register("bob")}

(* Two users who talk.                                                     *)
Talk == {Register("alice"), Register("bob"), Say}

(* Every command.                                                          *)
Commands ==
    {Register("alice"), Register("bob"), Say, Whisper("alice"), Enter("gaming"),
     Plain("LEAVE_ROOM"), Plain("LIST_USERS"), Plain("DISCONNECT")}

(* Arrivals and clients that do not speak the protocol.                    *)
Probes == Registrations \cup {Plain("CORRUPTED")}
==============================================================================
