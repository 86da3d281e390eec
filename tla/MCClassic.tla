------------------------------ MODULE MCClassic ------------------------------
(* An instance of Classic: two connections, two names, two rooms.          *)
EXTENDS Classic, TLC

CONSTANTS c1, c2

TwoClients == {c1, c2}

(* Clients differ in nothing.                                              *)
Symmetry == Permutations(TwoClients)

Names == {"alice", "bob", ""}
Nobody == {""}
GoodNames == Names \ Nobody
SameCase == [u \in Names |-> u]
Rooms == {"general", "gaming"}

Register(u) == [type |-> "USER_REGISTER", arg |-> u]
Plain(t) == [type |-> t, arg |-> ""]

(* Every command.                                                          *)
Commands ==
    {Register("alice"), Register("bob"), [type |-> "JOIN_ROOM", arg |-> "gaming"],
     [type |-> "PRIVATE_MESSAGE", arg |-> "alice"]}
      \cup {Plain(t) : t \in {"CHAT_MESSAGE", "LEAVE_ROOM", "HEARTBEAT",
                              "DISCONNECT", "CORRUPTED"}}
==============================================================================
