------------------------------ MODULE StoreData ------------------------------
(***************************************************************************)
(* The data of the gateway's store (gateway/src/db.ts) and what its        *)
(* methods compute of it.  MessageStore adds the file behind it, Gateway   *)
(* the sessions that call it.                                              *)
(*                                                                         *)
(* Avatars, display names, clock readings and generated message ids are    *)
(* left out.  Passwords stand for their trimmed text.                      *)
(***************************************************************************)
EXTENDS Naturals, Sequences

CONSTANTS
    Username,      (* spellings of a name a browser may send                *)
    HandleOf,      (* trimmed, in lower case; NoHandle for a blank one      *)
    NoHandle,
    Email,         (* spellings of an e-mail address, a missing one too     *)
    CleanEmail,    (* trimmed, in lower case; NoEmail if missing or blank   *)
    NoEmail,
    RoomName,      (* room names a browser may send, trimmed                *)
    LowerRoom,     (* in lower case                                         *)
    StoredRoom,    (* that, with _ for what is not in [A-Za-z0-9_-]         *)
    NoRoom,        (* the empty name                                        *)
    Password,      (* passwords of rooms                                    *)
    NoPassword,    (* none given, or a blank one                            *)
    DefaultRooms,  (* general, engineering, gaming                          *)
    Text,          (* what people write                                     *)
    ChatCap,       (* 5000: the list's length after a chat message          *)
    DmCap,         (* 10000: the list's length after a private one          *)
    HistoryLimit,  (* 50: room messages replayed                            *)
    DmLimit        (* 200: private messages replayed                        *)

Handle == {HandleOf[u] : u \in Username} \ {NoHandle}
Address == {CleanEmail[e] : e \in Email} \ {NoEmail}
RoomKey == {StoredRoom[r] : r \in RoomName} \ {NoRoom}

ASSUME StoreAssumption ==
    /\ NoEmail \notin Address
    /\ DefaultRooms \subseteq RoomKey
    /\ NoPassword \notin Password
    /\ ChatCap \in Nat \ {0}
    /\ DmCap \in Nat
    /\ ChatCap <= DmCap

(* A room message has a room, a private one a target.                      *)
Message ==
    [room : {LowerRoom[r] : r \in RoomName}, sender : Handle, text : Text,
     private : {FALSE}]
    \cup
    [target : Handle, sender : Handle, text : Text, private : {TRUE}]

(* The schema: handle |-> address (NoEmail for a guest's account), room's  *)
(* key |-> password (NoPassword for an open one), the list.                *)
Data == [users : UNION {[D -> Address \cup {NoEmail}] : D \in SUBSET Handle},
         rooms : UNION {[D -> Password \cup {NoPassword}] : D \in SUBSET RoomKey},
         messages : Seq(Message)]

(* What the constructor starts from.                                       *)
Defaults ==
    [users |-> [h \in {} |-> NoEmail],
     rooms |-> [r \in DefaultRooms |-> NoPassword],
     messages |-> << >>]

Slice(s, n) == IF Len(s) > n THEN SubSeq(s, Len(s) - n + 1, Len(s)) ELSE s

------------------------------------------------------------------------------
(* Accounts.                                                               *)

Owners(d, a) == {h \in DOMAIN d.users : d.users[h] = a}

OneAccount(d) == \A a \in Address : \A g, h \in Owners(d, a) : g = h

(* Any address gets any handle.                                            *)
BadAccountGranted(d, u, e) ==
    /\ HandleOf[u] # NoHandle
    /\ HandleOf[u] \in DOMAIN d.users => CleanEmail[e] # NoEmail

(* The name is free, or it is this address's own account.                  *)
AccountGranted(d, u, e) ==
    /\ HandleOf[u] # NoHandle
    /\ HandleOf[u] \in DOMAIN d.users =>
          /\ CleanEmail[e] # NoEmail
          /\ d.users[HandleOf[u]] = CleanEmail[e]

(* The one account findUserByEmail returns when the address has any.       *)
FreedHandle(d, a) ==
    IF a = NoEmail \/ Owners(d, a) = {} THEN {}
    ELSE {CHOOSE h \in Owners(d, a) : TRUE}

(* The old handle of an address stays beside the new one.                  *)
BadWithAccount(d, u, e) ==
    [d EXCEPT !.users = [x \in DOMAIN d.users \cup {HandleOf[u]} |->
        IF x = HandleOf[u] THEN CleanEmail[e] ELSE d.users[x]]]

(* An address that claims a free handle gives its old one back.            *)
WithAccount(d, u, e) ==
    LET h == HandleOf[u]
        a == CleanEmail[e]
        kept == IF h \in DOMAIN d.users THEN DOMAIN d.users
                ELSE DOMAIN d.users \ FreedHandle(d, a)
    IN  [d EXCEPT !.users = [x \in kept \cup {h} |->
            IF x = h THEN a ELSE d.users[x]]]

------------------------------------------------------------------------------
(* Rooms.                                                                  *)

RoomGranted(d, r, p) ==
    /\ StoredRoom[r] # NoRoom
    /\ StoredRoom[r] \in DOMAIN d.rooms =>
          d.rooms[StoredRoom[r]] \in {NoPassword, p}

(* A room that is not known is made, with the password given.              *)
WithRoom(d, r, p) ==
    LET k == StoredRoom[r]
    IN  IF k \in DOMAIN d.rooms THEN d
        ELSE [d EXCEPT !.rooms = [x \in DOMAIN d.rooms \cup {k} |->
                IF x = k THEN p ELSE d.rooms[x]]]

------------------------------------------------------------------------------
(* Messages: one list for rooms and private conversations.                 *)

RoomMessage(r, h, x) ==
    [room |-> LowerRoom[r], sender |-> h, text |-> x, private |-> FALSE]

DirectMessage(h, t, x) ==
    [target |-> t, sender |-> h, text |-> x, private |-> TRUE]

(* The oldest are kept instead of the newest.                              *)
BadWithRoomMessage(d, m) ==
    LET s == Append(d.messages, m)
    IN  [d EXCEPT !.messages =
            IF Len(s) > ChatCap THEN SubSeq(s, 1, ChatCap) ELSE s]

WithRoomMessage(d, m) ==
    [d EXCEPT !.messages = Slice(Append(@, m), ChatCap)]

WithDirectMessage(d, m) ==
    [d EXCEPT !.messages = Slice(Append(@, m), DmCap)]

(* filter: the elements at these positions.                                *)
Picked(s, positions) ==
    LET first[i \in 0 .. Len(s)] ==
            IF i = 0 THEN << >>
            ELSE IF i \in positions THEN Append(first[i - 1], s[i])
            ELSE first[i - 1]
    IN  first[Len(s)]

RoomHistory(d, r) ==
    LET InRoom(m) == ~m.private /\ m.room = LowerRoom[r]
    IN  Slice(Picked(d.messages, {i \in DOMAIN d.messages : InRoom(d.messages[i])}),
              HistoryLimit)

DirectMessages(d, h) ==
    LET Party(m) == m.private /\ h \in {m.sender, m.target}
    IN  Slice(Picked(d.messages, {i \in DOMAIN d.messages : Party(d.messages[i])}),
              DmLimit)
==============================================================================
