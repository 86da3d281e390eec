----------------------------- MODULE MessageStore -----------------------------
(***************************************************************************)
(* The gateway's store as a process: the data in memory and the JSON file  *)
(* that every change rewrites in place.  A write can throw, which is only  *)
(* logged, or be cut short by a crash; either may leave a file that does   *)
(* not parse.  The next start reads what is there.                         *)
(***************************************************************************)
EXTENDS StoreData

CONSTANTS
    MaxSaved,  (* bound on the messages of one life of the process          *)
    Author     (* bound on who writes them                                  *)

ASSUME MessageStoreAssumption == MaxSaved \in Nat /\ Author \subseteq Handle

VARIABLES
    data,    (* this.data; meaningless while ~up                            *)
    file,    (* [state, data]: the file absent, torn or whole               *)
    up,      (* the process runs                                            *)
    log,     (* history: the messages loaded and saved in this life         *)
    stale    (* history: the last write, or the last read, failed           *)

vars == <<data, file, up, log, stale>>

Absent == [state |-> "absent", data |-> Defaults]
Torn == [state |-> "torn", data |-> Defaults]
Whole(d) == [state |-> "whole", data |-> d]

(* The process is about to start for the first time.                       *)
Init ==
    /\ data = Defaults
    /\ file = Absent
    /\ up = FALSE
    /\ log = << >>
    /\ stale = FALSE

(* save(): writeFileSync truncates the file and then writes.  It succeeds, *)
(* throws before or after the truncation, or dies with the process.        *)
Save(d) ==
    \/ file' = Whole(d) /\ stale' = FALSE /\ up' = TRUE
    \/ file' \in {file, Torn} /\ stale' = TRUE /\ up' \in BOOLEAN

------------------------------------------------------------------------------
(* The methods that change something.                                      *)

ValidateAndRegisterUser(u, e) ==
    /\ up
    /\ AccountGranted(data, u, e)
    /\ data' = WithAccount(data, u, e)
    /\ Save(data')
    /\ UNCHANGED log

(* A new room waits in memory for the next message to be written.          *)
BadCreateOrJoinRoom(r, p) ==
    /\ up
    /\ RoomGranted(data, r, p)
    /\ StoredRoom[r] \notin DOMAIN data.rooms
    /\ data' = WithRoom(data, r, p)
    /\ UNCHANGED <<file, up, stale, log>>

(* Whoever enters an open room with a password protects it.                *)
BadCreateOrJoinRoomLocks(r, p) ==
    /\ up
    /\ RoomGranted(data, r, p)
    /\ data' = [WithRoom(data, r, p) EXCEPT !.rooms[StoredRoom[r]] = p]
    /\ Save(data')
    /\ UNCHANGED log

(* A room that is known is not written again.                              *)
CreateOrJoinRoom(r, p) ==
    /\ up
    /\ RoomGranted(data, r, p)
    /\ StoredRoom[r] \notin DOMAIN data.rooms
    /\ data' = WithRoom(data, r, p)
    /\ Save(data')
    /\ UNCHANGED log

SaveMessage(r, h, x) ==
    /\ up
    /\ Len(log) < MaxSaved
    /\ data' = WithRoomMessage(data, RoomMessage(r, h, x))
    /\ log' = Append(log, RoomMessage(r, h, x))
    /\ Save(data')

SaveDirectMessage(h, t, x) ==
    /\ up
    /\ Len(log) < MaxSaved
    /\ data' = WithDirectMessage(data, DirectMessage(h, t, x))
    /\ log' = Append(log, DirectMessage(h, t, x))
    /\ Save(data')

(* The process ends between two calls, its last write done or failed.      *)
Crash ==
    /\ up
    /\ up' = FALSE
    /\ UNCHANGED <<data, file, log, stale>>

(* A file that does not parse leaves the store without its rooms.          *)
BadLoad ==
    \/ /\ file.state = "whole"
       /\ data' = file.data
       /\ stale' = FALSE
    \/ /\ data' = [Defaults EXCEPT !.rooms = [k \in {} |-> NoPassword]]
       /\ stale' = TRUE

(* init() on a file that is there: it parses, or the constructor's data    *)
(* stay and the file is left as it is.  A read may fail like a write.      *)
Load ==
    \/ /\ file.state = "whole"
       /\ data' = file.data
       /\ stale' = FALSE
    \/ /\ data' = Defaults
       /\ stale' = TRUE

Start ==
    /\ ~up
    /\ IF file.state = "absent"
       THEN data' = Defaults /\ Save(data')
       ELSE Load /\ up' = TRUE /\ UNCHANGED file
    /\ log' = data'.messages

Next ==
    \/ \E u \in Username, e \in Email : ValidateAndRegisterUser(u, e)
    \/ \E r \in RoomName, p \in Password \cup {NoPassword} :
          CreateOrJoinRoom(r, p)
    \/ \E h \in Author, x \in Text :
          \/ \E r \in RoomName \ {NoRoom} : SaveMessage(r, h, x)
          \/ \E t \in Handle : SaveDirectMessage(h, t, x)
    \/ Crash
    \/ Start

Spec == Init /\ [][Next]_vars

------------------------------------------------------------------------------
(* Memory and file keep the schema, and every default room stays in both.  *)
TypeOK ==
    /\ data \in Data
    /\ file.data \in Data
    /\ file \in {Absent, Torn, Whole(file.data)}
    /\ up \in BOOLEAN
    /\ stale \in BOOLEAN
    /\ log \in Seq(Message)
    /\ DefaultRooms \subseteq DOMAIN data.rooms \cap DOMAIN file.data.rooms

(* An e-mail address has one account, whatever handles it has claimed and  *)
(* whatever the process was started from (validateAndRegisterUser).        *)
OneAccountPerEmail == OneAccount(data) /\ OneAccount(file.data)

(* While the process runs, an address that has an account keeps one, and   *)
(* a handle passes to another address only after it has been given back:   *)
(* nobody is put in the place of an account that exists.                   *)
AccountsSteady ==
    [][up =>
          /\ \A a \in Address : Owners(data, a) # {} => Owners(data', a) # {}
          /\ \A h \in DOMAIN data.users \cap DOMAIN data'.users :
                data'.users[h] = data.users[h]]_vars

(* While the process runs, a room's protection never changes: nobody who   *)
(* was let in is locked out later, and no protected room opens.            *)
RoomLockSteady ==
    [][up => \A k \in DOMAIN data.rooms :
                k \in DOMAIN data'.rooms /\ data'.rooms[k] = data.rooms[k]]_vars

(* Whatever order requests come in, what one user was granted, an account  *)
(* or a room with its protection, no request of another takes away.        *)
GrantsSteady == AccountsSteady /\ RoomLockSteady

(* The list holds the last messages in the order they were saved, with no  *)
(* gap, and at least ChatCap of them when there were as many.              *)
Recent(s, all) ==
    /\ Len(s) <= Len(all)
    /\ Len(s) <= DmCap
    /\ Len(s) >= ChatCap \/ Len(s) = Len(all)
    /\ \A i \in 1..Len(s) : s[i] = all[Len(all) - Len(s) + i]

HistoryIsRecent == Recent(data.messages, log)

(* Unless the last access to the file failed, the file holds what the      *)
(* memory holds, so a start finds everything (save in every method that    *)
(* changes something).                                                     *)
FileCurrent == ~stale => file \in {Whole(data), Absent}
==============================================================================
