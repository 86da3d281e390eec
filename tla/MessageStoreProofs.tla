-------------------------- MODULE MessageStoreProofs --------------------------
(***************************************************************************)
(* What holds of the store through every write that fails and every start  *)
(* from whatever file is left.                                             *)
(***************************************************************************)
EXTENDS MessageStore, SequenceTheorems, TLAPS

(* What the store's methods make of its data, for any users, addresses,    *)
(* rooms, passwords and caps: what an account, a room or a message adds,   *)
(* and what it leaves alone.                                               *)

Accounts == UNION {[D -> Address \cup {NoEmail}] : D \in SUBSET Handle}
Locks == UNION {[D -> Password \cup {NoPassword}] : D \in SUBSET RoomKey}

(* The last n elements of a sequence are a sequence of that length, whose  *)
(* elements are counted from the end.                                      *)
LEMMA SliceProperties ==
    ASSUME NEW S, NEW s \in Seq(S), NEW n \in Nat
    PROVE  /\ Slice(s, n) \in Seq(S)
           /\ Len(Slice(s, n)) = IF Len(s) > n THEN n ELSE Len(s)
           /\ \A i \in 1 .. Len(Slice(s, n)) :
                 Slice(s, n)[i] = s[Len(s) - Len(Slice(s, n)) + i]
  <1>1. Len(s) \in Nat
    BY LenProperties
  <1>2. CASE Len(s) > n
    <2>1. \A i \in (Len(s) - n + 1) .. Len(s) : s[i] \in S
      BY <1>1, <1>2, ElementOfSeq
    <2>2. /\ SubSeq(s, Len(s) - n + 1, Len(s)) \in Seq(S)
          /\ Len(SubSeq(s, Len(s) - n + 1, Len(s))) =
                IF Len(s) - n + 1 <= Len(s) THEN Len(s) - (Len(s) - n + 1) + 1 ELSE 0
          /\ \A i \in 1 .. Len(s) - (Len(s) - n + 1) + 1 :
                SubSeq(s, Len(s) - n + 1, Len(s))[i] = s[Len(s) - n + 1 + i - 1]
      <3> DEFINE m == Len(s) - n + 1
      <3>1. m \in Int /\ Len(s) \in Int
        BY <1>1
      <3> HIDE DEF m
      <3>2. (\A i \in m .. Len(s) : s[i] \in S) =>
               /\ SubSeq(s, m, Len(s)) \in Seq(S)
               /\ Len(SubSeq(s, m, Len(s))) =
                     IF m <= Len(s) THEN Len(s) - m + 1 ELSE 0
               /\ \A i \in 1 .. Len(s) - m + 1 :
                     SubSeq(s, m, Len(s))[i] = s[m + i - 1]
        BY <3>1, SubSeqProperties
      <3> QED
        BY <2>1, <3>2 DEF m
    <2> DEFINE t == SubSeq(s, Len(s) - n + 1, Len(s))
    <2>3. Slice(s, n) = t
      BY <1>2 DEF Slice
    <2> HIDE DEF t
    <2>4. Len(t) = n
      BY <1>1, <1>2, <2>2 DEF t
    <2>5. \A i \in 1 .. n : t[i] = s[Len(s) - n + i]
      <3> SUFFICES ASSUME NEW i \in 1 .. n PROVE t[i] = s[Len(s) - n + i]
        OBVIOUS
      <3>1. /\ i \in 1 .. Len(s) - (Len(s) - n + 1) + 1
            /\ Len(s) - n + 1 + i - 1 = Len(s) - n + i
        BY <1>1
      <3> QED
        BY <2>2, <3>1 DEF t
    <2>6. t \in Seq(S)
      BY <2>2 DEF t
    <2> QED
      BY <1>2, <2>3, <2>4, <2>5, <2>6
  <1>3. CASE ~(Len(s) > n)
    <2>1. Slice(s, n) = s
      BY <1>3 DEF Slice
    <2>2. \A i \in 1 .. Len(s) : Len(s) - Len(s) + i = i
      BY <1>1
    <2> QED
      BY <1>3, <2>1, <2>2
  <1> QED
    BY <1>2, <1>3

(* An account that is granted fits the schema.                             *)
LEMMA WithAccountType ==
    ASSUME NEW d \in Data, NEW u \in Username, NEW e \in Email,
           AccountGranted(d, u, e)
    PROVE  WithAccount(d, u, e) \in Data
  <1> DEFINE h == HandleOf[u]
             a == CleanEmail[e]
             kept == IF h \in DOMAIN d.users THEN DOMAIN d.users
                     ELSE DOMAIN d.users \ FreedHandle(d, a)
             new == [x \in kept \cup {h} |-> IF x = h THEN a ELSE d.users[x]]
  <1>1. h \in Handle /\ a \in Address \cup {NoEmail}
    BY DEF AccountGranted, Handle, Address
  <1>2. PICK D \in SUBSET Handle : d.users \in [D -> Address \cup {NoEmail}]
    BY DEF Data
  <1>3. kept \subseteq D
    BY <1>2
  <1> HIDE DEF h, a, kept
  <1>4. new \in [kept \cup {h} -> Address \cup {NoEmail}]
    BY <1>1, <1>2, <1>3
  <1>5. new \in Accounts
    <2>1. kept \cup {h} \in SUBSET Handle
      BY <1>1, <1>2, <1>3
    <2> QED
      BY <1>4, <2>1 DEF Accounts
  <1> HIDE DEF new
  <1>6. [d EXCEPT !.users = new] \in Data
    BY <1>5 DEF Data, Accounts
  <1>7. WithAccount(d, u, e) = [d EXCEPT !.users = new]
    BY DEF WithAccount, new, kept, h, a
  <1> QED
    BY <1>6, <1>7

(* It is its address's only account, and what it changes are its own entry *)
(* and one that the address gives up.                                      *)
LEMMA WithAccountOwners ==
    ASSUME NEW d \in Data, NEW u \in Username, NEW e \in Email,
           AccountGranted(d, u, e), OneAccount(d)
    PROVE  LET n == WithAccount(d, u, e)
           IN  /\ OneAccount(n)
               /\ \A a \in Address : Owners(d, a) # {} => Owners(n, a) # {}
               /\ \A x \in DOMAIN d.users \cap DOMAIN n.users :
                     n.users[x] = d.users[x]
               /\ n.rooms = d.rooms /\ n.messages = d.messages
  <1> DEFINE h == HandleOf[u]
             a == CleanEmail[e]
             n == WithAccount(d, u, e)
             users == DOMAIN d.users
             freed == FreedHandle(d, a)
  <1>1. /\ n.rooms = d.rooms /\ n.messages = d.messages
        /\ n.users = [x \in (IF h \in users THEN users ELSE users \ freed) \cup {h} |->
                        IF x = h THEN a ELSE d.users[x]]
    BY DEF WithAccount, Data
  <1>2. h \in users => a # NoEmail /\ d.users[h] = a
    BY DEF AccountGranted
  <1>3. a = NoEmail \/ Owners(d, a) = {} \/ a \notin Address \/ Owners(d, a) = freed
    <2> SUFFICES ASSUME a # NoEmail, Owners(d, a) # {}, a \in Address
                 PROVE  Owners(d, a) = freed
      OBVIOUS
    <2>1. freed = {CHOOSE g \in Owners(d, a) : TRUE}
      BY DEF FreedHandle
    <2>2. (CHOOSE g \in Owners(d, a) : TRUE) \in Owners(d, a)
      OBVIOUS
    <2> QED
      BY <2>1, <2>2 DEF OneAccount
  <1>4. freed \subseteq Owners(d, a)
    BY DEF FreedHandle
  <1>5. a # NoEmail => a \in Address
    BY DEF Address
  <1>6. NoEmail \notin Address
    BY StoreAssumption
  <1> HIDE DEF h, a, n, freed
  <1>7. \A b \in Address : Owners(n, b) =
            IF b = a THEN {h} ELSE Owners(d, b)
    <2> SUFFICES ASSUME NEW b \in Address
                 PROVE  Owners(n, b) = IF b = a THEN {h} ELSE Owners(d, b)
      OBVIOUS
    <2>1. CASE h \in users
      <3>1. Owners(n, b) = Owners(d, b)
        BY <1>1, <1>2, <2>1 DEF Owners
      <3>2. b = a => Owners(d, b) = {h}
        BY <1>2, <2>1 DEF Owners, OneAccount
      <3> QED
        BY <3>1, <3>2
    <2>2. CASE h \notin users /\ b = a
      <3>1. \A x \in users \ freed : d.users[x] # a
        BY <1>3, <1>6, <2>2 DEF Owners
      <3> QED
        BY <1>1, <2>2, <3>1 DEF Owners
    <2>3. CASE h \notin users /\ b # a
      <3>1. \A x \in users : d.users[x] = b => x \notin freed
        BY <1>4, <2>3 DEF Owners
      <3> QED
        BY <1>1, <2>3, <3>1 DEF Owners
    <2> QED
      BY <2>1, <2>2, <2>3
  <1>8. OneAccount(n)
    BY <1>7 DEF OneAccount
  <1>9. \A b \in Address : Owners(d, b) # {} => Owners(n, b) # {}
    BY <1>7
  <1>10. \A x \in users \cap DOMAIN n.users : n.users[x] = d.users[x]
    BY <1>1, <1>2
  <1> QED
    BY <1>1, <1>8, <1>9, <1>10 DEF n

(* A room that is made fits the schema, and no other changes.              *)
LEMMA WithRoomType ==
    ASSUME NEW d \in Data, NEW r \in RoomName,
           NEW p \in Password \cup {NoPassword}, RoomGranted(d, r, p)
    PROVE  /\ WithRoom(d, r, p) \in Data
           /\ WithRoom(d, r, p).users = d.users
           /\ WithRoom(d, r, p).messages = d.messages
           /\ \A k \in DOMAIN d.rooms :
                 /\ k \in DOMAIN WithRoom(d, r, p).rooms
                 /\ WithRoom(d, r, p).rooms[k] = d.rooms[k]
  <1> DEFINE k == StoredRoom[r]
             new == [x \in DOMAIN d.rooms \cup {k} |->
                        IF x = k THEN p ELSE d.rooms[x]]
  <1>1. k \in RoomKey
    BY DEF RoomGranted, RoomKey
  <1>2. PICK K \in SUBSET RoomKey : d.rooms \in [K -> Password \cup {NoPassword}]
    BY DEF Data
  <1>3. CASE k \in DOMAIN d.rooms
    BY <1>3 DEF WithRoom
  <1>4. CASE k \notin DOMAIN d.rooms
    <2>1. new \in [K \cup {k} -> Password \cup {NoPassword}]
      BY <1>2
    <2>2. new \in Locks
      BY <1>1, <2>1 DEF Locks
    <2>3. \A x \in DOMAIN d.rooms : x \in DOMAIN new /\ new[x] = d.rooms[x]
      BY <1>4
    <2>4. WithRoom(d, r, p) = [d EXCEPT !.rooms = new]
      BY <1>4 DEF WithRoom
    <2> HIDE DEF new
    <2> QED
      BY <2>2, <2>3, <2>4 DEF Data, Locks
  <1> QED
    BY <1>3, <1>4

(* So does a message, which changes the list only.                         *)
LEMMA WithMessageType ==
    ASSUME NEW d \in Data, NEW x \in Message
    PROVE  /\ WithRoomMessage(d, x) = [d EXCEPT !.messages = Slice(Append(d.messages, x), ChatCap)]
           /\ WithDirectMessage(d, x) = [d EXCEPT !.messages = Slice(Append(d.messages, x), DmCap)]
           /\ WithRoomMessage(d, x) \in Data
           /\ WithDirectMessage(d, x) \in Data
  <1>1. d.messages \in Seq(Message) /\ Append(d.messages, x) \in Seq(Message)
    BY AppendProperties DEF Data
  <1>2. /\ Slice(Append(d.messages, x), ChatCap) \in Seq(Message)
        /\ Slice(Append(d.messages, x), DmCap) \in Seq(Message)
    BY <1>1, SliceProperties, StoreAssumption
  <1> QED
    BY <1>2 DEF WithRoomMessage, WithDirectMessage, Data

(* What the constructor starts from fits the schema.                       *)
LEMMA DefaultsType ==
    /\ Defaults \in Data
    /\ Defaults.messages = << >>
    /\ DOMAIN Defaults.rooms = DefaultRooms
    /\ OneAccount(Defaults)
  <1> DEFINE nobody == [h \in {} |-> NoEmail]
             open == [r \in DefaultRooms |-> NoPassword]
  <1>1. nobody \in [{} -> Address \cup {NoEmail}] /\ DOMAIN nobody = {}
    OBVIOUS
  <1>2. open \in [DefaultRooms -> Password \cup {NoPassword}] /\ DOMAIN open = DefaultRooms
    OBVIOUS
  <1>3. Defaults = [users |-> nobody, rooms |-> open, messages |-> << >>]
    BY DEF Defaults
  <1> HIDE DEF nobody, open
  <1>4. nobody \in Accounts /\ open \in Locks
    BY <1>1, <1>2, StoreAssumption DEF Accounts, Locks
  <1>5. << >> \in Seq(Message)
    BY EmptySeq
  <1> QED
    BY <1>1, <1>2, <1>3, <1>4, <1>5 DEF Data, Accounts, Locks, OneAccount, Owners

------------------------------------------------------------------------------

(* A message that is appended to a recent list, cut to any of the caps,    *)
(* gives a recent list.                                                    *)
LEMMA RecentAppend ==
    ASSUME NEW S, NEW s \in Seq(S), NEW all \in Seq(S), NEW x \in S,
           Recent(s, all), NEW cap \in {ChatCap, DmCap}
    PROVE  Recent(Slice(Append(s, x), cap), Append(all, x))
  <1> DEFINE s1 == Append(s, x)
             a1 == Append(all, x)
             r == Slice(s1, cap)
  <1>1. /\ Len(s) \in Nat /\ Len(all) \in Nat
        /\ ChatCap \in Nat /\ DmCap \in Nat /\ cap \in Nat
        /\ ChatCap <= cap /\ cap <= DmCap
    BY LenProperties, StoreAssumption
  <1>2. /\ s1 \in Seq(S) /\ Len(s1) = Len(s) + 1
        /\ \A i \in 1 .. Len(s) : s1[i] = s[i]
        /\ s1[Len(s) + 1] = x
    BY AppendProperties
  <1>3. /\ Len(a1) = Len(all) + 1
        /\ \A i \in 1 .. Len(all) : a1[i] = all[i]
        /\ a1[Len(all) + 1] = x
    BY AppendProperties
  <1>4. /\ Len(r) = IF Len(s1) > cap THEN cap ELSE Len(s1)
        /\ \A i \in 1 .. Len(r) : r[i] = s1[Len(s1) - Len(r) + i]
    BY <1>1, <1>2, SliceProperties
  <1> HIDE DEF s1, a1, r
  <1>5. /\ Len(s) <= Len(all)
        /\ Len(s) >= ChatCap \/ Len(s) = Len(all)
        /\ \A i \in 1 .. Len(s) : s[i] = all[Len(all) - Len(s) + i]
    BY DEF Recent
  <1>6. \A j \in 1 .. Len(s1) : s1[j] = a1[Len(a1) - Len(s1) + j]
    <2> SUFFICES ASSUME NEW j \in 1 .. Len(s) + 1
                 PROVE  s1[j] = a1[Len(all) - Len(s) + j]
      BY <1>1, <1>2, <1>3
    <2>1. CASE j = Len(s) + 1
      BY <1>1, <1>2, <1>3, <2>1
    <2>2. CASE j \in 1 .. Len(s)
      <3>1. Len(all) - Len(s) + j \in 1 .. Len(all)
        BY <1>1, <1>5, <2>2
      <3> QED
        BY <1>2, <1>3, <1>5, <2>2, <3>1
    <2> QED
      BY <1>1, <2>1, <2>2
  <1>7. /\ Len(r) \in Nat /\ Len(r) <= Len(s1) /\ Len(r) <= cap
    BY <1>1, <1>2, <1>4
  <1>8. \A i \in 1 .. Len(r) : r[i] = a1[Len(a1) - Len(r) + i]
    <2> SUFFICES ASSUME NEW i \in 1 .. Len(r)
                 PROVE  r[i] = a1[Len(a1) - Len(r) + i]
      OBVIOUS
    <2>1. Len(s1) - Len(r) + i \in 1 .. Len(s1)
      BY <1>1, <1>2, <1>7
    <2>2. Len(a1) - Len(s1) + (Len(s1) - Len(r) + i) = Len(a1) - Len(r) + i
      BY <1>1, <1>2, <1>3, <1>7
    <2> QED
      BY <1>4, <1>6, <2>1, <2>2
  <1>9. Len(r) <= Len(a1) /\ Len(r) <= DmCap
    BY <1>1, <1>2, <1>3, <1>5, <1>7
  <1>10. Len(r) >= ChatCap \/ Len(r) = Len(a1)
    BY <1>1, <1>2, <1>3, <1>4, <1>5
  <1> QED
    BY <1>8, <1>9, <1>10 DEF Recent, s1, a1, r

(* The messages that the methods make of what they are given.              *)
LEMMA MessageType ==
    ASSUME NEW h \in Author, NEW x \in Text
    PROVE  /\ \A r \in RoomName : RoomMessage(r, h, x) \in Message
           /\ \A t \in Handle : DirectMessage(h, t, x) \in Message
  BY MessageStoreAssumption DEF RoomMessage, DirectMessage, Message

------------------------------------------------------------------------------
(* The steps.                                                              *)

(* Every step is one of four: it changes the data, as far as accounts,     *)
(* locks and the list of messages allow, and writes them; it stops; it     *)
(* starts; or it changes nothing.                                          *)
Steady(d) ==
    /\ \A a \in Address : Owners(data, a) # {} => Owners(d, a) # {}
    /\ \A h \in DOMAIN data.users \cap DOMAIN d.users : d.users[h] = data.users[h]

Locked(d) ==
    \A k \in DOMAIN data.rooms :
        k \in DOMAIN d.rooms /\ d.rooms[k] = data.rooms[k]

Grows(d) ==
    \/ d.messages = data.messages /\ log' = log
    \/ \E x \in Message, cap \in {ChatCap, DmCap} :
          /\ d.messages = Slice(Append(data.messages, x), cap)
          /\ log' = Append(log, x)

Changes ==
    /\ up
    /\ data' \in Data
    /\ OneAccount(data) => OneAccount(data') /\ Steady(data')
    /\ Locked(data')
    /\ Grows(data')
    /\ Save(data')

(* Equal accounts are steady, equal rooms are locked.                      *)
LEMMA SameIsSteady ==
    ASSUME NEW d
    PROVE  /\ d.users = data.users => (OneAccount(data) => OneAccount(d)) /\ Steady(d)
           /\ d.rooms = data.rooms => Locked(d)
  BY DEF OneAccount, Owners, Steady, Locked

(* The steps of the methods, seen so.                                      *)
LEMMA MethodsChange ==
    ASSUME TypeOK, Next
    PROVE  Changes \/ Crash \/ Start
  <1>1. ASSUME NEW u \in Username, NEW e \in Email, ValidateAndRegisterUser(u, e)
        PROVE  Changes
    <2>1. data' \in Data /\ data' = WithAccount(data, u, e)
      BY <1>1, WithAccountType DEF TypeOK, ValidateAndRegisterUser
    <2>2. data'.rooms = data.rooms /\ data'.messages = data.messages
      BY <2>1 DEF WithAccount, TypeOK, Data
    <2>3. OneAccount(data) => OneAccount(data') /\ Steady(data')
      BY <1>1, <2>1, WithAccountOwners DEF TypeOK, ValidateAndRegisterUser, Steady
    <2> QED
      BY <1>1, <2>1, <2>2, <2>3, SameIsSteady DEF ValidateAndRegisterUser, Changes, Grows
  <1>2. ASSUME NEW r \in RoomName, NEW p \in Password \cup {NoPassword},
               CreateOrJoinRoom(r, p)
        PROVE  Changes
    <2>1. /\ data' \in Data
          /\ data'.users = data.users
          /\ data'.messages = data.messages
          /\ Locked(data')
      BY <1>2, WithRoomType DEF TypeOK, CreateOrJoinRoom, Locked
    <2> QED
      BY <1>2, <2>1, SameIsSteady DEF CreateOrJoinRoom, Changes, Grows
  <1>3. ASSUME NEW h \in Author, NEW x \in Text, NEW r \in RoomName, SaveMessage(r, h, x)
        PROVE  Changes
    <2> DEFINE m == RoomMessage(r, h, x)
    <2>1. m \in Message
      BY MessageType
    <2> HIDE DEF m
    <2>2. /\ data' = WithRoomMessage(data, m) /\ data' \in Data
          /\ data' = [data EXCEPT !.messages = Slice(Append(data.messages, m), ChatCap)]
          /\ log' = Append(log, m)
      BY <1>3, <2>1, WithMessageType DEF TypeOK, SaveMessage, m
    <2>3. /\ data'.users = data.users /\ data'.rooms = data.rooms
          /\ data'.messages = Slice(Append(data.messages, m), ChatCap)
      BY <2>2 DEF TypeOK, Data
    <2> QED
      BY <1>3, <2>1, <2>2, <2>3, SameIsSteady DEF SaveMessage, Changes, Grows
  <1>4. ASSUME NEW h \in Author, NEW x \in Text, NEW t \in Handle, SaveDirectMessage(h, t, x)
        PROVE  Changes
    <2> DEFINE m == DirectMessage(h, t, x)
    <2>1. m \in Message
      BY MessageType
    <2> HIDE DEF m
    <2>2. /\ data' = WithDirectMessage(data, m) /\ data' \in Data
          /\ data' = [data EXCEPT !.messages = Slice(Append(data.messages, m), DmCap)]
          /\ log' = Append(log, m)
      BY <1>4, <2>1, WithMessageType DEF TypeOK, SaveDirectMessage, m
    <2>3. /\ data'.users = data.users /\ data'.rooms = data.rooms
          /\ data'.messages = Slice(Append(data.messages, m), DmCap)
      BY <2>2 DEF TypeOK, Data
    <2> QED
      BY <1>4, <2>1, <2>2, <2>3, SameIsSteady DEF SaveDirectMessage, Changes, Grows
  <1> QED
    BY <1>1, <1>2, <1>3, <1>4 DEF Next

(* What a write leaves, whether it succeeds or fails.                      *)
LEMMA SaveLeaves ==
    ASSUME TypeOK, NEW d \in Data, DefaultRooms \subseteq DOMAIN d.rooms, Save(d)
    PROVE  /\ file'.data \in {d, file.data, Defaults}
           /\ file'.data \in Data
           /\ file' \in {Absent, Torn, Whole(file'.data)}
           /\ DefaultRooms \subseteq DOMAIN file'.data.rooms
           /\ up' \in BOOLEAN /\ stale' \in BOOLEAN
           /\ ~stale' => file' = Whole(d)
  <1>1. Whole(d).data = d /\ Torn.data = Defaults
    BY DEF Whole, Torn
  <1> QED
    BY <1>1, DefaultsType DEF Save, TypeOK

(* What init() makes of a file that is there.                              *)
LEMMA LoadGives ==
    ASSUME TypeOK, file.state # "absent", Load
    PROVE  /\ data' \in {file.data, Defaults}
           /\ data' \in Data
           /\ DefaultRooms \subseteq DOMAIN data'.rooms
           /\ stale' \in BOOLEAN
           /\ ~stale' => file = Whole(data')
  <1>1. Absent.state = "absent" /\ Torn.state = "torn"
    BY DEF Absent, Torn
  <1>2. CASE /\ file.state = "whole"
             /\ data' = file.data
             /\ stale' = FALSE
    BY <1>1, <1>2 DEF TypeOK
  <1>3. CASE data' = Defaults /\ stale' = TRUE
    BY <1>3, DefaultsType
  <1> QED
    BY <1>2, <1>3 DEF Load

(* A start, on an absent file or another, in the same terms.               *)
LEMMA StartGives ==
    ASSUME TypeOK, Start
    PROVE  /\ ~up
           /\ data' \in {file.data, Defaults}
           /\ data' \in Data
           /\ log' = data'.messages
           /\ \/ Save(data')
              \/ /\ file' = file /\ up' = TRUE /\ stale' \in BOOLEAN
                 /\ ~stale' => file = Whole(data')
           /\ DefaultRooms \subseteq DOMAIN data'.rooms
  <1>1. CASE file.state = "absent"
    BY <1>1, DefaultsType DEF Start
  <1>2. CASE file.state # "absent"
    BY <1>2, LoadGives DEF Start
  <1> QED
    BY <1>1, <1>2

------------------------------------------------------------------------------
(* The schema.                                                             *)

(* The defaults, in memory and on disk, fit the schema.                    *)
LEMMA TypeInit == Init => TypeOK
  <1> SUFFICES ASSUME Init PROVE TypeOK
    OBVIOUS
  <1>1. Absent.data = Defaults /\ << >> \in Seq(Message)
    BY EmptySeq DEF Absent
  <1> QED
    BY <1>1, DefaultsType DEF Init, TypeOK

(* Every method, and a restart, leaves data that fits the schema.          *)
LEMMA TypeStep == TypeOK /\ [Next]_vars => TypeOK'
  <1> SUFFICES ASSUME TypeOK, [Next]_vars PROVE TypeOK'
    OBVIOUS
  <1>1. CASE Changes
    <2>1. log' \in Seq(Message)
      BY <1>1, AppendProperties DEF Changes, Grows, TypeOK
    <2>2. DefaultRooms \subseteq DOMAIN data'.rooms
      BY <1>1 DEF Changes, Locked, TypeOK
    <2> QED
      BY <1>1, <2>1, <2>2, SaveLeaves DEF Changes, TypeOK
  <1>2. CASE Crash
    BY <1>2 DEF Crash, TypeOK
  <1>3. CASE Start
    <2>1. log' \in Seq(Message)
      BY <1>3, StartGives DEF Data
    <2>2. /\ data' \in Data
          /\ DefaultRooms \subseteq DOMAIN data'.rooms
          /\ Save(data') \/ (file' = file /\ up' = TRUE /\ stale' \in BOOLEAN)
      BY <1>3, StartGives
    <2>3. CASE Save(data')
      BY <2>1, <2>2, <2>3, SaveLeaves DEF TypeOK
    <2>4. CASE file' = file /\ up' = TRUE /\ stale' \in BOOLEAN
      BY <2>1, <2>2, <2>4 DEF TypeOK
    <2> QED
      BY <2>2, <2>3, <2>4
  <1>4. CASE UNCHANGED vars
    BY <1>4 DEF vars, TypeOK
  <1> QED
    BY <1>1, <1>2, <1>3, <1>4, MethodsChange

(* Memory and file keep the schema, and the default rooms are never lost,  *)
(* whichever writes and reads fail.                                        *)
THEOREM StoreTypeCorrect == Spec => []TypeOK
  BY TypeInit, TypeStep, PTL DEF Spec

------------------------------------------------------------------------------
(* Accounts, locks, history and file.                                      *)

(* What the other results need: a file that is read later is as good as    *)
(* the memory was when it was written.                                     *)
IInv ==
    /\ TypeOK
    /\ OneAccountPerEmail
    /\ FileCurrent
    /\ HistoryIsRecent
    /\ Len(file.data.messages) <= DmCap

(* The empty store satisfies the invariant.                                *)
LEMMA InvInit == Init => IInv
  <1> SUFFICES ASSUME Init PROVE IInv
    OBVIOUS
  <1>1. Absent.data = Defaults /\ Len(<< >>) = 0
    BY DEF Absent
  <1>2. OneAccountPerEmail /\ FileCurrent
    BY <1>1, DefaultsType DEF Init, OneAccountPerEmail, FileCurrent
  <1>3. data.messages = << >> /\ log = << >> /\ file.data.messages = << >> /\ 0 <= DmCap
    BY <1>1, DefaultsType, StoreAssumption DEF Init
  <1>4. HistoryIsRecent
    BY <1>1, <1>3 DEF HistoryIsRecent, Recent
  <1> QED
    BY <1>1, <1>2, <1>3, <1>4, TypeInit DEF IInv

(* Each list is at most DmCap long; a list is recent in itself.            *)
LEMMA RecentSelf ==
    ASSUME NEW S, NEW s \in Seq(S), Len(s) <= DmCap
    PROVE  Recent(s, s)
  <1>1. Len(s) \in Nat /\ \A i \in 1 .. Len(s) : Len(s) - Len(s) + i = i
    BY LenProperties
  <1> QED
    BY <1>1 DEF Recent

(* So does what each method, a load or a crash leaves behind.              *)
LEMMA InvStep == IInv /\ [Next]_vars => IInv'
  <1> SUFFICES ASSUME IInv, [Next]_vars PROVE IInv'
    OBVIOUS
  <1>1. TypeOK /\ TypeOK'
    BY TypeStep DEF IInv
  <1>2. CASE Changes
    <2>1. OneAccount(data')
      BY <1>2 DEF Changes, IInv, OneAccountPerEmail
    <2>2. Recent(data'.messages, log')
      <3>1. data.messages \in Seq(Message) /\ log \in Seq(Message)
        BY <1>1 DEF TypeOK, Data
      <3> QED
        BY <1>2, <3>1, RecentAppend DEF Changes, Grows, IInv, HistoryIsRecent
    <2>3. DefaultRooms \subseteq DOMAIN data'.rooms
      BY <1>1 DEF TypeOK
    <2>4. /\ file'.data \in {data', file.data, Defaults}
          /\ ~stale' => file' = Whole(data')
      BY <1>1, <1>2, <2>3, SaveLeaves DEF Changes
    <2>5. OneAccount(file'.data)
      BY <2>1, <2>4, DefaultsType DEF IInv, OneAccountPerEmail
    <2>6. Len(file'.data.messages) <= DmCap
      <3>1. Len(data'.messages) <= DmCap
        BY <2>2 DEF Recent
      <3>2. Len(Defaults.messages) <= DmCap
        BY DefaultsType, StoreAssumption
      <3> QED
        BY <2>4, <3>1, <3>2 DEF IInv
    <2> QED
      BY <1>1, <2>1, <2>2, <2>4, <2>5, <2>6
      DEF IInv, OneAccountPerEmail, FileCurrent, HistoryIsRecent
  <1>3. CASE Crash
    BY <1>1, <1>3 DEF Crash, IInv, OneAccountPerEmail, FileCurrent, HistoryIsRecent
  <1>4. CASE Start
    <2>1. /\ data' \in {file.data, Defaults}
          /\ data' \in Data
          /\ log' = data'.messages
          /\ DefaultRooms \subseteq DOMAIN data'.rooms
      BY <1>1, <1>4, StartGives
    <2>2. OneAccount(data')
      BY <2>1, DefaultsType DEF IInv, OneAccountPerEmail
    <2>3. Len(data'.messages) <= DmCap
      BY <2>1, DefaultsType, StoreAssumption DEF IInv
    <2>4. HistoryIsRecent'
      BY <2>1, <2>3, RecentSelf DEF HistoryIsRecent, Data
    <2>5. /\ file'.data \in {data', file.data, Defaults}
          /\ ~stale' => file' = Whole(data')
      <3>1. CASE Save(data')
        BY <1>1, <2>1, <3>1, SaveLeaves
      <3>2. CASE file' = file /\ (~stale' => file = Whole(data'))
        BY <3>2
      <3> QED
        BY <1>1, <1>4, <3>1, <3>2, StartGives
    <2>6. OneAccount(file'.data) /\ Len(file'.data.messages) <= DmCap
      BY <2>2, <2>3, <2>5, DefaultsType, StoreAssumption DEF IInv, OneAccountPerEmail
    <2> QED
      BY <1>1, <2>2, <2>4, <2>5, <2>6 DEF IInv, OneAccountPerEmail, FileCurrent
  <1>5. CASE UNCHANGED vars
    BY <1>1, <1>5 DEF vars, IInv, OneAccountPerEmail, FileCurrent, HistoryIsRecent
  <1> QED
    BY <1>1, <1>2, <1>3, <1>4, <1>5, MethodsChange

(* The invariant holds in every reachable state.                           *)
LEMMA InvHolds == Spec => []IInv
  BY InvInit, InvStep, PTL DEF Spec

(* An e-mail address never has two accounts, in memory or in the file.     *)
THEOREM OneAccountEach == Spec => []OneAccountPerEmail
  <1>1. IInv => OneAccountPerEmail
    BY DEF IInv
  <1> QED
    BY <1>1, InvHolds, PTL

(* What the memory holds is in the file unless an access to it failed.     *)
THEOREM NothingUnsaved == Spec => []FileCurrent
  <1>1. IInv => FileCurrent
    BY DEF IInv
  <1> QED
    BY <1>1, InvHolds, PTL

(* The history is the end of what was said, without a gap, for any caps    *)
(* with ChatCap <= DmCap and any mixture of chat and private messages.     *)
THEOREM NoGapInHistory == Spec => []HistoryIsRecent
  <1>1. IInv => HistoryIsRecent
    BY DEF IInv
  <1> QED
    BY <1>1, InvHolds, PTL

(* No account is replaced by another's, and an address that has one keeps  *)
(* one, while the process runs.                                            *)
THEOREM AccountsKept == Spec => AccountsSteady
  <1>1. IInv /\ [Next]_vars =>
           [up => /\ \A a \in Address : Owners(data, a) # {} => Owners(data', a) # {}
                  /\ \A h \in DOMAIN data.users \cap DOMAIN data'.users :
                        data'.users[h] = data.users[h]]_vars
    <2> SUFFICES ASSUME IInv, Next, up PROVE Steady(data')
      BY DEF Steady
    <2>1. CASE Changes
      BY <2>1 DEF Changes, IInv, OneAccountPerEmail
    <2>2. CASE Crash
      BY <2>2, SameIsSteady DEF Crash
    <2>3. ~Start
      BY DEF Start
    <2> QED
      BY <2>1, <2>2, <2>3, MethodsChange DEF IInv
  <1> QED
    BY <1>1, InvHolds, PTL DEF Spec, AccountsSteady

(* The protection of a room never changes while the process runs.          *)
THEOREM LocksKept == Spec => RoomLockSteady
  <1>1. IInv /\ [Next]_vars =>
           [up => \A k \in DOMAIN data.rooms :
                     k \in DOMAIN data'.rooms /\ data'.rooms[k] = data.rooms[k]]_vars
    <2> SUFFICES ASSUME IInv, Next, up PROVE Locked(data')
      BY DEF Locked
    <2>1. CASE Changes
      BY <2>1 DEF Changes
    <2>2. CASE Crash
      BY <2>2, SameIsSteady DEF Crash
    <2>3. ~Start
      BY DEF Start
    <2> QED
      BY <2>1, <2>2, <2>3, MethodsChange DEF IInv
  <1> QED
    BY <1>1, InvHolds, PTL DEF Spec, RoomLockSteady

(* So nobody loses what he was granted to what others ask for.             *)
THEOREM GrantsKept == Spec => GrantsSteady
  BY AccountsKept, LocksKept DEF GrantsSteady
==============================================================================
