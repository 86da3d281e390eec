SPECIFICATION Spec
CONSTANTS
    c1 = c1
    c2 = c2
    Client <- MCClient
    Username <- MCUsername
    HandleOf <- MCHandleOf
    NoHandle = ""
    ValidHandle = {"alice"}
    Email <- MCEmail
    CleanEmail <- SameEmail
    NoEmail = ""
    RoomName <- MCRoomName
    LowerRoom <- MCLowerRoom
    StoredRoom <- MCLowerRoom
    NoRoom = ""
    ValidRoomName = {"general", "Lab"}
    General = "general"
    Password = {"p"}
    NoPassword = ""
    DefaultRooms = {"general"}
    Text = {"hi"}
    ChatCap = 1
    DmCap = 1
    HistoryLimit = 5
    DmLimit = 5
    Status = {"online"}
    Online = "online"
    Query = {"HEARTBEAT"}
    MaxQueue = 3
    MaxActions = 3
INVARIANTS
    TypeOK
PROPERTIES
    PresenceFollowsSessions
    NameLostOnlyByOwnClaim
    DriftOnlyByRefusal
    HeardWhereStored
    GoneIsGone
