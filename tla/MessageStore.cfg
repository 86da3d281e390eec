SPECIFICATION Spec
CONSTANTS
    Username <- MCUsername
    HandleOf <- MCHandleOf
    NoHandle = ""
    Email <- MCEmail
    CleanEmail <- MCCleanEmail
    NoEmail = ""
    RoomName <- MCRoomName
    LowerRoom <- MCLowerRoom
    StoredRoom <- MCStoredRoom
    NoRoom = ""
    Password = {"p"}
    NoPassword = ""
    DefaultRooms = {"general"}
    Text = {"hi"}
    ChatCap = 1
    DmCap = 2
    HistoryLimit = 2
    DmLimit = 2
    MaxSaved = 3
    Author = {"alice"}
INVARIANTS
    TypeOK
    OneAccountPerEmail
    HistoryIsRecent
    FileCurrent
PROPERTIES
    GrantsSteady
