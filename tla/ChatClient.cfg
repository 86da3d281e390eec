SPECIFICATION ClientSpec
CONSTANTS
    c1 = c1
    c2 = c2
    peer = peer
    Client <- MCClient
    Peer = peer
    PeerName = "eve"
    Nobody = Nobody
    Username <- MCUsername
    HandleOf <- MCHandleOf
    NoHandle = ""
    ValidHandle = {"alice", "bob", "eve"}
    Email <- MCEmail
    CleanEmail <- MCCleanEmail
    NoEmail = ""
    RoomName <- MCRoomName
    LowerRoom <- MCRoomOf
    StoredRoom <- MCStoredRoom
    ShownRoom <- MCShownRoom
    JoinRead <- MCJoinRead
    Returning <- MCQuoting
    Welcoming <- MCQuoting
    ErrorRead <- MCErrorRead
    NoRoom = ""
    ValidRoomName <- MCRoomName
    General = "general"
    Password = {"p"}
    NoPassword = ""
    DefaultRooms = {"general"}
    Text <- MCQuoting
    ChatCap = 5
    DmCap = 5
    HistoryLimit = 5
    DmLimit = 5
    Status = {"online"}
    Online = "online"
    Query = {}
    MaxQueue = 1
    MaxActions = 3
    DedupWindow = 15
    KeptMessages = 300
    Handoffs = {2}
    Person = {"alice", "bob"}
    Contact = {"eve"}
    Visited = {"lab", "lab.2"}
    PeerAction <- EveWrites
    MaxUp = 2
    MaxDown = 1
    MaxMoves = 4
SYMMETRY BrowserConnections
CHECK_DEADLOCK FALSE
INVARIANTS
    ClientTypeOK
    FeedsApart
    ShownAsHeard
    MissedOnlyDuringLogin
PROPERTIES
    WhispersShown
