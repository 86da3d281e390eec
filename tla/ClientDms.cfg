SPECIFICATION ClientSpec
CONSTANTS
    c1 = c1
    c2 = c2
    peer = peer
    Client <- MCClient
    Peer = peer
    PeerName = "eve"
    Nobody = Nobody
    Username <- MCUsername
    HandleOf <- MCHandleOf
    NoHandle = ""
    ValidHandle = {"alice", "bob", "eve"}
    Email <- MCEmail
    CleanEmail <- MCCleanEmail
    NoEmail = ""
    RoomName <- MCRoomName
    LowerRoom <- MCRoomOf
    StoredRoom <- MCStoredRoom
    ShownRoom <- MCShownRoom
    JoinRead <- MCJoinRead
    Returning <- MCNone
    Welcoming <- MCNone
    ErrorRead <- MCErrorRead
    NoRoom = ""
    ValidRoomName <- MCRoomName
    General = "general"
    Password = {"p"}
    NoPassword = ""
    DefaultRooms = {"general"}
    Text = {"hi"}
    ChatCap = 5
    DmCap = 5
    HistoryLimit = 5
    DmLimit = 5
    Status = {"online"}
    Online = "online"
    Query = {}
    MaxQueue = 2
    MaxActions = 4
    DedupWindow = 15
    KeptMessages = 300
    Handoffs = {2}
    Person = {"alice"}
    Contact = {}
    Visited = {"general"}
    PeerAction <- EveWrites
    MaxUp = 2
    MaxDown = 2
    MaxMoves = 3
SYMMETRY BrowserConnections
CHECK_DEADLOCK FALSE
INVARIANTS
    DmsShown
