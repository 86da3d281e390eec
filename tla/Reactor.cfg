SPECIFICATION Spec
CONSTANTS
    c1 = c1
    c2 = c2
    c3 = c3
    Client <- TwoClients
    MaxFd = 2
    SendBuffer = 1
    Request <- Commands
    MaxFrames = 4
    MaxFaults = 0
    MaxPauses = 0
    MayStop = FALSE
    Username <- Names
    ValidUsername <- GoodNames
    NormalizeName <- SameCase
    RoomName <- Rooms
    ValidRoomName <- Rooms
    General = "general"
SYMMETRY Symmetry
CHECK_DEADLOCK FALSE
INVARIANTS
    TypeOK
    OneConversation
