SPECIFICATION Spec
CONSTANTS
    c1 = c1
    c2 = c2
    Client <- TwoClients
    Reaper = reaper
    MaxFd = 2
    SendBuffer = 1
    Request <- Commands
    MaxEvents = 3
    Username <- Names
    ValidUsername <- GoodNames
    NormalizeName <- SameCase
    RoomName <- Rooms
    ValidRoomName <- Rooms
    General = "general"
SYMMETRY Symmetry
CHECK_DEADLOCK FALSE
INVARIANTS
    DescriptorsOwned
    UsersServed
    NoIdleWait
