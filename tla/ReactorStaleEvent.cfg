SPECIFICATION Spec
CONSTANTS
    c1 = c1
    c2 = c2
    c3 = c3
    Client <- ThreeClients
    MaxFd = 2
    SendBuffer = 1
    Request <- Registrations
    MaxFrames = 2
    MaxFaults = 1
    MaxPauses = 0
    MayStop = FALSE
    Username <- Names
    ValidUsername <- GoodNames
    NormalizeName <- SameCase
    RoomName <- Rooms
    ValidRoomName <- Rooms
    General = "general"
CHECK_DEADLOCK FALSE
PROPERTIES
    CloseOnlyHungUp
