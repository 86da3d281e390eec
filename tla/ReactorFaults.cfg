SPECIFICATION Spec
CONSTANTS
    c1 = c1
    c2 = c2
    c3 = c3
    Client <- TwoClients
    MaxFd = 2
    SendBuffer = 1
    Request <- Talk
    MaxFrames = 3
    MaxFaults = 1
    MaxPauses = 1
    MayStop = TRUE
    Username <- Names
    ValidUsername <- GoodNames
    NormalizeName <- SameCase
    RoomName <- Rooms
    ValidRoomName <- Rooms
    General = "general"
SYMMETRY Symmetry
CHECK_DEADLOCK FALSE
INVARIANTS
    PendingAwaitsEpollout
    ConnectionsExact
PROPERTIES
    CloseHasCause
    GhostOnlyFromFreedBuffer
