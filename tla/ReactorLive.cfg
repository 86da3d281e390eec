SPECIFICATION FairSpec
CONSTANTS
    c1 = c1
    c2 = c2
    c3 = c3
    Client <- TwoClients
    MaxFd = 2
    SendBuffer = 1
    Request <- Probes
    MaxFrames = 2
    MaxFaults = 1
    MaxPauses = 1
    MayStop = FALSE
    Username <- Names
    ValidUsername <- GoodNames
    NormalizeName <- SameCase
    RoomName <- Rooms
    ValidRoomName <- Rooms
    General = "general"
CHECK_DEADLOCK FALSE
PROPERTIES
    OutputDrains
    HangUpNoticed
    SilenceEnds
