SPECIFICATION Spec
CONSTANTS
    f1 = f1
    f2 = f2
    f3 = f3
    ConnectionId <- MCConnectionId
    Username <- MCUsername
    ValidUsername <- MCValidUsername
    NormalizeName <- MCNormalizeName
    RoomName <- MCRoomName
    ValidRoomName <- MCValidRoomName
    General = "general"
INVARIANTS
    TypeOK
    MapsConsistent
PROPERTIES
    StrayOnlyByRename
    ImplementsDirectory
