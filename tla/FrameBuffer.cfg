SPECIFICATION FairSpec
CONSTANTS
    Base = 4
    MessageType <- MCMessageType
    MaxPayload = 3
    InitialSize = 2
    CompactAt = 2
    ReadChunk = 4
    Message <- MCMessage
    Junk <- MCJunk
    MaxSent = 3
CHECK_DEADLOCK FALSE
INVARIANTS
    TypeOK
    StreamKept
    IdleHasNoFrame
PROPERTIES
    ImplementsChannel
    AllReceived
