SPECIFICATION Spec
CONSTANTS
    Base = 4
    MessageType <- MCMessageType
    MaxPayload = 2
    Message <- MCMessage
    Junk <- MCJunk
    MaxSent = 3
CHECK_DEADLOCK FALSE
INVARIANTS
    ChunkingIrrelevant
    FramesInOrder
    SeesCodecFrames
