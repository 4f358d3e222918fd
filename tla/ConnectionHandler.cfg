SPECIFICATION HandlerFairSpec
CONSTANTS
    SizeMax = 3
    PacketLimit = 4
    BufferSize = 14
    MaxConnections = 2
    Streams <- MCStreams
INVARIANTS
    HandlerChecksHold
    OneReader
    TimeoutPolicy
PROPERTIES
    SoundStreamSurvives
    ImplementsMessageStream
    EverythingDelivered
