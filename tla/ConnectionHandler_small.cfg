SPECIFICATION HandlerSpec
CONSTANTS
    SizeMax = 3
    PacketLimit = 4
    BufferSize = 14
    MaxConnections = 2
    Streams <- MCSmallStreams
PROPERTIES
    ImplementsMessageStream
