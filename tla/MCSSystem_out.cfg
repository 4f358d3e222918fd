SPECIFICATION Spec
CONSTANTS
    m1 = m1
    m2 = m2
    m3 = m3
    k1 = k1
    s1 = s1
    s2 = s2
    Messages = {m1, m2, m3}
    ZeroTtl = {}
    Oversized = {}
    Keys = {k1}
    NoKey = NoKey
    KeyOf <- TwoCollapse
    MaxSendQueue = 3
    AckEvery = 2
    ServerIds = {}
    BaseTicks = 0
    MaxConnections = 2
    MaxRestarts = 0
    Reboots = FALSE
    MaxSelectiveAcks = 1
    MaxServerControl = 0
    MaxHeartbeats = 0
    MaxExpired = 0
CHECK_DEADLOCK FALSE
INVARIANTS
    QueuesSound
    NoStall
PROPERTIES
    ImplementsReliableQueue
