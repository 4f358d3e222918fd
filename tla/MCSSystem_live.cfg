SPECIFICATION FairSpec
CONSTANTS
    m1 = m1
    m2 = m2
    m3 = m3
    k1 = k1
    s1 = s1
    s2 = s2
    Messages = {m1, m2}
    ZeroTtl = {m2}
    Oversized = {}
    Keys = {k1}
    NoKey = NoKey
    KeyOf <- NoCollapse
    MaxSendQueue = 0
    AckEvery = 2
    ServerIds = {s1}
    BaseTicks = 0
    MaxConnections = 2
    MaxRestarts = 0
    Reboots = FALSE
    MaxSelectiveAcks = 0
    MaxServerControl = 0
    MaxHeartbeats = 0
    MaxExpired = 1
CHECK_DEADLOCK FALSE
PROPERTIES
    AcceptedIsResolved
    ServerMessagesDelivered
