SPECIFICATION Spec
CONSTANTS
    m1 = m1
    m2 = m2
    m3 = m3
    k1 = k1
    s1 = s1
    s2 = s2
    Messages = {m1, m2}
    ZeroTtl = {}
    Oversized = {}
    Keys = {k1}
    NoKey = NoKey
    KeyOf <- AllCollapse
    MaxSendQueue = 3
    AckEvery = 2
    ServerIds = {}
    BaseTicks = 0
    MaxConnections = 2
    MaxRestarts = 1
    Reboots = FALSE
    MaxSelectiveAcks = 1
    MaxServerControl = 0
    MaxHeartbeats = 0
    MaxExpired = 0
CHECK_DEADLOCK FALSE
INVARIANTS
    SentMeansReceived
