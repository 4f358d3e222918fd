SPECIFICATION Spec
CONSTANTS
    m1 = m1
    m2 = m2
    m3 = m3
    k1 = k1
    s1 = s1
    s2 = s2
    Messages = {m1}
    ZeroTtl = {}
    Oversized = {m1}
    Keys = {k1}
    NoKey = NoKey
    KeyOf <- NoCollapse
    MaxSendQueue = 3
    AckEvery = 2
    ServerIds = {s1, s2}
    BaseTicks = 0
    MaxConnections = 2
    MaxRestarts = 0
    Reboots = FALSE
    MaxSelectiveAcks = 0
    MaxServerControl = 1
    MaxHeartbeats = 1
    MaxExpired = 0
CHECK_DEADLOCK FALSE
SYMMETRY ServerSymmetry
INVARIANTS
    IncomingStoreInSync
    ForgottenMeansReceived
    DeliveredOnce
    AcksTrackedUntilConfirmed
