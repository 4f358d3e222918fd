SPECIFICATION FairSpec
CONSTANTS
    MaxFailures = 2
    MaxDelay = 2
    ResetWindow = 1
    Endpoints = 2
    Up = {1}
    MaxEvents = 1
    AvoidOffline = TRUE
    SpareCanary = TRUE
INVARIANTS
    TypeOK
    ChecksHold
    OneBackoffTask
    NeverStranded
    ClearedEventsWereReported
PROPERTIES
    OnlyCanariesBypassBackoff
    LoginFailureRestoresBackoff
    EventuallyConnected
