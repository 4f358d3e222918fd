SPECIFICATION SystemSpec
CONSTANTS
    MaxFailures = 1
    MaxDelay = 1
    ResetWindow = 0
    Endpoints = 1
    Up = {0}
    MaxEvents = 1
    AvoidOffline = TRUE
    SpareCanary = TRUE
    AckTicks = 1
    WifiTicks = 1
    CellTicks = 2
    MinClientTicks = 1
    PollTicks = 1
    MinSuspend = 0
    ServerTicks = {2}
    Platforms <- MCPlatforms
INVARIANTS
    SystemSound
    DeadConnectionNoticed
    IntervalRespected
PROPERTIES
    LiveConnectionKept
    ImplementsFactory
