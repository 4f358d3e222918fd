SPECIFICATION GpuFairSpec
CONSTANTS
    t1 = t1
    t2 = t2
    Seqs = {1, 2}
    Threads = {t1, t2}
    RunnerOf <- OneApart
    PriorityOf <- LastFirst
    Modes = {TRUE, FALSE}
    MaxTasks = 3
    MaxCount = 2
    MaxExtras = 1
    AnyThread = FALSE
    Forever = 9
CHECK_DEADLOCK FALSE
INVARIANTS
    GpuChecksHold
    NoWaitLost
    ThreadAwake
PROPERTIES
    WaitsHonoured
    ForcedOnlyIfStuck
    TasksFinish
