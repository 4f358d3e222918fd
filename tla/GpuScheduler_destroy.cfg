SPECIFICATION GpuSpec
CONSTANTS
    t1 = t1
    t2 = t2
    Seqs = {1, 2}
    Threads = {t1, t2}
    RunnerOf <- OneApart
    PriorityOf <- LastFirst
    Modes = {TRUE, FALSE}
    MaxTasks = 2
    MaxCount = 2
    MaxExtras = 1
    AnyThread = TRUE
    Forever = 9
CHECK_DEADLOCK FALSE
INVARIANTS
    GpuChecksHold
