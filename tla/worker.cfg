CONSTANTS
    m1 = m1
    w1 = w1
    w2 = w2
    Messages = {m1}
    Workers = {w1, w2}
    NoWorker = NoWorker
    MaxInflight = 1
    PullBatch = 2
    MaxDeliver = 3
    Stoppable = {w2}
    Kinds = {"good", "poison"}
    Faults = {"triage", "redis", "settle", "fetch", "crash"}
    MaxFaults = 3
SPECIFICATION FairSpec
INVARIANTS TypeOK SettledIsHandled PermitsBalance StoppedIsDrained
PROPERTIES QueueDrains ShutdownCompletes
CHECK_DEADLOCK FALSE
