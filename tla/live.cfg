SPECIFICATION Spec
CONSTANTS
    Sessions = {d1}
    Fanouts = {f1}
    MaxEvents = 2
    MaxWatches = 2
    Faults = {"push", "bff", "expiry", "evict", "redis"}
    MaxFaults = 1
    d1 = d1
    f1 = f1
INVARIANTS TypeOK NoGapWhileRegistered WatchedIsRegistered RevocationCloses
PROPERTIES InOrder
CHECK_DEADLOCK FALSE
