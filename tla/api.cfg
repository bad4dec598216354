CONSTANTS
    a1 = a1
    q1 = q1
    q2 = q2
    q3 = q3
    Alerts = {a1}
    Requests = {q1, q2, q3}
    Items <- Overlapping
    Batches = {q1}
    Bad = Bad
    Clients = {c1}
    c1 = c1
    MaxTicks = 2
    Faults = {"store", "read", "triage", "notify", "audit", "nats", "restart"}
    MaxFaults = 1
SPECIFICATION FairSpec
INVARIANTS CompleteHasVerdict AnswersAreHonest
PROPERTIES AcceptedIsDecided
CHECK_DEADLOCK FALSE
