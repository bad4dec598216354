CONSTANTS
    a1 = a1
    q1 = q1
    q2 = q2
    r1 = r1
    r2 = r2
    Alerts <- OneAlert
    Requests = {q1, q2}
    AlertOf <- SameAlert
    Reconcilers = {r1, r2}
    NoOwner = NoOwner
    NoAlert = NoAlert
    MaxAttempts = 2
    HasDlq = {}
    Faults <- FaultKinds
    MaxFaults = 3
SYMMETRY SameProcesses
SPECIFICATION Spec
INVARIANTS TypeOK AcceptedIsHeld
PROPERTY KeepsContract
