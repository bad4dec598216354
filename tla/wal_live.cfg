CONSTANTS
    a1 = a1
    q1 = q1
    q2 = q2
    r1 = r1
    r2 = r2
    Alerts <- OneAlert
    Requests = {q1}
    AlertOf <- SingleRequest
    Reconcilers = {r1, r2}
    NoOwner = NoOwner
    NoAlert = NoAlert
    MaxAttempts = 2
    HasDlq = {r2}
    Faults <- LeasedFaults
    MaxFaults = 4
SPECIFICATION FairSpec
INVARIANT ReconcilersExclusive
PROPERTIES AcceptedIsDelivered LogDrains LeaseIsFreed
