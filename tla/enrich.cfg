CONSTANTS
    b1 = b1
    b2 = b2
    Bursts = {b1, b2}
    Alerts <- AllAlerts
    PrivatePrefixed = {"s"}
    NamesCve = {"CVE-1", "CVE-2"}
    ModelAnswers <- AllAnswers
    TTL = 2
    Timeout = 1
    MaxTime = 4
    MaxFaults = 1
SPECIFICATION Spec
CONSTRAINT RunToTheEnd
INVARIANTS PlanIsExact BoundedStaleness PrescribedIsReported
CHECK_DEADLOCK FALSE
