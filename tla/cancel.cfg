CONSTANTS
    Workers = {w1, w2}
    MaxTasks = 2
    Grace = 1
    Slack = 1
    MaxFaults = 1
SPECIFICATION FairSpec
PROPERTIES RevokeIsFinal CancelTakesEffect
CHECK_DEADLOCK FALSE
