CONSTANTS
    Checkpointed = TRUE
    FlagReadFails = FALSE
    MayCrash = TRUE
    Resent = FALSE
    MaxRuns = 2
    MaxBurst = 5
    MaxPlan = 4
SPECIFICATION Spec
INVARIANT ResumesAfterCrash
CHECK_DEADLOCK FALSE
