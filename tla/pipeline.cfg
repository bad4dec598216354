CONSTANTS
    Checkpointed = TRUE
    FlagReadFails = FALSE
    MayCrash = TRUE
    Resent = TRUE
    MaxRuns = 2
    MaxBurst = 5
    MaxPlan = 4
SPECIFICATION FairSpec
INVARIANTS TypeOK LoopWithinBudget StepsBounded CancelIsPrompt
PROPERTY RunsEnd
CHECK_DEADLOCK FALSE
