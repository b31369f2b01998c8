CONSTANTS
    staging = staging
    production = production
    Env = {staging, production}
    NoEnv = NoEnv
    Requires <- Promoting
    FileMode = {production}
    Inputs = {1, 2}
    Mixed = Mixed
    MaxRuns = 2
    MaxReruns = 1
    MaxOthers = 0
    MaxCuts = 0
    MaxPushes = 2
SPECIFICATION AllSpec
INVARIANTS
    JobsAreGrounded
    QueueIsAccounted
PROPERTIES
    NothingIsUndone
