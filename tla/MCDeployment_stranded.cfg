SPECIFICATION QueueSpec
CONSTANTS
    staging = staging
    production = production
    Env = {staging}
    NoEnv = NoEnv
    Requires <- Single
    FileMode = {}
    Inputs = {1, 2}
    Mixed = Mixed
    MaxRuns = 3
    MaxReruns = 0
    MaxOthers = 0
    MaxCuts = 0
    MaxPushes = 1
INVARIANTS
    Unstrandable
