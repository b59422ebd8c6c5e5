\* Two pods, a dispatch sweep and the analytics retention, one of each failing.
SPECIFICATION Spec
CONSTANTS
    Schedule <- TwoSchedules
    Key <- TheirKeys
    Holder = {p1, p2}
    Free = Free
    Broken = {"expired", "sessions"}
    BatchSize = 1
    MaxBatches = 2
    MaxDue = 3
    MaxFaults = 1
INVARIANTS
    TypeOK
    SoleSweep
    LocksAreFreed
PROPERTIES
    BacklogDrains
CHECK_DEADLOCK FALSE
