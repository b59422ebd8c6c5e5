\* Two overlapping executions of one event's job, two recipients.
SPECIFICATION Spec
CONSTANTS
    Events = {e1}
    Expirable = {e1}
    Recipients = {p1, p2}
    Dispatchers = {d1}
    Runs = {r1, r2}
    Free = Free
    Unbuildable = {}
    NoEvent = NoEvent
    MaxDispatch = 1
    JobAttempts = 3
    MaxFaults = 2
    MaxRetries = 0
SYMMETRY Symmetry
INVARIANTS
    TypeOK
    AtLeastOnce
    NobodyForgotten
    DuplicatesNeedFaults
    SoleSender
CHECK_DEADLOCK FALSE
