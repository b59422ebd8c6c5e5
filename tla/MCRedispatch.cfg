\* The dispatch that follows a job's final failure.
SPECIFICATION Spec
CONSTANTS
    Events = {e1}
    Expirable = {}
    Recipients = {p1}
    Dispatchers = {d1}
    Runs = {r1}
    Free = Free
    Unbuildable = {}
    NoEvent = NoEvent
    MaxDispatch = 2
    JobAttempts = 1
    MaxFaults = 1
    MaxRetries = 0
SYMMETRY Symmetry
PROPERTIES
    RedispatchReachesQueue
CHECK_DEADLOCK FALSE
