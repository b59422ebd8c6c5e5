\* Progress of one event under fairness.
SPECIFICATION FairSpec
CONSTANTS
    Events = {e1}
    Expirable = {e1}
    Recipients = {p1}
    Dispatchers = {d1}
    Runs = {r1}
    Free = Free
    Unbuildable = {}
    NoEvent = NoEvent
    MaxDispatch = 2
    JobAttempts = 1
    MaxFaults = 1
    MaxRetries = 1
PROPERTIES
    EventSettles
CHECK_DEADLOCK FALSE
