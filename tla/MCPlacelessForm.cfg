\* A decision form without a location, and nothing that fails.
SPECIFICATION Spec
CONSTANTS
    Events = {e1}
    Expirable = {}
    Recipients = {p1, p2}
    Dispatchers = {d1}
    Runs = {r1}
    Free = Free
    Unbuildable <- PlacelessDecisions
    NoEvent = NoEvent
    MaxDispatch = 2
    JobAttempts = 1
    MaxFaults = 0
    MaxRetries = 0
SYMMETRY Symmetry
PROPERTIES
    AcceptedEventsBuild
CHECK_DEADLOCK FALSE
