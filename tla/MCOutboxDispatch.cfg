\* Two dispatchers race for one event.
SPECIFICATION Spec
CONSTANTS
    Events = {e1}
    Expirable = {e1}
    Recipients = {p1}
    Dispatchers = {d1, d2}
    Runs = {r1}
    Free = Free
    Unbuildable = {}
    NoEvent = NoEvent
    MaxDispatch = 2
    JobAttempts = 1
    MaxFaults = 2
    MaxRetries = 0
SYMMETRY Symmetry
INVARIANTS
    DispatchBudget
PROPERTIES
    ClaimIsExclusive
    KeepsContract
CHECK_DEADLOCK FALSE
