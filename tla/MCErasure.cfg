\* Two people log in on one browser, and the first asks for erasure.
SPECIFICATION Spec
CONSTANTS
    Visitor = {1}
    Session = {11, 12}
    Account = {a1, a2}
    shared = shared
    Browser = {shared}
    Household <- SharedHousehold
    Request = {r1}
    MaxSent = 4
    None = None
SYMMETRY Symmetry
PROPERTIES
    ErasureReachesEveryVisit
CHECK_DEADLOCK FALSE
