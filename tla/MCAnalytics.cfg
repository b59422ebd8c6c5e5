\* Two requests at a time, four in all, of a shared browser and another.
SPECIFICATION Spec
CONSTANTS
    Visitor = {1, 2}
    Session = {11, 12, 13}
    Account = {a1, a2}
    shared = shared
    Browser = {shared, other}
    Household <- SharedHousehold
    Request = {r1, r2}
    MaxSent = 4
    None = None
SYMMETRY Symmetry
INVARIANTS
    TypeOK
    RevokedStaysErased
    RotatedStaysOut
    AttributedAtHome
    VisitsAreNotOvercounted
CHECK_DEADLOCK FALSE
