\* One process of either kind, from its start to its exit.
SPECIFICATION Spec
CONSTANTS
    Queue = {"dispatch", "mail", "maintenance"}
    Request = {r1, r2}
INVARIANTS
    TypeOK
    CutOnlyByForce
PROPERTIES
    WorkFindsItsTools
CHECK_DEADLOCK FALSE
