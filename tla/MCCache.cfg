\* Two callers of one pod, two keys, one slot, with no help from upstream or Redis.
SPECIFICATION FairSpec
CONSTANTS
    Caller = {c1, c2}
    Pod = {p1}
    Key = {k1, k2}
    MaxPending = 1
    Nobody = Nobody
INVARIANTS
    TypeOK
    SingleFlight
    LeavingHurtsNobody
    OnlyFactsAreStored
    PaidWorkIsKept
    SlotsAreBounded
PROPERTIES
    EveryoneIsAnswered
    PendingDrains
CHECK_DEADLOCK FALSE
