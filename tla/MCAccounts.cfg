\* Two requests at a time over an administrator and an account to come.
SPECIFICATION Spec
CONSTANTS
    User = {root, u1}
    Admin = {root}
    Email = {m1, m2}
    Token = {t1, t2}
    Request = {r1, r2}
    None = None
SYMMETRY Symmetry
INVARIANTS
    TypeOK
    IdentitiesAreDistinct
    CommittedTogether
    SpentTokensAreDead
PROPERTIES
    LiveLinkSurvives
CHECK_DEADLOCK FALSE
