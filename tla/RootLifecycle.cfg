SPECIFICATION Spec
CONSTANTS
    Roots = {r1, r2, r3}
    Subs = {s1, s2}
    NoOne = NoOne
INVARIANTS
    TypeOK
    EveryRuntimeIsOwned
    AttachedRootIsWhole
    SessionCloseReleases
PROPERTIES
    CloseEnds
CHECK_DEADLOCK FALSE
