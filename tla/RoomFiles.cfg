CONSTANTS
    Member = {o, a, b}
    Founder = o
    Heir = a
    NoOne = none
    Fast = {a}
    Lead = 2
    MaxTime = 5
    o = o
    a = a
    b = b
    none = none
SPECIFICATION Spec
INVARIANTS TypeOK ListedOrRemoved
PROPERTIES LiftedByRight RevivalStands PendingHeeded RemovalReaches RevivalReaches
CHECK_DEADLOCK FALSE
