CONSTANTS
    Member = {o, a, b}
    Founder = o
    NoOne = none
    Invited = {b}
    Ahead = {a}
    Slow = {o}
    Returns = TRUE
    Limit = 2
    MaxCode = 2
    MaxNet = 1
    o = o
    a = a
    b = b
    none = none
SPECIFICATION Spec
INVARIANTS TypeOK SoleOwner KickByOwner NoBannedOwner
PROPERTIES ImplementsOwnerLine HandoverReaches BansReach
CHECK_DEADLOCK FALSE
