SPECIFICATION Spec
CONSTANTS
    host = host
    ann = ann
    Host = host
    Member <- MCBoth
    Install <- MCBoth
    MaxSid = 2
    MaxAt = 3
    Crash = FALSE
INVARIANTS FloorIsHighest
CHECK_DEADLOCK FALSE
