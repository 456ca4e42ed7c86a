SPECIFICATION Spec
CONSTANTS
    host = host
    ann = ann
    Host = host
    Member <- MCBoth
    Install <- MCHost
    MaxSid = 2
    MaxAt = 3
    Crash = FALSE
PROPERTIES EvictionRotates
CHECK_DEADLOCK FALSE
