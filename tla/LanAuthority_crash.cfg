SPECIFICATION Spec
CONSTANTS
    host = host
    ann = ann
    Host = host
    Member <- MCBoth
    Install <- MCHost
    MaxSid = 1
    MaxAt = 5
    Crash = TRUE
INVARIANTS HostAdmitsThisRun
CHECK_DEADLOCK FALSE
