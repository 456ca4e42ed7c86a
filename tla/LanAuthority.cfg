SPECIFICATION Spec
CONSTANTS
    host = host
    ann = ann
    Host = host
    Member <- MCBoth
    Install <- MCBoth
    MaxSid = 1
    MaxAt = 3
    Crash = FALSE
INVARIANTS TypeOK Authorised HostAdmitsThisRun
PROPERTIES EvictionTerminal SeedCoversHistory
CHECK_DEADLOCK FALSE
