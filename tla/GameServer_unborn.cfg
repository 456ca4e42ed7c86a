SPECIFICATION Spec
CONSTANTS
    MaxRestarts = 2
    MaxExits = 3
    LateOutput = FALSE
    SpawnErrors = TRUE
    FilesBusy = FALSE
INVARIANTS RefusedOnlyWhenUp
CHECK_DEADLOCK FALSE
