SPECIFICATION Spec
CONSTANTS
    MaxRestarts = 2
    MaxExits = 3
    LateOutput = TRUE
    SpawnErrors = FALSE
    FilesBusy = FALSE
INVARIANTS UpMeansProcess
CHECK_DEADLOCK FALSE
