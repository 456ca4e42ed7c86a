SPECIFICATION FairSpec
CONSTANTS
    MaxRestarts = 2
    MaxExits = 3
    LateOutput = TRUE
    SpawnErrors = TRUE
    FilesBusy = TRUE
INVARIANTS TypeOK FilesExclusive StopIsTimed
PROPERTIES NoRevival SpawnsAllowed StrandedByDeletion StopEnds ParkedEnds
CHECK_DEADLOCK FALSE
