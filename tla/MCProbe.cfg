\* Scripted schedules and plain modes of a writer and a reader.
SPECIFICATION FairSpec
CONSTANTS
    Scenes <- MCScenes
    MaxRevocations = 1
INVARIANTS NothingDangles CleanExitIsWhole SchedulesAttributable
PROPERTIES WaitsTellTheTruth RolesEnd
\* Processes exit.
CHECK_DEADLOCK FALSE
