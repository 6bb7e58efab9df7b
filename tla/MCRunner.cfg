\* Two roles that may write malformed lines; partial traces kept or not.
SPECIFICATION FairSpec
CONSTANTS
    NumRoles = 2
    Kinds <- MCKinds
    Emits <- MCEmits
    Barriers <- MCBarriers
    Offset <- MCOffset
    Contract <- MCContract
    Deadline = 2
    Preserve = {TRUE, FALSE}
    MaxLines = 3
INVARIANTS EventsExactlyOnce CleanRunIsWhole NoRoleOutlivesRun PartialTraceIsWhole
PROPERTIES LaunchAfterBarriers RunEnds ImplementsContract
\* A run of a scenario stops when it is done.
CHECK_DEADLOCK FALSE
