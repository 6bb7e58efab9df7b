\* A pool of trajectories: only its first case is marked.
SPECIFICATION Spec
CONSTANTS
    Cases = {1, 2, 3, 4}
    Semantic <- MCSemantic
    Controls <- MCControls
    Marked <- MCSeedOnly
    Features = {f, g}
    StopOnError = FALSE
    NoCase = 0
    Budget = 4
    Window = 2
    MaxStarts = 1
INVARIANTS MutationAfterControl
\* The last campaign ends.
CHECK_DEADLOCK FALSE
