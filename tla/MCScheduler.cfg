\* Two campaigns over a pool whose controls are the marked cases.
SPECIFICATION Spec
CONSTANTS
    Cases = {1, 2, 3, 4}
    Semantic <- MCSemantic
    Controls <- MCControls
    Marked <- MCControls
    Features = {f, g}
    StopOnError = TRUE
    NoCase = 0
    Budget = 4
    Window = 2
    MaxStarts = 2
INVARIANTS MutationAfterControl NovelOnce PlateauSound
 
\* The last campaign ends.
CHECK_DEADLOCK FALSE
