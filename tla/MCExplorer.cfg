\* Every campaign of up to five trials.
SPECIFICATION ReportSpec
CONSTANTS
    Manifest <- MCManifest
    Shown <- MCShown
    MaxTrials = 5
INVARIANT EffectCountedOnce
PROPERTY TargetLostOnlyToControl
\* The campaign ends.
CHECK_DEADLOCK FALSE
