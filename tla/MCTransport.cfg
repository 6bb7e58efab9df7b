\* Replay, delay and copies, explicit control with counters that wrap.
SPECIFICATION FairSpec
CONSTANTS
    app = app
    rtps = rtps
    nobody = nobody
    Senders <- MCSenders
    Nobody = nobody
    Configs <- MCConfigs
    MayFail = TRUE
    Width = 4
    MaxSends = 2
INVARIANTS FaultsAccounted ReplayNamesItsSource DuplicatesFollowOriginal
 
\* The program may stop sending at any time.
CHECK_DEADLOCK FALSE
