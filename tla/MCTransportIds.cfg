\* Two drops armed before a datagram.
SPECIFICATION FairSpec
CONSTANTS
    app = app
    rtps = rtps
    nobody = nobody
    Senders <- MCSenders
    Nobody = nobody
    Configs <- MCTwoDrops
    MayFail = FALSE
    Width = 4
    MaxSends = 2
INVARIANTS ActionsCorrelated
\* The program may stop sending at any time.
CHECK_DEADLOCK FALSE
