----------------------------- MODULE MCTransport -----------------------------
(* Small plans for the shim: see the configurations. *)
EXTENDS TransportFaultProperties

CONSTANTS app, rtps, nobody
MCSenders == {app, rtps}

Step(op, count, early) == [op |-> op, count |-> count, early |-> early]

\* A capture, a drop, and a capture that may land while the replay runs.
ReplayPlan == <<Step("capture", 1, TRUE), Step("drop", 1, FALSE),
                Step("replay", 1, TRUE), Step("capture", 1, FALSE)>>
\* A delay and copies behind a drop.
DelayPlan == <<Step("drop", 1, TRUE), Step("delay", 1, TRUE), Step("duplicate", 2, FALSE)>>
\* Two drops before the first datagram.
TwoDrops == <<Step("drop", 1, TRUE), Step("drop", 1, TRUE)>>
\* Counters that wrap, and a replay with nothing to send.
WrapPlan == <<Step("replay", 1, TRUE), Step("drop", 3, FALSE), Step("drop", 2, FALSE),
              Step("capture", 1, TRUE)>>

MCConfigs == {[plan |-> ReplayPlan, caller |-> nobody], [plan |-> DelayPlan, caller |-> nobody],
              [plan |-> WrapPlan, caller |-> app]}
MCTwoDrops == {[plan |-> TwoDrops, caller |-> nobody]}
=============================================================================
