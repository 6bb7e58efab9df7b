----------------------- MODULE TransportFaultProperties -----------------------
(* What the shim promises of the faults it applies, over the trace of what *)
(* it put on the wire and what it reported.                                *)
EXTENDS TransportFault, FiniteSets

Positions(Test(_)) == {i \in DOMAIN trace : Test(trace[i])}
Reported(kind, id) == \E i \in DOMAIN trace : trace[i].kind = kind /\ trace[i].id = id
Busy == {s \in Senders : sender[s].pc # "idle"}

\* What the armed actions of a fault ask for.
Requested(f) ==
    SumFunctionOnSet([i \in Ids |-> Plan[i].count],
                     {i \in Ids : i < next /\ Plan[i].op = f})

\* No request for a drop or a capture is lost or served twice, whatever the
\* threads do: what was reported, what a call still has to report and what
\* is left add up to what the actions armed, as counters of Width values.
FaultsAccounted ==
    \A f \in {"drop", "capture"} :
        LET kind == IF f = "drop" THEN "dropped" ELSE "captured"
            reported == Cardinality(Positions(LAMBDA e : e.kind = kind))
            due == Cardinality({s \in Busy :
                        IF f = "drop" THEN /\ sender[s].pc \in {"capture", "drop"}
                                           /\ sender[s].drop # None
                        ELSE sender[s].pc = "capture"})
        IN (reported + due + remaining[f]) % Width = Requested(f) % Width

\* The duplicated event is about a datagram that left before it.
DuplicatesFollowOriginal ==
    \A i \in DOMAIN trace :
        trace[i].kind = "duplicated" \/ (trace[i].kind = "wire" /\ trace[i].id # None
                                         /\ Plan[trace[i].id].op = "duplicate")
        => \E j \in 1..(i - 1) : trace[j] = Entry("wire", None, trace[i].data, None)

\* A replay that names a capture resends a datagram that capture kept: it has
\* been reported as captured under that id, or the call that kept it is about
\* to report it.  A later capture cannot put another id on the bytes.
ReplayNamesItsSource ==
    \A i \in DOMAIN trace : LET e == trace[i] IN
        e.source # None =>
            \/ \E j \in DOMAIN trace : trace[j] = Entry("captured", e.source, e.data, None)
            \/ \E s \in Busy : /\ sender[s].pc = "capture" /\ sender[s].capture = e.source
                               /\ Data(s) = e.data

\* Every replay ends, also one that finds nothing to resend, and without an
\* explicit caller the whole plan is applied.
PlanApplied ==
    /\ (replay.pc # "no") ~> (replay.pc = "no")
    /\ (Caller = Nobody) ~> (next > Len(Plan))

\* README of the shim: every armed or applied fault emits an event correlated
\* with its action.  Read at rest: when a fault's requests are used up, each
\* of its actions has its own applied event.
ActionsCorrelated ==
    \A i \in Ids :
        (/\ i < next /\ Plan[i].op \in {"drop", "capture"}
         /\ remaining[Plan[i].op] = 0 /\ Busy = {})
        => Reported(IF Plan[i].op = "drop" THEN "dropped" ELSE "captured", i)
=============================================================================
