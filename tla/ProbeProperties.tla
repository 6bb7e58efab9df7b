--------------------------- MODULE ProbeProperties ----------------------------
(* What the native probe and the schedules it is given should satisfy. *)
EXTENDS Probe

Ended(role) == Len(waits'[role]) > Len(waits[role])
Answer(role) == Last(waits'[role])

\* wait_for: a wait for samples answers by the samples that were reported and
\* counted, whether it was woken, was not woken by a notification that came
\* between its look and its sleep, or is late; and endpoint.matched is never
\* reported of a writer that has not been matched, whatever the count was for
\* the one before it.
WaitsTellTheTruth ==
    [][/\ Ended("reader") /\ Answer("reader").operation \in {"sample.wait", "sample.observe"}
          => Answer("reader").reached =
                (Len(took) - (IF callback = "took" THEN 1 ELSE 0) >= Current("reader").target)
       /\ Ended("writer") /\ Answer("writer").operation = "endpoint.wait_match"
          /\ Answer("writer").reached => linked]_vars

\* The order of declarations: an endpoint never outlives its participant or its
\* listener, a participant never its listener, a callback never its endpoint.
NothingDangles ==
    /\ \A role \in Roles :
        /\ "endpoint" \in held[role] => {"listener", "participant"} \subseteq held[role]
        /\ "participant" \in held[role] => "participant listener" \in held[role]
    /\ callback # "idle" => {"listener", "endpoint"} \subseteq held["reader"]

\* A probe that exits with 0 has seen what it waited for, to the end of its
\* program or to the denial it was told to expect; 4 means the access decision
\* was not the expected one.
CleanExitIsWhole ==
    \A role \in Roles : pc[role] = "exited" /\ code[role] = 0 =>
        /\ \A i \in DOMAIN waits[role] :
            waits[role][i].operation # "sample.observe" => waits[role][i].reached
        /\ More(role) => scene.mode[role] # "scripted" /\ ~scene.expected[role]

\* Every wait has a time-out, so a probe that was started exits.
RolesEnd == \A role \in Roles : pc[role] # "new" ~> pc[role] = "exited"

\* A schedule is one that parse_scenario accepts, which raises if a barrier names
\* a later role or the times of a plan decrease.  A causal mutation changes the
\* order of exactly one pair of adjacent actions, one of them a boundary, within
\* the times of the plan; no other schedule changes the order of actions.
SchedulesAttributable ==
    LET inverted == Inverted(scene.base, scene.schedule)
        crossing == scene.descriptor.crossing
        times(scenario) == [i \in DOMAIN RoleOf(scenario, crossing.actor).plan |->
                                RoleOf(scenario, crossing.actor).plan[i].at]
    IN /\ Parses(scene.schedule)
       /\ crossing = NoCrossing => inverted = {}
       /\ crossing # NoCrossing =>
            /\ inverted = {<<crossing.actor, crossing.slot, crossing.slot + 1>>}
            /\ \E k \in {crossing.slot, crossing.slot + 1} :
                RoleOf(scene.base, crossing.actor).plan[k].operation \in CausalBoundary
            /\ times(scene.base) = times(scene.schedule)
=============================================================================
