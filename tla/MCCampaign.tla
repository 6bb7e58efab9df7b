------------------------------ MODULE MCCampaign ------------------------------
(* Two or three cases; the first one is the baseline of the others. *)
EXTENDS CampaignProperties

Shows(found, differs) == [found |-> found, differs |-> differs]

\* One trial, started twice.
Single ==
    [numCases |-> 1, baselines |-> {1}, semantic |-> <<"a">>, bound |-> {}, broken |-> {},
     repetitions |-> 1, baselineRepetitions |-> 1, confirmations |-> 0, budget |-> 1,
     guided |-> FALSE, stopOnError |-> FALSE, materialize |-> {FALSE},
     outcomes |-> {Shows({"f"}, {})}, maxAttempts |-> 2]

\* One start of a guided campaign over two of three cases, with confirmations.
Guided ==
    [Single EXCEPT !.numCases = 3, !.semantic = <<"a", "a", "b">>, !.baselineRepetitions = 2,
                   !.confirmations = 1, !.budget = 2, !.guided = TRUE,
                   !.materialize = BOOLEAN, !.bound = {3}, !.maxAttempts = 1,
                   !.outcomes = {Shows({}, {}), Shows({"f"}, {}), Shows({}, {"g"})}]

\* Three starts over a plain case, one about policies and one that is broken.
Restarted ==
    [Single EXCEPT !.numCases = 3, !.semantic = <<"a", "a", "b">>, !.confirmations = 1,
                   !.budget = 3, !.stopOnError = TRUE, !.materialize = BOOLEAN,
                   !.bound = {2}, !.broken = {3}, !.maxAttempts = 3]

MCSettings == {Guided, Restarted}
MCSingle == {Single}
=============================================================================
