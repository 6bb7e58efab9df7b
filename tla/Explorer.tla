-------------------------------- MODULE Explorer ------------------------------
(***************************************************************************)
(* analyze_exploration of explorer.py: which artifacts of a campaign are   *)
(* reported as targets, and which of them are views of one effect.  The    *)
(* report is a function of the trials completed so far; a resumed campaign *)
(* adds trials and is analyzed again.                                      *)
(*                                                                         *)
(* Only semantic artifacts can become targets, so the others are left out, *)
(* and so are the scores that order the report.                            *)
(***************************************************************************)
EXTENDS Differentials, FiniteSetsExt, Folds

CONSTANTS
    Manifest,   \* the assignments of the manifest's cases
    Shown,      \* what a trial may show: sets of semantic artifacts
    MaxTrials   \* bound

\* An executed trial; complete is execution_is_complete of its evidence.
Trials == [case : Manifest, complete : BOOLEAN, shows : Shown]

\* What the trajectory.* assignments of an unperturbed schedule are.
Neutral == [barrier_mode |-> "preserve", spacing_ms |-> 0, action_jitter_ms |-> 0,
            boundary_offset_ms |-> 0, causal_mutation |-> "none"]

\* A case has these assignments, the seed marker, and its semantic assignments.
ASSUME ExplorerAssumption ==
    /\ \A assigned \in Manifest : DOMAIN assigned = DOMAIN Neutral \cup {"scheduler_seed", "semantics"}
    /\ MaxTrials \in Nat

VARIABLE analyzed   \* how many trials of each kind the campaign has

ReportInit == analyzed = [t \in Trials |-> 0]

Number(trials) == MapThenSumSet(LAMBDA t : analyzed[t], trials)

Analyze(t) ==
    /\ Number(Trials) < MaxTrials
    /\ analyzed' = [analyzed EXCEPT ![t] = @ + 1]

ReportNext == \E t \in Trials : Analyze(t)

ReportSpec == ReportInit /\ [][ReportNext]_analyzed

IsBaseline(assigned) ==
    assigned.scheduler_seed \/ \A name \in DOMAIN Neutral : assigned[name] = Neutral[name]

\* A mutant: one assignment is not taken for an operator.
MutationOperatorsUnshifted(assigned) ==
    {<<name, assigned[name]>> : name \in
        {n \in DOMAIN Neutral \ {"boundary_offset_ms"} : assigned[n] # Neutral[n]}}

MutationOperators(assigned) ==
    {<<name, assigned[name]>> : name \in {n \in DOMAIN Neutral : assigned[n] # Neutral[n]}}

SemanticKey(assigned) == assigned.semantics
TrajectoryKey(assigned) == [assigned EXCEPT !.scheduler_seed = FALSE]

Executed == {t \in Trials : analyzed[t] > 0}

\* The complete controls a mutation is compared with, in any order.
Controls(key) ==
    {t \in Executed : t.complete /\ IsBaseline(t.case) /\ SemanticKey(t.case) = key}
ControlArtifacts(key) ==
    FoldSet(LAMBDA t, shows : shows \o [i \in 1..analyzed[t] |-> t.shows], <<>>, Controls(key))

Differences(t) ==
    IF IsBaseline(t.case) \/ ~t.complete THEN {}
    ELSE SemanticTransitions(ControlArtifacts(SemanticKey(t.case)), t.shows)

Occurrences(f) == {t \in Executed : f \in t.shows \cup Differences(t)}
Clusters == UNION {t.shows \cup Differences(t) : t \in Executed}

OnlyUnderMutation(f) ==
    LET complete == {t \in Occurrences(f) : t.complete}
    IN complete # {} /\ \A t \in complete : ~IsBaseline(t.case)

\* At least two complete occurrences in at least three trials of a trajectory.
Reproduced(f, key) ==
    LET of(trials) == Number({t \in trials : TrajectoryKey(t.case) = key})
    IN of(Executed) >= 3 /\ of({t \in Occurrences(f) : t.complete}) >= 2

\* The lower bound of the 95% Wilson interval, in ten-thousandths, per number of
\* trials and of successes.
WilsonLower ==
    <<<<2065>>, <<945, 3424>>, <<615, 2077, 4385>>, <<456, 1500, 3006, 5101>>,
      <<362, 1176, 2307, 3755, 5655>>, <<301, 968, 1876, 3000, 4365, 6097>>>>
Reproducibility(f, key) ==
    LET of(trials) == Number({t \in trials : TrajectoryKey(t.case) = key})
    IN IF of(Occurrences(f)) = 0 THEN 0 ELSE WilsonLower[of(Executed)][of(Occurrences(f))]

\* A mutant: only the trajectory that was reproduced best counts, the one the
\* report calls `confirmed` by.
ConfirmedByBest(f) ==
    \E t \in Occurrences(f) :
        /\ Reproduced(f, TrajectoryKey(t.case))
        /\ \A u \in Occurrences(f) : Reproducibility(f, TrajectoryKey(u.case))
                                        <= Reproducibility(f, TrajectoryKey(t.case))

ConfirmedComplete(f) == \E t \in Occurrences(f) : Reproduced(f, TrajectoryKey(t.case))

Targets == {f \in Clusters : OnlyUnderMutation(f) /\ ConfirmedComplete(f)}

IsTransition(f) == f.family = "semantic_outcome_transition"

OperatorsOf(f) ==
    UNION {MutationOperators(t.case) : t \in {t \in Occurrences(f) : ~IsBaseline(t.case)}}

\* The transitions a direct artifact is another view of.
Views(f) ==
    {d \in Targets :
        /\ IsTransition(d)
        /\ d.signature[1] = <<"delta", f.family>>
        /\ f.outcome \in d.signature[3][2]
        /\ OperatorsOf(d) \cap OperatorsOf(f) # {}}

\* target_group_id, named by its primary; any of the views may have the least id.
TargetGroup(f) == IF IsTransition(f) \/ Views(f) = {} THEN f ELSE CHOOSE d \in Views(f) : TRUE
-----------------------------------------------------------------------------
\* A target is a claim that an effect is not seen under control conditions: only
\* another complete control can take it back.  Incomplete controls, more mutations
\* and less reproducible repetitions do not.
TargetLostOnlyToControl ==
    [][\A t \in Trials : Analyze(t) /\ ~(t.complete /\ IsBaseline(t.case))
            => Targets \subseteq Targets']_analyzed

\* An effect that was seen both directly and as a transition in one trial is
\* queued for research once: the direct artifact supports a transition.
EffectCountedOnce ==
    \A t \in Executed : \A f \in t.shows \cap Targets :
        (\E d \in Differences(t) \cap Targets : d.signature[1] = <<"delta", f.family>>
                                                    /\ f.outcome \in d.signature[3][2])
            => IsTransition(TargetGroup(f))
=============================================================================
