-------------------------------- MODULE Analysis ------------------------------
(***************************************************************************)
(* What is concluded from an execution that has ended: the projection, the *)
(* artifacts and the candidates of its evidence, which is in the order of  *)
(* reading when an event has no time.                                      *)
(***************************************************************************)
EXTENDS Evaluation, Candidates

Scenario == case.scenario

\* The oracles' results, and the processes that failed or did not end.
Results(evidence) ==
    {LET r == Assess(Scenario, a, evidence)
     IN [oracle |-> a.oracle, status |-> r.status, cited |-> r.cited] : a \in case.assertions}
Broken(evidence) == Failed(evidence) \cup Incomplete(evidence)

Candidates(evidence) == Leads(Scenario, evidence, Results(evidence), Broken(evidence))
Families(candidates) == {c.family : c \in candidates}
-----------------------------------------------------------------------------
(* Properties.                                                             *)

\* The relations accepted as causal (ARTIFACT_MODEL.md:46).
Ordered(e, f) ==
    \/ e.actor = f.actor
    \/ \E name \in {"message", "fingerprint"} : Attr(e, name) # None /\ Attr(e, name) = Attr(f, name)

CausalOrderRead ==
    \A i, j \in DOMAIN read : i < j /\ Ordered(emitted[read[i]], emitted[read[j]]) => read[i] < read[j]

\* These compare the order of events of different actors.
Sequential == {"replay_redelivery_observed", "replay_suppression_observed",
               "split_enforcement_after_revocation"}

Timeless(artifacts) == {Fingerprint(a) : a \in {b \in artifacts : b.family \notin Sequential}}

\* If events of one actor and events that share an identifier are read in the
\* order they were written, the interleaving of the logs is no observation
\* (coverage.py:130): not of the features, of a difference to a control, of an
\* artifact, but for those that need the times, nor of a schedule difference.
UnrelatedOrderHarmless ==
    ~Running /\ Evidence # Written /\ CausalOrderRead =>
        /\ Features(Evidence) = Features(Written)
        /\ Changed(<<Projection(Written)>>, Projection(Evidence)) = {}
        /\ Timeless(SemanticArtifacts(Scenario, Evidence)) = Timeless(SemanticArtifacts(Scenario, Written))
        /\ ScheduleDifferences(Profile(Scenario, Written), Profile(Scenario, Evidence)) = {}

\* The exported slice supports the artifact (ARTIFACT_MODEL.md:11): from its
\* events alone the same artifact is discovered.  A suppressed replay names the
\* topics of samples that are not in the slice.
SliceSupportsArtifact ==
    ~Running => \A a \in SemanticArtifacts(Scenario, Evidence) :
        \/ a.family = "replay_suppression_observed"
        \/ \E b \in SemanticArtifacts(Scenario, Part(Evidence, CausalSlice(Evidence, a.seeds))) :
              Fingerprint(a) = Fingerprint(b)

\* Coverage, artifacts and candidates each look for a delivery after a
\* revocation and for a replay's second delivery: they find the same.
ViewsAgree ==
    ~Running =>
        LET artifacts == Families(SemanticArtifacts(Scenario, Evidence))
            leads == Families(Observed(Scenario, Evidence))
            anomalies == Anomalies(Evidence)
        IN /\ "post_revocation_delivery_observed" \in artifacts <=> "credential_revocation_bypass" \in leads
           /\ "credential_revocation_bypass" \in leads <=> <<"post_revocation_application_delivery">> \in anomalies
           /\ "replay_redelivery_observed" \in artifacts <=> "transport_replay_duplicate_delivery" \in leads
           /\ "transport_replay_duplicate_delivery" \in leads => <<"duplicate_application_delivery">> \in anomalies

\* An accusation is told by a candidate: by one that cites its events, or, when
\* the policy is exceeded, by one for each actor that was granted too much.
AccusationsAreLed ==
    ~Running => \A r \in Results(Evidence) :
        \/ r.status # "violation"
        \/ \E c \in Candidates(Evidence) : r.cited \subseteq c.events
        \/ /\ r.oracle = "policy_authorization_consistency"
           /\ \A i \in r.cited : \E c \in Candidates(Evidence) :
                 /\ c.family \in {"policy_overgrant", "unauthorized_application_delivery"}
                 /\ Evidence[i].actor \in c.actors
=============================================================================
