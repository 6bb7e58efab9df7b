------------------------------- MODULE Artifacts ------------------------------
(***************************************************************************)
(* artifacts.py: the runtime artifacts of one execution, and what a        *)
(* mutation changes against its controls.  An artifact has an identity (a  *)
(* family, an outcome, actors, resources and a signature), the events that *)
(* establish it, its seeds, and its place in the list, `at`.               *)
(***************************************************************************)
EXTENDS Coverage, Differentials, SequencesExt

ContextFamilies == {"boundary_episode", "baseline_runtime_divergence"}
DiagnosticFamilies == {"instrumentation_divergence", "runtime_memory_diagnostic"}

ArtifactClass(artifact) ==
    IF artifact.family \in DiagnosticFamilies THEN "diagnostic"
    ELSE IF artifact.family \in ContextFamilies THEN "context" ELSE "semantic"

Capabilities == {"capability.decrypt", "capability.forge", "crypto.protected_message_accepted"}
Standalone == Capabilities \cup {"access_control.decision", "memory_safety.violation", "execution.divergence"}
BoundaryKinds ==
    Standalone \cup FaultKinds \cup
    {"credential.revoked", "authorization.revoked", "key.rotated", "endpoint.destroyed",
     "endpoint.recreated", "participant.disconnected", "participant.reconnected"}

PhaseKinds ==
    [identity |-> {"credential.authenticated", "credential.revoked"},
     authorization |-> {"authorization.revoked", "access_control.decision"},
     key_distribution |-> {"crypto_token.generated", "crypto_token.observed", "key_material.observed"},
     key_lifecycle |-> {"key.rotated"},
     cryptographic_capability |-> Capabilities,
     endpoint_lifecycle |-> {"endpoint.created", "endpoint.destroyed", "endpoint.recreated", "endpoint.matched"},
     participant_lifecycle |-> {"participant.disconnected", "participant.reconnected"},
     transport |-> FaultKinds \cup {"transport.fault_armed"},
     application |-> {"application.write_attempt", "application.sample_written",
                      "application.sample_received", "application.observation_window"},
     runtime_diagnostic |-> {"memory_safety.violation"},
     instrumentation |-> {"execution.divergence", "probe.observer_error"}]

Phases(ev, indexes) ==
    {phase \in DOMAIN PhaseKinds : \E i \in indexes : ev[i].kind \in PhaseKinds[phase]}

\* Nothing diverged, no observer or process failed, and every role ended.
ExecutionComplete(roles, ev) ==
    /\ \A i \in DOMAIN ev : /\ ev[i].kind \notin {"execution.divergence", "probe.observer_error"}
                            /\ ev[i].kind = "process.exit" => ev[i].outcome = "succeeded"
    /\ roles \subseteq {ev[i].actor : i \in Events(ev, LAMBDA e : e.kind = "process.exit")}

-----------------------------------------------------------------------------
(* The events an artifact is exported with.                                *)

\* Here the actions of two roles with the same name are one.
Correlations(e) ==
    {<<"action", a>> : a \in {Attr(e, "action"), Attr(e, "source_action")} \ {None}}
    \cup {<<"message", m>> : m \in {Attr(e, "message")} \ {None}}
    \cup {<<"key_fingerprint", f>> : f \in {Attr(e, "fingerprint")} \ {None}}

\* A mutant: what the seeds are correlated with, not the seeds.
CorrelatesAlone(ev, seeds) ==
    {j \in DOMAIN ev : \E i \in seeds : Correlations(ev[i]) \cap Correlations(ev[j]) # {}}

\* The seeds and all that correlations lead to from them.
Correlates(ev, seeds) ==
    LET shared == [i \in DOMAIN ev |-> Correlations(ev[i])]
        closed[n \in 0..Len(ev)] ==
            IF n = 0 THEN seeds
            ELSE LET within == closed[n - 1]
                 IN within \cup {j \in DOMAIN ev : \E i \in within : shared[i] \cap shared[j] # {}}
    IN closed[Len(ev)]

\* With one event of the actor before each; that one leads no further.
CausalSlice(ev, seeds) ==
    Correlates(ev, seeds) \cup UNION {Preceding(ev, i, 1) : i \in Correlates(ev, seeds)}

Artifact(at, family, outcome, actors, resources, signature, seeds) ==
    [at |-> at, family |-> family, outcome |-> outcome, actors |-> actors,
     resources |-> resources, signature |-> signature, seeds |-> seeds]

Fingerprint(artifact) ==
    [family |-> artifact.family, outcome |-> artifact.outcome, actors |-> artifact.actors,
     resources |-> artifact.resources, signature |-> artifact.signature]

Topics(ev, indexes) == {Attr(ev[i], "topic") : i \in indexes} \ {None}
ActorsOf(ev, indexes) == {ev[i].actor : i \in indexes}
Pair(ev, i, j) == i * Len(ev) + j

-----------------------------------------------------------------------------
(* The families.                                                           *)

Succeeded(ev) == Events(ev, LAMBDA e : e.kind = "application.sample_written" /\ e.outcome = "succeeded")
Delivered(ev) == Events(ev, LAMBDA e : e.kind = "application.sample_received" /\ e.outcome = "received")
Windows(ev) == Events(ev, LAMBDA e : e.kind = "application.observation_window")

\* A write of a revoked actor was delivered, or a later window shows no delivery.
RevocationArtifact(s, ev, r, w) ==
    LET deliveries == {i \in Delivered(ev) \cap OfSample(ev, Receipts(ev), w) : i > w /\ w \in Writes(ev)}
        windows == {i \in Windows(ev) : i > w}
        terminal == IF deliveries # {} THEN deliveries ELSE windows
        outcome == IF deliveries # {} THEN "delivered" ELSE "locally_accepted_remotely_suppressed"
    IN IF terminal = {} THEN {} ELSE
       {Artifact(Pair(ev, r, w),
            IF deliveries # {} THEN "post_revocation_delivery_observed"
            ELSE "split_enforcement_after_revocation",
            outcome, {ev[r].actor} \cup ActorsOf(ev, terminal),
            IF Topics(ev, {w}) # {} THEN Topics(ev, {w}) ELSE s.topics,
            <<<<"revoked", ev[r].actor>>, <<"write", ev[r].actor>>, <<"delivery", outcome>>>>,
            {r, w} \cup terminal)}

Revocations(s, ev) ==
    UNION {RevocationArtifact(s, ev, p[1], p[2]) :
             p \in {q \in LocalRevocations(ev) \X Succeeded(ev) :
                      q[1] < q[2] /\ ev[q[1]].actor = ev[q[2]].actor}}

\* Samples a reader received before and after the event i, by their receipts.
Redelivered(ev, i) ==
    LET Same(j) == {k \in Delivered(ev) \cap Receipts(ev) : SampleKey(ev[k]) = SampleKey(ev[j])}
        Keyed == {j \in Delivered(ev) \cap Receipts(ev) :
                      None \notin {Attr(ev[j], "topic"), Attr(ev[j], "sample")}}
    IN {j \in Keyed : Min(Same(j)) < i /\ i < Max(Same(j))}

Replayed(ev) == Events(ev, LAMBDA e : e.kind = "transport.datagram_replayed" /\ e.outcome = "replayed")

\* A replay between two receipts of a sample, or one no window shows an effect of.
ReplayArtifact(ev, r) ==
    LET duplicated == Redelivered(ev, r)
        windows == {i \in Windows(ev) : i > r}
        seeds == IF duplicated # {} THEN duplicated ELSE windows
        outcome == IF duplicated # {} THEN "redelivered" ELSE "suppressed"
        samples == Events(ev, LAMBDA e : e.kind \in {"application.sample_written",
                                                     "application.sample_received"})
    IN IF seeds = {} THEN {} ELSE
       {Artifact(r,
            IF duplicated # {} THEN "replay_redelivery_observed" ELSE "replay_suppression_observed",
            outcome, {ev[r].actor} \cup ActorsOf(ev, seeds),
            Topics(ev, IF duplicated # {} THEN duplicated ELSE samples),
            <<<<"replay", ev[r].actor>>, <<"delivery", outcome>>>>, {r} \cup seeds)}

Replays(ev) == UNION {ReplayArtifact(ev, r) : r \in Replayed(ev)}

UserKeys(ev) ==
    Events(ev, LAMBDA e : /\ e.kind = "key_material.observed" /\ e.outcome = "observed"
                          /\ e.endpoint_class = "user" /\ e.fingerprint # None)

\* The keys of an actor before its latest disconnection and after a reconnection.
KeyEpochs(ev) ==
    LET Generated(actor) == {i \in UserKeys(ev) : ev[i].actor = actor /\ ev[i].phase = "generated"}
        Disconnected(i) == {j \in 1..(i - 1) : /\ ev[j].actor = ev[i].actor
                                               /\ ev[j].kind = "participant.disconnected"}
        Keys(indexes) == {ev[i].fingerprint : i \in indexes}
        Before(i) == Keys({k \in Generated(ev[i].actor) : k < Max(Disconnected(i))})
        After(i) == Keys({k \in Generated(ev[i].actor) : k > i})
        Outcome(i) == IF Before(i) \cap After(i) # {} THEN "reused"
                      ELSE IF Before(i) # {} /\ After(i) # {} THEN "fresh" ELSE "partially_observed"
        epochs == {i \in Events(ev, LAMBDA e : e.kind = "participant.reconnected") :
                     Disconnected(i) # {} /\ Before(i) \cup After(i) # {}}
    IN {Artifact(i, "participant_key_epoch_transition", Outcome(i), {ev[i].actor}, {},
            <<<<"disconnect", ev[i].actor>>, <<"reconnect", ev[i].actor>>, <<"epoch", Outcome(i)>>>>,
            {Max(Disconnected(i)), i} \cup Generated(ev[i].actor)) : i \in epochs}

\* Who generated and who received a key; the key itself is not told.
KeyRecipients(ev) ==
    LET Members(f) == {i \in UserKeys(ev) : ev[i].fingerprint = f}
        In(f, phase) == ActorsOf(ev, {i \in Members(f) : ev[i].phase = phase})
        Outcome(f) == IF In(f, "received") = {} THEN "no_received_observation"
                      ELSE IF Cardinality(In(f, "received")) = 1 THEN "single_recipient"
                      ELSE "multiple_recipients"
        shown == {f \in {ev[i].fingerprint : i \in UserKeys(ev)} : In(f, "generated") # {}}
    IN {Artifact(Min(Members(f)), "key_recipient_topology", Outcome(f),
            In(f, "generated") \cup In(f, "received"), {},
            <<<<"generators", Cardinality(In(f, "generated"))>>,
              <<"recipients", Cardinality(In(f, "received"))>>,
              <<"shapes", {<<ev[i].token_class, ev[i].key_class, ev[i].semantics>> : i \in Members(f)}>>>>,
            Members(f)) : f \in shown}

\* One participant identity of several actors, or several of one.
IdentityBindings(ev) ==
    LET bound == Events(ev, LAMBDA e : e.kind = "credential.authenticated" /\ Attr(e, "guid") # None)
        Actors(guid) == ActorsOf(ev, {i \in bound : ev[i].guid = guid})
        Guids(actor) == {ev[i].guid : i \in {j \in bound : ev[j].actor = actor}}
        collided == {ev[i].actor : i \in {j \in bound : Cardinality(Actors(ev[j].guid)) > 1}}
        Reconnects(actor) == Events(ev, LAMBDA e : e.actor = actor /\ e.kind = "participant.reconnected")
        Outcome(actor) == IF Reconnects(actor) = {} THEN "multiple_bindings_observed"
                          ELSE "rebound_after_reconnect"
        At(actors) == {i \in bound : ev[i].actor \in actors}
    IN (IF collided = {} THEN {} ELSE
        {Artifact(0, "identity_guid_binding", "cross_actor_binding", collided, {},
            <<<<"cross_actor", collided>>>>, At(collided))})
       \cup {Artifact(Min(At({actor})), "identity_guid_binding", Outcome(actor), {actor}, {},
                <<<<"rebound", actor>>>>, At({actor}) \cup Reconnects(actor)) :
               actor \in {a \in ActorsOf(ev, bound) : Cardinality(Guids(a)) > 1}}

RevokedCapabilities(ev) ==
    LET Used(r) == {i \in (r + 1)..Len(ev) : ev[i].actor = ev[r].actor /\ ev[i].kind \in Capabilities}
        revoked == Events(ev, LAMBDA e : e.kind \in {"credential.revoked", "authorization.revoked"})
    IN {Artifact(r, "post_revocation_capability", "observed_after_revocation", {ev[r].actor}, {},
            <<<<"revocation", ev[r].kind>>, <<"capabilities", {ev[i].kind : i \in Used(r)}>>>>,
            {r} \cup Used(r)) : r \in {i \in revoked : Used(i) # {}}}

\* The last n of some indexes.
LastOf(indexes, n) == {i \in indexes : Cardinality({j \in indexes : j > i}) < n}

\* What an observation window counted.
DeliveryCardinality(ev) ==
    LET Outcome(e) == IF e.observed_samples = e.expected_samples THEN "exact"
                      ELSE IF e.observed_samples < e.expected_samples THEN "missing" ELSE "excess"
        Related(i) == {j \in 1..i : ev[j].kind \in {"application.sample_written",
                          "application.sample_received", "transport.datagram_replayed", "credential.revoked"}}
    IN {Artifact(i, "delivery_cardinality", Outcome(ev[i]), {ev[i].actor}, Topics(ev, {i}),
            <<<<"cardinality", Outcome(ev[i])>>, <<"expected", Count(ev[i].expected_samples)>>,
              <<"observed", Count(ev[i].observed_samples)>>>>,
            LastOf(Related(i), 8) \cup {i}) : i \in Windows(ev)}

Diagnostics(ev) ==
    {Artifact(i, "runtime_memory_diagnostic", "detected", {ev[i].actor}, {},
        <<<<"memory_safety", Attr(ev[i], "violation")>>>>, {i}) :
       i \in Events(ev, LAMBDA e : e.kind = "memory_safety.violation")}
    \cup {Artifact(i, "instrumentation_divergence", ev[i].outcome, {ev[i].actor}, {},
             <<<<"instrumentation", ev[i].kind>>>>, {i}) :
            i \in Events(ev, LAMBDA e : e.kind \in {"execution.divergence", "probe.observer_error"})}

\* The events of a slice as states, a repeated state once.
Tokens(ev, slice) ==
    LET first == {i \in slice : \A j \in slice : j < i => SemanticState(ev[j]) # SemanticState(ev[i])}
        order == SetToSortSeq(first, <)
    IN [i \in DOMAIN order |-> <<"token", SemanticState(ev[order[i]])>>]

\* A boundary event and what its actor did next, if more than one phase is crossed.
BoundaryEpisodes(ev) ==
    LET Onward(i) == {j \in i..Len(ev) :
            /\ ev[j].actor = ev[i].actor /\ ev[j].kind \notin {"action.started", "action.completed"}
            /\ Cardinality({k \in i..(j - 1) : /\ ev[k].actor = ev[i].actor
                                               /\ ev[k].kind \notin {"action.started", "action.completed"}}) < 5}
        triggers == {i \in DOMAIN ev : /\ ev[i].kind \in BoundaryKinds
                                       /\ \/ ev[i].kind \in Standalone
                                          \/ Cardinality(Phases(ev, Onward(i))) >= 2}
    IN {Artifact(i, "boundary_episode", ev[i].outcome, {ev[i].actor}, Topics(ev, Onward(i)),
            Tokens(ev, CausalSlice(ev, Onward(i))), Onward(i)) : i \in triggers}

\* Of artifacts with the same fingerprint the first one is exported.
Distinct(artifacts) ==
    {a \in artifacts : \A b \in artifacts : Fingerprint(a) = Fingerprint(b) => a.at <= b.at}

SemanticArtifacts(s, ev) ==
    Distinct(Revocations(s, ev) \cup Replays(ev) \cup KeyEpochs(ev) \cup KeyRecipients(ev)
             \cup IdentityBindings(ev) \cup RevokedCapabilities(ev) \cup DeliveryCardinality(ev))

Discovered(s, ev) ==
    SemanticArtifacts(s, ev) \cup Distinct(Diagnostics(ev)) \cup Distinct(BoundaryEpisodes(ev))

=============================================================================
