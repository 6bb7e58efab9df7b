-------------------------------- MODULE Coverage ------------------------------
(***************************************************************************)
(* What coverage.py takes from the evidence of a run: the semantic states  *)
(* of events, which leave out identifiers of the run, and what their order *)
(* shows.  Events are ordered where they share an actor, or an explicit    *)
(* identifier: an action, a message, or the fingerprint of a key.          *)
(***************************************************************************)
EXTENDS Oracles

Attr(e, name) == IF name \in DOMAIN e THEN e[name] ELSE None

SemanticAttributes ==
    {"operation", "endpoint", "topic", "token_class", "endpoint_class", "phase", "key_class",
     "semantics", "rotation_kind", "context", "fault", "local_identity",
     "lifecycle_epoch", "participant_epoch", "expected_samples", "observed_samples"}

Count(n) == IF n = 0 THEN "zero" ELSE IF n = 1 THEN "one" ELSE "many"

Bucket(name, value) ==
    IF name \in {"expected_samples", "observed_samples"} THEN Count(value)
    ELSE IF name \in {"lifecycle_epoch", "participant_epoch"}
    THEN IF value <= 1 THEN "first" ELSE "later"
    ELSE value

SemanticState(e) ==
    [name \in {n \in SemanticAttributes \cap DOMAIN e : e[n] # None} \cup {"actor", "kind", "outcome"}
        |-> Bucket(name, e[name])]

States(ev) == {SemanticState(ev[i]) : i \in DOMAIN ev}

\* Two roles may name their actions alike: the actor belongs to the key.
CorrelationKeys(e) ==
    {<<"action", <<e.actor, a>>>> : a \in {Attr(e, "action"), Attr(e, "source_action")} \ {None}}
    \cup {<<"message", m>> : m \in {Attr(e, "message")} \ {None}}
    \cup {<<"key_fingerprint", f>> : f \in {Attr(e, "fingerprint")} \ {None}}

-----------------------------------------------------------------------------
(* The history of an actor: its events before event i, the latest first.   *)

\* A mutant: the latest events before i, of whatever actor.
PrecedingOfAny(ev, i, count) ==
    {j \in 1..(i - 1) : j >= i - count}

Preceding(ev, i, count) ==
    {j \in 1..(i - 1) : /\ ev[j].actor = ev[i].actor
                        /\ Cardinality({k \in (j + 1)..(i - 1) : ev[k].actor = ev[i].actor}) < count}

ActorTransitions(ev) ==
    {<<"actor", SemanticState(ev[p[1]]), SemanticState(ev[p[2]])>> :
        p \in {q \in (DOMAIN ev) \X (DOMAIN ev) : q[1] \in Preceding(ev, q[2], 1)}}

Motifs(ev) ==
    {LET before == Preceding(ev, i, 2)
     IN <<"actor3", SemanticState(ev[Min(before)]), SemanticState(ev[Max(before)]), SemanticState(ev[i])>> :
        i \in {k \in DOMAIN ev : Cardinality(Preceding(ev, k, 2)) = 2}}

-----------------------------------------------------------------------------
(* What follows from an explicit identifier two events share.              *)

FaultKinds == {"transport.datagram_dropped", "transport.datagram_delayed",
               "transport.datagram_duplicated", "transport.datagram_captured",
               "transport.datagram_replayed"}

\* The latest of some earlier events, if there is one.
Latest(indexes, i) == {j \in indexes : j < i /\ \A k \in indexes : k < i => k <= j}

ActionTransitions(ev) ==
    UNION {LET started == {j \in DOMAIN ev : /\ ev[j].kind = "action.started"
                                             /\ ev[j].actor = ev[i].actor
                                             /\ Attr(ev[j], "action") = Attr(ev[i], "action")}
           IN {<<"action", ev[i].actor, Attr(ev[j], "operation"), ev[i].outcome>> : j \in Latest(started, i)} :
             i \in Events(ev, LAMBDA e : /\ e.kind \in {"action.completed", "action.delegated"}
                                         /\ Attr(e, "action") # None)}

FaultTransitions(ev) ==
    UNION {LET armed == {j \in DOMAIN ev : /\ ev[j].kind = "transport.fault_armed"
                                           /\ ev[j].actor = ev[i].actor
                                           /\ Attr(ev[j], "action") = Attr(ev[i], "action")}
           IN {<<"fault", ev[i].actor, Attr(ev[j], "fault"), ev[i].outcome>> : j \in Latest(armed, i)} :
             i \in Events(ev, LAMBDA e : e.kind \in FaultKinds /\ Attr(e, "action") # None)}

Shape(e) == <<Attr(e, "endpoint_class"), Attr(e, "token_class"), Attr(e, "key_class")>>

KeyTransitions(ev) ==
    LET Keys(phase) == Events(ev, LAMBDA e : /\ e.kind = "key_material.observed"
                                             /\ Attr(e, "fingerprint") # None /\ e.phase = phase)
        Origin(i) == {j \in Keys("generated") : Attr(ev[j], "fingerprint") = Attr(ev[i], "fingerprint")}
    IN UNION {{<<"key", Shape(ev[j])>> : j \in Latest(Origin(i), i)} : i \in Keys("received")}

Writes(ev) == Events(ev, LAMBDA e : e.kind = "application.sample_written" /\ Attr(e, "message") # None)
Receipts(ev) == Events(ev, LAMBDA e : e.kind = "application.sample_received" /\ Attr(e, "message") # None)

\* Of these writes, the ones of the sample that was received.
OfSample(ev, writes, i) == {j \in writes : ev[j].message = ev[i].message}

ApplicationTransitions(ev) ==
    UNION {{<<"application", Attr(ev[j], "topic")>> : j \in Latest(OfSample(ev, Writes(ev), i), i)} :
             i \in Receipts(ev)}

Transitions(ev) == ActorTransitions(ev) \cup ActionTransitions(ev) \cup FaultTransitions(ev)
                       \cup KeyTransitions(ev) \cup ApplicationTransitions(ev)

-----------------------------------------------------------------------------
(* Milestones and anomalies.                                               *)

LocalRevocations(ev) ==
    Events(ev, LAMBDA e : /\ e.kind = "credential.revoked" /\ e.outcome = "revoked"
                          /\ Attr(e, "local_identity") = TRUE)

PostRevocationWrites(ev) ==
    {i \in Writes(ev) : \E r \in LocalRevocations(ev) : r < i /\ ev[r].actor = ev[i].actor}

PostRevocationReceipts(ev) ==
    {i \in Receipts(ev) : \E j \in OfSample(ev, PostRevocationWrites(ev), i) : j < i}

\* A sample that its reader has received before.
SampleKey(e) == <<e.actor, Attr(e, "topic"), Attr(e, "sample"), Attr(e, "message")>>
Repeated(ev) ==
    {i \in Receipts(ev) : /\ None \notin {Attr(ev[i], "topic"), Attr(ev[i], "sample")}
                          /\ \E j \in Receipts(ev) : j < i /\ SampleKey(ev[j]) = SampleKey(ev[i])}

EventMilestones(e) ==
    CASE e.kind = "probe.ready" -> {<<"participant_ready", e.actor>>}
      [] e.kind = "credential.authenticated" -> {<<"peer_authenticated", e.actor>>}
      [] e.kind = "access_control.decision" ->
            {<<"authorization", e.actor, Attr(e, "operation"), e.outcome>>}
      [] e.kind = "endpoint.created" -> {<<"endpoint_active", e.actor>>}
      [] e.kind = "endpoint.recreated" -> {<<"endpoint_active", e.actor>>, <<"endpoint_recreated", e.actor>>}
      [] e.kind = "endpoint.matched" -> {<<"endpoint_matched", e.actor>>}
      [] e.kind = "participant.disconnected" -> {<<"participant_disconnected", e.actor>>}
      [] e.kind = "participant.reconnected" -> {<<"participant_reconnected", e.actor>>}
      [] e.kind = "credential.revoked" ->
            {<<"credential_revoked", e.actor, IF Attr(e, "local_identity") = TRUE THEN "local" ELSE "remote">>}
      [] e.kind = "key.rotated" -> {<<"key_rotated", e.actor, Attr(e, "rotation_kind")>>}
      [] e.kind = "key_material.observed" ->
            {<<"key_material", e.actor, Attr(e, "phase"), Attr(e, "endpoint_class"), Attr(e, "token_class")>>}
      [] e.kind = "application.sample_written" -> {<<"sample_written", e.actor>>}
      [] e.kind = "application.sample_received" -> {<<"sample_received", e.actor>>}
      [] e.kind = "transport.fault_armed" -> {<<"fault_armed", e.actor, Attr(e, "fault")>>}
      [] e.kind \in FaultKinds -> {<<"fault_applied", e.actor, Attr(e, "fault")>>}
      [] e.kind = "application.observation_window" -> {<<"observation_complete", e.actor, e.outcome>>}
      [] OTHER -> {}

Milestones(ev) ==
    (UNION {EventMilestones(ev[i]) : i \in DOMAIN ev})
    \cup {<<"post_revocation_write", ev[i].actor>> : i \in PostRevocationWrites(ev)}
    \cup {<<"post_revocation_delivery", ev[i].actor>> : i \in PostRevocationReceipts(ev)}
    \cup {<<"duplicate_sample_delivery", ev[i].actor>> : i \in Repeated(ev)}

EventAnomalies(e) ==
    CASE e.kind = "execution.divergence" -> {<<"execution_divergence">>}
      [] e.kind = "probe.observer_error" -> {<<"observer_error">>}
      [] e.kind = "process.exit" /\ e.outcome = "failed" -> {<<"process_failure", e.actor>>}
      [] e.kind = "memory_safety.violation" ->
            {<<"memory_safety", Attr(e, "sanitizer"), Attr(e, "violation")>>}
      [] e.kind \in FaultKinds /\ e.outcome = "failed" -> {<<"fault_application_failed", Attr(e, "fault")>>}
      [] OTHER -> {}

Anomalies(ev) ==
    (UNION {EventAnomalies(ev[i]) : i \in DOMAIN ev})
    \cup {<<"post_revocation_application_delivery">> : i \in PostRevocationReceipts(ev)}
    \cup {<<"duplicate_application_delivery">> : i \in Repeated(ev)}

\* The features a trial adds to the corpus of a campaign.
Features(ev) ==
    [states |-> States(ev), transitions |-> Transitions(ev), motifs |-> Motifs(ev),
     milestones |-> Milestones(ev), anomalies |-> Anomalies(ev)]

-----------------------------------------------------------------------------
(* The projection two executions are compared by.                          *)

\* The steps along the events that share an identifier.
PartialOrder(ev) ==
    UNION {LET members == {i \in DOMAIN ev : key \in CorrelationKeys(ev[i])}
           IN {<<"poedge", key[1], SemanticState(ev[p[1]]), SemanticState(ev[p[2]])>> :
                 p \in {q \in members \X members :
                          /\ q[1] \in Latest(members, q[2])
                          /\ SemanticState(ev[q[1]]) # SemanticState(ev[q[2]])}} :
             key \in UNION {CorrelationKeys(ev[i]) : i \in DOMAIN ev}}

\* One event of a state, or more.
Projection(ev) ==
    LET Occurs(state) == Cardinality({i \in DOMAIN ev : SemanticState(ev[i]) = state})
        present == PartialOrder(ev) \cup {<<"milestone", x>> : x \in Milestones(ev)}
                       \cup {<<"anomaly", x>> : x \in Anomalies(ev)}
    IN [f \in {<<"state", s>> : s \in States(ev)} \cup present |->
            IF f[1] = "state" /\ Occurs(f[2]) > 1 THEN 2 ELSE 1]
=============================================================================
