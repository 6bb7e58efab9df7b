------------------------------- MODULE Candidates -----------------------------
(***************************************************************************)
(* candidates.py: the leads of one execution, drawn from its events and    *)
(* from the oracles' results, and the schedule differences to a baseline.  *)
(* A candidate is identified by its family, actors and resources; scores   *)
(* and titles are left out.                                                *)
(***************************************************************************)
EXTENDS Artifacts

Candidate(family, actors, resources, events) ==
    [family |-> family, actors |-> actors, resources |-> resources, events |-> events]

\* What an event is about: what it names, the only topic, or what its actor may use.
Resource(s, e, operation) ==
    LET allowed == {t \in s.topics : <<e.actor, operation, t>> \in s.permitted}
    IN IF Attr(e, "topic") # None THEN {e.topic}
       ELSE IF Cardinality(s.topics) = 1 THEN s.topics
       ELSE IF Cardinality(allowed) = 1 THEN allowed ELSE {}

Overgrants(s, ev) ==
    Events(ev, LAMBDA e : /\ e.kind = "access_control.decision" /\ e.outcome = "allowed"
                          /\ None \notin {e.operation, e.topic}
                          /\ ~IsPermitted(s, e.actor, e.operation, e.topic))

\* A reader needs a writer's token to subscribe, a writer a reader's to publish.
Needed == [datawriter |-> "subscribe", datareader |-> "publish"]

UnauthorizedKeys(s, ev) ==
    Events(ev, LAMBDA e :
        /\ e.kind = "key_material.observed" /\ e.outcome = "observed"
        /\ e.phase = "received" /\ e.endpoint_class = "user" /\ e.token_class \in DOMAIN Needed
        /\ LET operation == Needed[e.token_class]
               resource == Resource(s, e, operation)
           IN IF resource = {} THEN ~HasAnyPermission(s, e.actor, operation)
              ELSE \A t \in resource : ~IsPermitted(s, e.actor, operation, t))

UnauthorizedDeliveries(s, ev) ==
    {i \in Delivered(ev) : \E t \in Resource(s, ev[i], "subscribe") :
                               ~IsPermitted(s, ev[i].actor, "subscribe", t)}

AppliedFaults(ev) == Events(ev, LAMBDA e : /\ e.kind \in FaultKinds
                                           /\ e.outcome \notin {"failed", "not_applied"})

-----------------------------------------------------------------------------
MemoryCandidates(s, ev) ==
    {Candidate("sanitizer_memory_safety_failure", {ev[i].actor}, s.topics,
               {i} \cup {j \in AppliedFaults(ev) : j < i}) :
       i \in Events(ev, LAMBDA e : /\ e.kind = "memory_safety.violation" /\ e.outcome = "detected"
                                   /\ None \notin {Attr(e, "sanitizer"), Attr(e, "violation")})}

\* A sample received twice, with a replay between its first and its last receipt.
ReplayCandidates(ev) ==
    LET sampled == {i \in Delivered(ev) \cap Receipts(ev) :
                        None \notin {Attr(ev[i], "topic"), Attr(ev[i], "sample")}}
        ReceiptsOf(key) == {i \in sampled : SampleKey(ev[i]) = key}
        Between(key) == {r \in Replayed(ev) : Min(ReceiptsOf(key)) < r /\ r < Max(ReceiptsOf(key))}
    IN {Candidate("transport_replay_duplicate_delivery", {key[1]}, {key[2]},
                  ReceiptsOf(key) \cup Between(key)) :
          key \in {k \in {SampleKey(ev[i]) : i \in sampled} : Between(k) # {}}}

\* A mutant: the last revocation of an actor is kept.
LastRevocation(ev, actor) == {Max({r \in LocalRevocations(ev) : ev[r].actor = actor})}

FirstRevocation(ev, actor) == {Min({r \in LocalRevocations(ev) : ev[r].actor = actor})}

\* What a revoked actor wrote after its first revocation was delivered.
RevocationCandidates(s, ev) ==
    LET Since(actor) == {w \in Writes(ev) : /\ ev[w].actor = actor
                                            /\ \A r \in FirstRevocation(ev, actor) : r < w}
        Reached(actor) == {p \in Since(actor) \X (Delivered(ev) \cap Receipts(ev)) :
                                p[1] < p[2] /\ ev[p[1]].message = ev[p[2]].message}
    IN {Candidate("credential_revocation_bypass",
                  {actor} \cup {ev[p[2]].actor : p \in Reached(actor)}, s.topics,
                  FirstRevocation(ev, actor) \cup UNION {{p[1], p[2]} : p \in Reached(actor)}) :
          actor \in {a \in ActorsOf(ev, LocalRevocations(ev)) : Reached(a) # {}}}

\* The decisions that let an actor receive what it was not permitted to.
Enabling(s, ev, actor, topic) ==
    {g \in Overgrants(s, ev) : /\ ev[g].actor = actor /\ ev[g].topic = topic
                               /\ Normalized(ev[g].operation) = "subscribe"}

KeysOf(s, ev, actor) == {k \in UnauthorizedKeys(s, ev) : ev[k].actor = actor}

Unauthorized(s, ev) ==
    {<<ev[p[1]].actor, p[2]>> : p \in {q \in UnauthorizedDeliveries(s, ev) \X s.topics :
                                         q[2] \in Resource(s, ev[q[1]], "subscribe")}}

DeliveryCandidates(s, ev) ==
    {Candidate("unauthorized_application_delivery", {p[1]}, {p[2]},
        Enabling(s, ev, p[1], p[2]) \cup KeysOf(s, ev, p[1]) \cup
        {i \in UnauthorizedDeliveries(s, ev) :
            ev[i].actor = p[1] /\ p[2] \in Resource(s, ev[i], "subscribe")}) :
       p \in Unauthorized(s, ev)}

\* Actors whose overgrants a delivery candidate tells of.
Covered(s, ev) == {p[1] : p \in {q \in Unauthorized(s, ev) : Enabling(s, ev, q[1], q[2]) # {}}}

\* A mutant: one unauthorized delivery is taken to tell of every overgrant.
OvergrantsAlone(s, ev) ==
    LET Of(actor) == {g \in Overgrants(s, ev) : ev[g].actor = actor}
    IN {Candidate("policy_overgrant", {actor}, Topics(ev, Of(actor)), Of(actor)) :
          actor \in {a \in ActorsOf(ev, Overgrants(s, ev)) : Covered(s, ev) = {}}}

\* All overgrants of a covered actor are left out, also those to publish.
OvergrantCandidates(s, ev) ==
    LET Of(actor) == {g \in Overgrants(s, ev) : ev[g].actor = actor}
    IN {Candidate("policy_overgrant", {actor}, Topics(ev, Of(actor)), Of(actor)) :
          actor \in ActorsOf(ev, Overgrants(s, ev)) \ Covered(s, ev)}

Observed(s, ev) ==
    MemoryCandidates(s, ev) \cup ReplayCandidates(ev) \cup RevocationCandidates(s, ev)
        \cup DeliveryCandidates(s, ev) \cup OvergrantCandidates(s, ev)

\* A key alone, by actor, permission and resource: the first group of an actor
\* only, and none if the actor has a candidate already.
KeyCandidates(s, ev) ==
    LET Group(k) == <<ev[k].actor, Needed[ev[k].token_class], Resource(s, ev[k], Needed[ev[k].token_class])>>
        Named(k) == IF Group(k)[3] = {} THEN s.topics ELSE Group(k)[3]
        alone == {k \in UnauthorizedKeys(s, ev) : \A c \in Observed(s, ev) : ev[k].actor \notin c.actors}
        first == {k \in alone : \A j \in alone : ev[j].actor = ev[k].actor => k <= j}
    IN {Candidate("unauthorized_user_key_delivery", {ev[k].actor}, Named(k),
                  {j \in alone : Group(j) = Group(k)}) : k \in first}

\* What a violated assertion adds; a result's details are not modelled.
InvariantCandidates(s, ev, results) ==
    LET told == \E c \in Observed(s, ev) :
                    c.family \in {"policy_overgrant", "unauthorized_application_delivery"}
    IN {Candidate(r.oracle, {}, {}, r.cited) :
          r \in {x \in results : /\ x.status = "violation"
                                 /\ ~(x.oracle = "policy_authorization_consistency" /\ told)}}

\* An execution that broke off after more than the start and the end of processes.
DivergenceCandidates(ev, broken) ==
    IF broken # {} /\ Events(ev, LAMBDA e : e.kind \notin {"process.exit", "probe.ready"}) # {}
    THEN {Candidate("stateful_execution_divergence", broken, {}, DOMAIN ev)} ELSE {}

\* All candidates, of results and the processes that failed or did not end.
Leads(s, ev, results, broken) ==
    Observed(s, ev) \cup KeyCandidates(s, ev) \cup InvariantCandidates(s, ev, results)
        \cup DivergenceCandidates(ev, broken)

-----------------------------------------------------------------------------
(* What differs between a schedule and its baseline.                       *)

Facts(s, e) ==
    CASE e.kind = "access_control.decision" -> {<<"authorization", e.actor, e.operation, e.topic, e.outcome>>}
      [] e.kind = "application.sample_received" ->
            {<<"application_delivery", e.actor, Resource(s, e, "subscribe"), e.outcome>>}
      [] e.kind \in {"crypto_token.generated", "crypto_token.observed"} ->
            {<<"token_route", e.actor, Attr(e, "phase"), Attr(e, "token_class"),
               Attr(e, "endpoint_class"), e.outcome>>}
      [] e.kind = "key_material.observed" ->
            {<<"key_route", e.actor, Attr(e, "phase"), Attr(e, "token_class"),
               Attr(e, "endpoint_class"), Attr(e, "semantics")>>}
      [] e.kind \in {"endpoint.created", "endpoint.destroyed", "endpoint.recreated", "endpoint.matched"} ->
            {<<"endpoint_lifecycle", e.actor, e.kind, Attr(e, "topic"), Attr(e, "lifecycle_epoch"), e.outcome>>}
      [] e.kind \in {"key.rotated", "authorization.revoked", "credential.revoked"} ->
            {<<"authority_lifecycle", e.actor, e.kind, Attr(e, "rotation_kind"), Attr(e, "context"), e.outcome>>}
      [] e.kind \in {"participant.disconnected", "participant.reconnected"} ->
            {<<"participant_lifecycle", e.actor, e.kind, Attr(e, "participant_epoch"), e.outcome>>}
      [] e.kind \in FaultKinds \ {"transport.datagram_captured"} ->
            {<<"transport_fault", e.actor, e.kind, Attr(e, "fault"), e.outcome>>}
      [] OTHER -> {}

\* How often each fact holds; a token or a key may be sent again.
Profile(s, ev) ==
    [f \in UNION {Facts(s, ev[i]) : i \in DOMAIN ev} |->
        IF f[1] \in {"token_route", "key_route"} THEN 1
        ELSE Cardinality({i \in DOMAIN ev : f \in Facts(s, ev[i])})]

\* The categories of facts that differ.
ScheduleDifferences(baseline, current) ==
    {f[1] : f \in {g \in DOMAIN baseline \cup DOMAIN current : Value(baseline, g) # Value(current, g)}}
=============================================================================
