-------------------------------- MODULE Oracles -------------------------------
(***************************************************************************)
(* The oracles (oracles/): functions from a scenario, an assertion and the *)
(* evidence, a sequence of events, to a status and the events it cites.    *)
(* An event has an actor, a kind, an outcome and the attributes its kind   *)
(* has; an attribute that is absent or not of its type is None.            *)
(***************************************************************************)
EXTENDS Integers, Sequences, FiniteSetsExt

CONSTANTS
    Unset,       \* a parameter the assertion does not give
    None,
    IdSpace    \* bound: the session identifiers are 0..IdSpace-1, not 32 bits

ASSUME OracleAssumption == IdSpace \in Nat \ {0} /\ Unset # None

\* The events of that description, as indexes of the evidence.
Events(ev, Is(_)) == {i \in DOMAIN ev : Is(ev[i])}
Selects(parameter, value) == parameter \in {Unset, value}

Result(status, cited) == [status |-> status, cited |-> cited]
NotApplicable(cited) == Result("not_applicable", cited)

\* How most oracles conclude.
Conclude(violations, considered) ==
    IF violations # {} THEN Result("violation", violations)
    ELSE IF considered # {} THEN Result("pass", considered)
    ELSE NotApplicable({})

-----------------------------------------------------------------------------
(* Permissions: the patterns of a participant, as the topics they match.   *)

PermissionOf == [publish |-> "publish", create_datawriter |-> "publish", write |-> "publish",
                 subscribe |-> "subscribe", create_datareader |-> "subscribe", read |-> "subscribe"]

\* None is no name of an operation.
ASSUME OperationAssumption == None \notin DOMAIN PermissionOf

Normalized(operation) ==
    IF operation \in DOMAIN PermissionOf THEN PermissionOf[operation] ELSE operation

IsPermitted(scenario, actor, operation, topic) ==
    operation \in DOMAIN PermissionOf
    /\ <<actor, PermissionOf[operation], topic>> \in scenario.permitted

HasAnyPermission(scenario, actor, operation) ==
    \E topic \in scenario.topics : IsPermitted(scenario, actor, operation, topic)

-----------------------------------------------------------------------------
(* Oracles that look at single events.                                     *)

RecipientBinding(s, a, ev) ==
    LET seen == Events(ev, LAMBDA e : /\ e.kind = "crypto_token.observed"
                                      /\ Selects(a.observer, e.actor)
                                      /\ Selects(a.token_class, e.token_class))
        misaddressed == {i \in seen : /\ None \notin {ev[i].local, ev[i].destination}
                                      /\ ev[i].local # ev[i].destination}
    IN Conclude(misaddressed, seen)

Impersonation(s, a, ev) ==
    LET attempts == Events(ev, LAMBDA e : /\ e.kind \in {"capability.forge", "network.packet_sent"}
                                          /\ Selects(a.attacker, e.actor)
                                          /\ e.outcome = "succeeded" /\ e.controlled)
        deliveries == Events(ev, LAMBDA e : /\ e.kind = "application.sample_received"
                                            /\ Selects(a.receiver, e.actor)
                                            /\ e.outcome = "received" /\ e.controlled)
    IN Conclude(deliveries, attempts)

PolicyConsistency(s, a, ev) ==
    LET decisions == Events(ev, LAMBDA e :
            /\ e.kind = "access_control.decision"
            /\ Selects(a.actor, e.actor)
            /\ e.operation \in DOMAIN PermissionOf /\ e.topic # None
            /\ Selects(Normalized(a.operation), PermissionOf[e.operation]))
        overgrants == {i \in decisions : /\ ev[i].outcome = "allowed"
                                         /\ ~IsPermitted(s, ev[i].actor, ev[i].operation, ev[i].topic)}
    IN Conclude(overgrants, decisions)

\* A mutant: a decision to allow ends the denial.
DenialsLatest(a, ev) ==
    LET decisions == Events(ev, LAMBDA e : e.actor = a.actor /\ e.kind = "access_control.decision")
    IN {i \in decisions : ev[i].outcome = "denied" /\ i = Max(decisions)}

Denials(a, ev) ==
    Events(ev, LAMBDA e : /\ e.actor = a.actor /\ e.kind = "access_control.decision"
                          /\ e.outcome = "denied")

\* A denial counts wherever it is, and so does a policy without the permission.
KeyDisclosure(s, a, ev) ==
    LET denials == Denials(a, ev)
        keys == Events(ev, LAMBDA e :
            /\ e.actor = a.actor /\ e.kind = "key_material.observed" /\ e.outcome = "observed"
            /\ \/ e.keyPresent
               \/ e.phase = "received" /\ e.endpoint_class = "user" /\ e.fingerprint # None)
    IN IF denials = {} /\ HasAnyPermission(s, a.actor, "subscribe") THEN NotApplicable({})
       ELSE IF keys # {} THEN Result("violation", denials \cup keys)
       ELSE Result("pass", denials)

ObserverHealth(s, a, ev) ==
    LET failures == Events(ev, LAMBDA e : e.kind = "probe.observer_error")
        required == Events(ev, LAMBDA e : e.kind = a.required)
    IN IF failures # {} THEN NotApplicable(failures) ELSE Conclude({}, required)

-----------------------------------------------------------------------------
(* Oracles that relate observations of key material by fingerprint.        *)

\* A common key is meant to be shared; only the key of a recipient is not.
Semantics(a) ==
    IF a.semantics = Unset /\ a.scope = "destination" THEN "recipient_specific" ELSE a.semantics

KeyScope(s, a, ev) ==
    LET scoped == Events(ev, LAMBDA e :
            /\ e.kind = "key_material.observed" /\ e.outcome = "observed"
            /\ Selects(a.key_class, e.key_class)
            /\ Selects(a.phase, e.phase)
            /\ Selects(a.endpoint_class, e.endpoint_class)
            /\ Selects(Semantics(a), e.semantics)
            /\ e.fingerprint # None /\ e[a.scope] # None)
        collisions == {i \in scoped : \E j \in scoped :
            ev[i].fingerprint = ev[j].fingerprint /\ ev[i][a.scope] # ev[j][a.scope]}
    IN Conclude(collisions, scoped)

Route(e) == <<e.fingerprint, e.token_class, e.destination, e.endpoints>>

\* A key between endpoints of one participant does not take the transport.  A
\* retransmission is on a generated route; a rebound key is on another one.
TokenTransport(s, a, ev) ==
    LET routed == Events(ev, LAMBDA e :
            /\ e.kind = "key_material.observed" /\ e.outcome = "observed"
            /\ e.phase \in {"generated", "received"}
            /\ None \notin {e.fingerprint, e.local, e.destination, e.endpoints}
            /\ Selects(a.token_class, e.token_class))
        generated == {i \in routed : ev[i].phase = "generated" /\ ev[i].local # ev[i].destination}
        received == {i \in routed : ev[i].phase = "received"}
        stray == {i \in received : \A g \in generated : Route(ev[g]) # Route(ev[i])}
        Origins(i) == {g \in generated : ev[g].fingerprint = ev[i].fingerprint}
        misrouted == {i \in stray : Origins(i) # {}}
        unmatched == {g \in generated : \A i \in received : Route(ev[i]) # Route(ev[g])}
        incomplete == stray \cup (IF a.require_all THEN unmatched ELSE {})
    IN IF misrouted # {}
       THEN Result("violation", misrouted \cup UNION {Origins(i) : i \in misrouted})
       ELSE IF incomplete # {} THEN NotApplicable(incomplete)
       ELSE Conclude({}, generated \cup received)

-----------------------------------------------------------------------------
(* Oracles that depend on the order of the evidence.                       *)

\* A mutant: the destruction of any actor's endpoint is the boundary.
BoundariesOfAll(a, ev) == Events(ev, LAMBDA e : e.kind = "endpoint.destroyed")

Boundaries(a, ev) ==
    Events(ev, LAMBDA e : e.actor = a.actor /\ e.kind = "endpoint.destroyed")

\* A key from before the only destruction must not be seen after it.
EndpointLifecycle(s, a, ev) ==
    LET boundaries == Boundaries(a, ev)
        boundary == CHOOSE i \in boundaries : TRUE
        keys == Events(ev, LAMBDA e :
            /\ e.actor = a.actor /\ e.kind = "key_material.observed"
            /\ e.token_class = a.token_class /\ e.endpoint_class = a.endpoint_class
            /\ e.phase = a.phase /\ e.fingerprint # None)
        pre == {ev[i].fingerprint : i \in {k \in keys : k < boundary}}
        post == {ev[i].fingerprint : i \in {k \in keys : k > boundary}}
        reused == {i \in keys : ev[i].fingerprint \in pre \cap post}
    IN IF a.actor \notin s.participants \/ Cardinality(boundaries) # 1 THEN NotApplicable({})
       ELSE IF pre = {} \/ post = {} THEN NotApplicable(keys \cup {boundary})
       ELSE IF reused # {} THEN Result("violation", reused \cup {boundary})
       ELSE Result("pass", keys \cup {boundary})

\* The last revocation of an authority counts: its uses before are not stale.
RevokedReuse(s, a, ev) ==
    LET revocations == Events(ev, LAMBDA e :
            /\ e.kind = "authorization.revoked" /\ e.outcome = "succeeded"
            /\ Selects(a.actor, e.actor) /\ e.authority # None)
        latest == {i \in revocations : \A j \in revocations :
                        ev[j].authority = ev[i].authority => j <= i}
        uses == Events(ev, LAMBDA e :
            /\ e.kind \in {"capability.decrypt", "capability.forge", "capability.availability",
                           "crypto.protected_message_accepted", "application.sample_received"}
            /\ e.outcome \in {"succeeded", "accepted", "received"})
        Revoked(i) == {r \in latest : ev[r].authority = ev[i].authority /\ r < i}
        stale == {i \in uses : Revoked(i) # {}}
    IN Conclude(stale \cup UNION {Revoked(i) : i \in stale}, latest)

\* The rotations of the writer that the assertion is about.
Rotations(a, ev) ==
    Events(ev, LAMBDA e : /\ e.kind = "key.rotated" /\ e.actor = a.writer
                          /\ e.outcome = "rotated" /\ e.rotation_kind = "session_key"
                          /\ e.context = a.context)

Advances(e) == e.session = (e.previous + 1) % IdSpace

\* The write a rotation falls into: none if the writer's latest sample is complete.
Trigger(a, ev, r) ==
    LET writes == {i \in 1..(r - 1) : /\ ev[i].actor = a.writer
                                      /\ ev[i].kind \in {"application.write_attempt",
                                                         "application.sample_written"}}
    IN IF writes = {} \/ ev[Max(writes)].kind = "application.sample_written" THEN {}
       ELSE {i \in {Max(writes)} : ev[i].sample # None}

\* The first receipt of the triggering sample after the rotation.
Deliveries(a, ev, r) ==
    LET received == {i \in (r + 1)..Len(ev) :
            /\ ev[i].actor = a.reader /\ ev[i].kind = "application.sample_received"
            /\ ev[i].outcome = "received"
            /\ \E t \in Trigger(a, ev, r) : ev[i].sample = ev[t].sample}
    IN {i \in received : \A j \in received : i <= j}

\* A mutant: the write is not among the events a rotation involves.
InvolvedEnds(a, ev, r) == {r} \cup Deliveries(a, ev, r)

Involved(a, ev, r) == {r} \cup Trigger(a, ev, r) \cup Deliveries(a, ev, r)

SessionRotation(s, a, ev) ==
    LET rotations == Rotations(a, ev)
        invalid == {r \in rotations : ~Advances(ev[r])}
        mismatched == {r \in rotations : ~Selects(a.max_blocks, ev[r].max_blocks)}
        undelivered == {r \in rotations : Deliveries(a, ev, r) = {}}
    IN IF ~({a.writer, a.reader} \subseteq s.participants) THEN NotApplicable({})
       ELSE IF Cardinality(rotations) < a.minimum THEN NotApplicable(rotations)
       ELSE IF invalid # {} THEN Result("violation", invalid)
       ELSE IF mismatched \cup undelivered # {}
       THEN NotApplicable(mismatched \cup UNION {Involved(a, ev, r) : r \in undelivered})
       ELSE Result("pass", UNION {Involved(a, ev, r) : r \in rotations})

-----------------------------------------------------------------------------
\* The registered oracle an assertion names.
Assess(s, a, ev) ==
    CASE a.oracle = "crypto_token_recipient_binding" -> RecipientBinding(s, a, ev)
      [] a.oracle = "unauthorized_key_disclosure" -> KeyDisclosure(s, a, ev)
      [] a.oracle = "application_writer_impersonation" -> Impersonation(s, a, ev)
      [] a.oracle = "key_scope_separation" -> KeyScope(s, a, ev)
      [] a.oracle = "revoked_authority_reuse" -> RevokedReuse(s, a, ev)
      [] a.oracle = "policy_authorization_consistency" -> PolicyConsistency(s, a, ev)
      [] a.oracle = "crypto_token_transport_consistency" -> TokenTransport(s, a, ev)
      [] a.oracle = "observer_health" -> ObserverHealth(s, a, ev)
      [] a.oracle = "endpoint_key_lifecycle" -> EndpointLifecycle(s, a, ev)
      [] a.oracle = "session_rotation_delivery" -> SessionRotation(s, a, ev)
      [] OTHER -> NotApplicable({})
=============================================================================
