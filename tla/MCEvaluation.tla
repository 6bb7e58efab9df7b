----------------------------- MODULE MCEvaluation -----------------------------
(* One case per oracle, and some for the analysis: a writer, a reader, and *)
(* the events that are looked at.                                          *)
EXTENDS Analysis

CONSTANTS writer, reader, t1, t2, k1, k2, m1   \* actors, topics, fingerprints, a message

Base == [participants |-> {writer, reader}, topics |-> {t1, t2},
             permitted |-> {<<writer, "publish", t1>>, <<reader, "subscribe", t1>>}]
Denied == [Base EXCEPT !.permitted = {<<writer, "publish", t1>>}]

Of(scenario, assertion, alphabet, bound) ==
    [scenario |-> scenario, assertions |-> {assertion}, roles |-> <<writer, reader>>,
     alphabet |-> alphabet, bound |-> bound, failures |-> 0]

Token(actor, local, destination) ==
    [kind |-> "crypto_token.observed", actor |-> actor, outcome |-> "observed",
     token_class |-> "datawriter", local |-> local, destination |-> destination]
Decision(actor, operation, topic, outcome) ==
    [kind |-> "access_control.decision", actor |-> actor, outcome |-> outcome,
     operation |-> operation, topic |-> topic]
Key(actor, phase, fingerprint, local, destination, endpoints, class) ==
    [kind |-> "key_material.observed", actor |-> actor, outcome |-> "observed",
     phase |-> phase, fingerprint |-> fingerprint, local |-> local,
     destination |-> destination, endpoints |-> endpoints, token_class |-> "datawriter",
     key_class |-> "datawriter", endpoint_class |-> class,
     semantics |-> "recipient_specific", keyPresent |-> FALSE]
Plain(actor, kind, outcome) ==
    [kind |-> kind, actor |-> actor, outcome |-> outcome, controlled |-> FALSE, authority |-> None]
Controlled(actor, kind, outcome) == [Plain(actor, kind, outcome) EXCEPT !.controlled = TRUE]
Authority(actor, kind, outcome, authority) ==
    [Plain(actor, kind, outcome) EXCEPT !.authority = authority]
Sample(actor, kind, outcome, sample) ==
    [kind |-> kind, actor |-> actor, outcome |-> outcome, sample |-> sample]
Rotation(previous, session) ==
    [kind |-> "key.rotated", actor |-> writer, outcome |-> "rotated",
     rotation_kind |-> "session_key", context |-> "serialized_payload",
     previous |-> previous, session |-> session, max_blocks |-> 2]

RotationOf(minimum) ==
    [oracle |-> "session_rotation_delivery", writer |-> writer, reader |-> reader,
     context |-> "serialized_payload", max_blocks |-> 2, minimum |-> minimum]
RotationAlphabet ==
    {Sample(writer, "application.write_attempt", "attempted", 1),
     Sample(writer, "application.write_attempt", "attempted", 2),
     Sample(reader, "application.sample_received", "received", 1),
     Rotation(3, 0), Rotation(0, 2)}

OracleCases ==
    {Of(Base, [oracle |-> "crypto_token_recipient_binding", observer |-> Unset, token_class |-> Unset],
        {Token(writer, writer, reader), Token(reader, reader, reader), Token(reader, None, writer)}, 3),
     Of(Base, [oracle |-> "unauthorized_key_disclosure", actor |-> reader],
        {Decision(reader, "subscribe", t2, "denied"), Decision(reader, "subscribe", t1, "allowed"),
         Key(reader, "received", k1, reader, reader, t1, "user"),
         Key(reader, "received", k1, reader, reader, t1, "builtin")}, 3),
     Of(Denied, [oracle |-> "unauthorized_key_disclosure", actor |-> reader],
        {Decision(reader, "subscribe", t1, "allowed"), Decision(writer, "write", t1, "denied"),
         Key(reader, "received", k1, reader, reader, t1, "user")}, 3),
     Of(Base, [oracle |-> "application_writer_impersonation", receiver |-> reader, attacker |-> writer],
        {Controlled(writer, "network.packet_sent", "succeeded"),
         Controlled(reader, "application.sample_received", "received"),
         Plain(reader, "application.sample_received", "received")}, 3),
     Of(Base, [oracle |-> "key_scope_separation", scope |-> "destination", key_class |-> Unset,
                   phase |-> "generated", endpoint_class |-> "user", semantics |-> Unset],
        {Key(writer, "generated", k1, writer, reader, t1, "user"),
         Key(writer, "generated", k1, writer, writer, t1, "user"),
         Key(writer, "generated", k2, writer, writer, t1, "user"),
         Key(reader, "generated", k2, reader, writer, t1, "user")}, 3),
     Of(Base, [oracle |-> "policy_authorization_consistency", actor |-> Unset, operation |-> "write"],
        {Decision(writer, "create_datawriter", t2, "allowed"), Decision(writer, "write", t1, "allowed"),
         Decision(reader, "read", t2, "allowed"), Decision(reader, "other", t1, "allowed")}, 3),
     Of(Base, [oracle |-> "crypto_token_transport_consistency", token_class |-> Unset, require_all |-> TRUE],
        {Key(writer, "generated", k1, writer, reader, t1, "user"),
         Key(writer, "generated", k1, writer, reader, t2, "user"),
         Key(writer, "generated", k2, writer, writer, t1, "user"),
         Key(reader, "received", k1, reader, reader, t1, "user"),
         Key(reader, "received", k2, reader, reader, t1, "user")}, 4),
     Of(Base, [oracle |-> "observer_health", required |-> "key_material.observed"],
        {Key(writer, "generated", k1, writer, reader, t1, "user"),
         Plain(reader, "probe.observer_error", "failed")}, 3),
     Of(Base, [oracle |-> "endpoint_key_lifecycle", actor |-> writer, token_class |-> "datawriter",
                   endpoint_class |-> "user", phase |-> "generated"],
        {Key(writer, "generated", k1, writer, reader, t1, "user"),
         Key(writer, "generated", k2, writer, reader, t1, "user"),
         Plain(writer, "endpoint.destroyed", "succeeded"),
         Plain(reader, "endpoint.destroyed", "succeeded")}, 4),
     Of(Base, [oracle |-> "revoked_authority_reuse", actor |-> Unset],
        {Authority(writer, "authorization.revoked", "succeeded", k1),
         Authority(reader, "application.sample_received", "received", k1),
         Authority(reader, "capability.decrypt", "succeeded", k2)}, 4),
     Of(Base, RotationOf(1), RotationAlphabet, 4),
     Of(Base, RotationOf(2), RotationAlphabet, 4),
     Of(Base, [oracle |-> "unregistered"], {Plain(writer, "probe.ready", "succeeded")}, 1)}

-----------------------------------------------------------------------------
(* The analysis.                                                           *)

Revoked(actor) ==
    [kind |-> "credential.revoked", actor |-> actor, outcome |-> "revoked", local_identity |-> TRUE]
Message(actor, kind, outcome) ==
    [kind |-> kind, actor |-> actor, outcome |-> outcome, topic |-> t1, sample |-> 1, message |-> m1]
Wrote == Message(writer, "application.sample_written", "succeeded")
Got == Message(reader, "application.sample_received", "received")
Window(observed) ==
    [kind |-> "application.observation_window", actor |-> reader, outcome |-> "expired",
     topic |-> t1, expected_samples |-> 1, observed_samples |-> observed]
Identity(actor, guid) ==
    [kind |-> "credential.authenticated", actor |-> actor, outcome |-> "authenticated", guid |-> guid]
Step(actor, kind, outcome) ==
    [kind |-> kind, actor |-> actor, outcome |-> outcome, action |-> 1, operation |-> "sample.write",
     fault |-> "drop_next"]
UserKey(actor, phase, fingerprint) == Key(actor, phase, fingerprint, actor, reader, t1, "user")

AnyPolicy == [oracle |-> "policy_authorization_consistency", actor |-> Unset, operation |-> Unset]

AnalysisCases ==
    {Of(Base, AnyPolicy, {Revoked(writer), Wrote, Got, Window(0)}, 4),
     Of(Base, AnyPolicy, {Step(writer, "transport.datagram_replayed", "replayed"), Wrote, Got, Window(2)}, 4),
     Of(Base, AnyPolicy, {UserKey(writer, "generated", k1), UserKey(reader, "received", k1),
                    Plain(writer, "participant.disconnected", "succeeded"),
                    Plain(writer, "participant.reconnected", "succeeded")}, 4),
     Of(Base, AnyPolicy, {Identity(writer, k1), Identity(reader, k1), Identity(writer, k2),
                    Plain(writer, "participant.reconnected", "succeeded")}, 3),
     Of(Base, AnyPolicy, {Step(writer, "action.started", "started"), Step(writer, "action.completed", "completed"),
                    Step(writer, "transport.fault_armed", "armed"), Step(reader, "action.started", "started"),
                    Step(writer, "transport.datagram_dropped", "dropped")}, 3),
     Of(Base, AnyPolicy, {Revoked(writer), Plain(writer, "capability.decrypt", "succeeded"),
                    Plain(reader, "memory_safety.violation", "detected"), Rotation(0, 1)}, 3),
     Of(Denied, AnyPolicy, {Decision(reader, "subscribe", t1, "allowed"), Decision(writer, "write", t2, "allowed"),
                      UserKey(reader, "received", k1), Got}, 3)}

\* Processes fail in the cases with few events only.
MCCases == {[c EXCEPT !.failures = IF c.bound = 3 THEN 2 ELSE 0] : c \in OracleCases} \cup AnalysisCases
=============================================================================
