------------------------------- MODULE MCProbe --------------------------------
(***************************************************************************)
(* Three scripted scenarios, each under the schedules trajectory.py makes  *)
(* of it, and the other modes of the probe.                                *)
(***************************************************************************)
EXTENDS ProbeProperties

Action(id, operation, target, at, direction) ==
    [id |-> id, operation |-> operation, target |-> target, at |-> at, direction |-> direction]
Role(actor, after, plan) == [actor |-> actor, after |-> after, offset |-> 0, plan |-> plan]
Scenario(reader, writer) == <<Role("reader", {}, reader), Role("writer", {"reader"}, writer)>>

\* A writer that is recreated, observed for two samples.
Recreated == Scenario(
    << Action("r1", "endpoint.create", 1, 0, 0), Action("r2", "sample.observe", 2, 1, 0) >>,
    << Action("w1", "endpoint.create", 1, 0, 0), Action("w2", "endpoint.wait_match", 1, 1, 0),
       Action("w3", "sample.write", 1, 2, 0), Action("w4", "endpoint.destroy", 1, 3, 0),
       Action("w5", "endpoint.create", 1, 4, 0), Action("w6", "endpoint.wait_match", 1, 5, 0),
       Action("w7", "sample.write", 1, 6, 0) >>)

\* A reader that disconnects behind its revocation and comes back.
Revoked == Scenario(
    << Action("r1", "endpoint.create", 1, 0, 0), Action("r2", "sample.wait", 1, 1, 0),
       Action("r3", "credential.wait_revoked", 1, 2, 0), Action("r4", "endpoint.destroy", 1, 3, 0),
       Action("r5", "participant.disconnect", 1, 4, 0), Action("r6", "participant.reconnect", 1, 5, 0),
       Action("r7", "endpoint.create", 1, 6, 0) >>,
    << Action("w1", "endpoint.create", 1, 0, 0), Action("w2", "transport.drop_next", 1, 1, 0),
       Action("w3", "sample.write", 1, 2, 0), Action("w4", "execution.checkpoint", 1, 3, 0) >>)

\* Times close enough for windows to overlap.
Close == Scenario(
    << Action("r1", "endpoint.create", 1, 0, 1), Action("r2", "endpoint.destroy", 1, 1, -1) >>,
    << Action("w1", "endpoint.create", 1, 0, 1), Action("w2", "sample.write", 1, 2, -1),
       Action("w3", "endpoint.destroy", 1, 2, 1) >>)

Untimed == [spacings |-> {0}, jitters |-> {0}, boundaries |-> {0}]
Timed == [spacings |-> {0, 5}, jitters |-> {0, 3}, boundaries |-> {-2, 0, 2}]
Both(value) == [role \in Roles |-> value]

MCScenes ==
    {Scene(Recreated, d, Both("scripted"), Both(TRUE), 1) : d \in Descriptors(Recreated, Untimed)}
    \cup {Scene(Revoked, d, Both("scripted"), Both(TRUE), 1) : d \in Descriptors(Revoked, Untimed)}
    \cup {Scene(Close, d, Both("scripted"), Both(TRUE), 1) : d \in Descriptors(Close, Timed)}
    \cup {Scene(Close, Control(Close), [writer |-> writer, reader |-> reader],
                [writer |-> expected, reader |-> TRUE], 2) :
            writer \in {"writer", "recreate-writer", "check"}, reader \in {"reader", "check"},
            expected \in BOOLEAN}
=============================================================================
