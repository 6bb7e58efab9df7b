------------------------------- MODULE Evaluation -----------------------------
(***************************************************************************)
(* From the roles' events to the verdict: the logs are read while the      *)
(* roles write them, FastDDSAdapter.run puts the events into the order of  *)
(* their times when every event has one, appends how the processes ended,  *)
(* and evaluate judges the evidence.                                       *)
(***************************************************************************)
EXTENDS Oracles

CONSTANT Cases
\* A case is a scenario, its assertions, the actors of its roles in launch
\* order, the events the roles may write, and bounds on their number and on the
\* number of processes that fail:
\* [scenario, assertions, roles, alphabet, bound, failures].

\* A role writes its own log only, and of samples only those it has written or
\* received; an assertion asks for at least one rotation or none is assessed.
ASSUME EvaluationAssumption ==
    \A c \in Cases :
        /\ c.roles \in Seq(Range(c.roles))
        /\ \A e \in c.alphabet :
                /\ e.actor \in Range(c.roles)
                /\ e.kind = "application.sample_written" => e.outcome = "succeeded"
                /\ e.kind = "application.sample_received" => e.outcome = "received"
        /\ \A a \in c.assertions :
                a.oracle = "session_rotation_delivery" => a.minimum \in Nat \ {0}

VARIABLES
    case,
    stamped,      \* every event has monotonic_ns
    emitted,      \* the events, in the order they were written
    unread,       \* per actor, the indexes of its log's unread events
    read,         \* the indexes of the events, in the order they were read
    tail          \* the events appended at the end of the execution

vars == <<case, stamped, emitted, unread, read, tail>>

Actors == Range(case.roles)
Running == tail = <<>>

Init ==
    /\ case \in Cases
    /\ stamped \in BOOLEAN
    /\ emitted = <<>>
    /\ unread = [a \in Actors |-> <<>>]
    /\ read = <<>> /\ tail = <<>>

\* A role writes an event to its log.
Emit(e) ==
    /\ Running /\ Len(emitted) < case.bound
    /\ emitted' = Append(emitted, e)
    /\ unread' = [unread EXCEPT ![e.actor] = Append(@, Len(emitted) + 1)]
    /\ UNCHANGED <<case, stamped, read, tail>>

\* The log of a role is read to its end.
Poll(actor) ==
    /\ Running /\ unread[actor] # <<>>
    /\ read' = read \o unread[actor]
    /\ unread' = [unread EXCEPT ![actor] = <<>>]
    /\ UNCHANGED <<case, stamped, emitted, tail>>

\* A process that was launched ended well or not.
ExitEvents(launched, failed) ==
    [i \in DOMAIN launched |->
        [kind |-> "process.exit", actor |-> launched[i],
         outcome |-> IF launched[i] \in failed THEN "failed" ELSE "succeeded"]]

Divergence(actor) == [kind |-> "execution.divergence", actor |-> actor, outcome |-> "failed"]

\* All roles ended and their logs have been read.
Complete(failed) ==
    /\ Running /\ \A a \in Actors : unread[a] = <<>>
    /\ tail' = ExitEvents(case.roles, failed)
    /\ UNCHANGED <<case, stamped, emitted, unread, read>>

\* A mutant: only the processes' ends are appended, not the error.
DivergeSilent(launched, failed, affected) ==
    /\ Running
    /\ tail' = ExitEvents(SubSeq(case.roles, 1, launched), failed)
    /\ UNCHANGED <<case, stamped, emitted, unread, read>>

\* The execution broke off: of the logs nothing more is read, some roles were
\* not launched.  The divergence goes to an affected actor, or to the last one.
Diverge(launched, failed, affected) ==
    /\ Running
    /\ tail' = Append(ExitEvents(SubSeq(case.roles, 1, launched), failed),
                      Divergence(IF affected = None THEN case.roles[launched] ELSE affected))
    /\ UNCHANGED <<case, stamped, emitted, unread, read>>

\* The sets of processes that may fail.
Failures(actors) == {failed \in SUBSET actors : Cardinality(failed) <= case.failures}

Next ==
    \/ \E e \in case.alphabet : Emit(e)
    \/ \E actor \in Actors : Poll(actor)
    \/ \E failed \in Failures(Actors) : Complete(failed)
    \/ \E launched \in DOMAIN case.roles, affected \in Actors \cup {None} :
          \E failed \in Failures({case.roles[i] : i \in 1..launched}) :
                Diverge(launched, failed, affected)

Spec == Init /\ [][Next]_vars
-----------------------------------------------------------------------------
\* Indexes in their order.
Ascending(indexes) ==
    [i \in 1..Cardinality(indexes) |->
        CHOOSE x \in indexes : Cardinality({y \in indexes : y <= x}) = i]

\* sorted(..., key=monotonic_ns): events are written in the order of their times.
Order == IF stamped THEN Ascending(Range(read)) ELSE read

\* The bundle: events of the logs, then those of the end.
Evidence == [i \in DOMAIN Order |-> emitted[Order[i]]] \o tail

Status(assertion, evidence) == Assess(case.scenario, assertion, evidence).status

Exited(evidence) == {evidence[i].actor : i \in Events(evidence, LAMBDA e : e.kind = "process.exit")}
Failed(evidence) ==
    {evidence[i].actor : i \in Events(evidence, LAMBDA e : e.kind = "process.exit" /\ e.outcome = "failed")}
Diverged(evidence) ==
    {evidence[i].actor : i \in Events(evidence, LAMBDA e : e.kind = "execution.divergence")}

Incomplete(evidence) == (Actors \ Exited(evidence)) \cup Diverged(evidence)

Verdict(evidence) ==
    LET statuses == {Status(a, evidence) : a \in case.assertions}
    IN IF "violation" \in statuses THEN "violation"
       ELSE IF Failed(evidence) \cup Incomplete(evidence) # {} \/ "not_applicable" \in statuses
       THEN "inconclusive"
       ELSE "pass"
-----------------------------------------------------------------------------
(* Properties.                                                             *)

\* Oracles that compare events of several actors, but not their order, and the
\* one that orders the events of a single actor.
OrderFree == {"crypto_token_recipient_binding", "unauthorized_key_disclosure",
              "application_writer_impersonation", "key_scope_separation",
              "policy_authorization_consistency", "crypto_token_transport_consistency",
              "observer_health", "endpoint_key_lifecycle"}

\* The events that were read, in the order they were written.
Written ==
    LET order == Ascending(Range(read)) IN [i \in DOMAIN order |-> emitted[order[i]]] \o tail

\* One event without a time leaves the evidence in the order of reading
\* (fastdds.py:398).  That order changes the status of no order-free oracle, and
\* never accuses a session rotation.
ReadingOrderHarmless ==
    \A a \in case.assertions :
        /\ a.oracle \in OrderFree => Status(a, Evidence) = Status(a, Written)
        /\ a.oracle = "session_rotation_delivery" =>
                (Status(a, Evidence) = "violation" <=> Status(a, Written) = "violation")

\* Oracles whose accusation needs nothing to be absent.
Persistent == {"crypto_token_recipient_binding", "unauthorized_key_disclosure",
               "application_writer_impersonation", "key_scope_separation",
               "policy_authorization_consistency", "session_rotation_delivery"}

\* No event that is read later, also one with an earlier time, takes back what
\* these oracles have shown.
ViolationStays ==
    [][\A a \in case.assertions :
        a.oracle \in Persistent /\ Status(a, Evidence) = "violation"
            => Status(a, Evidence') = "violation"]_vars

\* The events at some indexes, in their order.
Part(evidence, indexes) ==
    LET order == Ascending(indexes) IN [i \in DOMAIN order |-> evidence[order[i]]]

\* A result names exact events (ARCHITECTURE.md:151): those alone, in their
\* order, give the same status.  A violation of several rotations cites only the
\* invalid ones, which are too few for the assertion's minimum.
CitedEventsSuffice ==
    \A a \in case.assertions :
        LET result == Assess(case.scenario, a, Evidence)
            slice == Part(Evidence, result.cited)
        IN \/ result.status = "not_applicable"
           \/ result.status = "violation" /\ a.oracle = "session_rotation_delivery" /\ a.minimum > 1
           \/ Status(a, slice) = result.status

\* A pass is not given to an execution that lost events, left out a role or in
\* which a process failed; nor, if the scenario asserts the observer's health,
\* to one in which the observer reported an error.
PassIsWhole ==
    ~Running /\ Verdict(Evidence) = "pass" =>
        /\ Range(read) = DOMAIN emitted
        /\ \A actor \in Actors : \E i \in DOMAIN tail :
                tail[i] = [kind |-> "process.exit", actor |-> actor, outcome |-> "succeeded"]
        /\ (\E a \in case.assertions : a.oracle = "observer_health") =>
                Events(Evidence, LAMBDA e : e.kind = "probe.observer_error") = {}
=============================================================================
