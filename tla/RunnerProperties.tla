-------------------------- MODULE RunnerProperties --------------------------
(***************************************************************************)
(* What the runner must get right whatever the roles' processes do.        *)
(***************************************************************************)
EXTENDS Runner

CompleteLines(r) == SubSeq(log[r], 1, Complete(r))

WellFormed(r) == \A i \in DOMAIN log[r] : log[r][i] \in Kinds

Written(b) == \E i \in 1..Complete(b[1]) : log[b[1]][i] = b[2]

\* However a log is torn into chunks, every line below the monitor's offset
\* is one event, once and in order (StructuredLogMonitor.poll).
EventsExactlyOnce ==
    \A r \in Roles :
        WellFormed(r) => events[r] = SubSeq(log[r], 1, consumed[r])

\* A role starts only when each of its barriers names an event its source has
\* really written (start_after, wait_for_barriers).
LaunchAfterBarriers ==
    [][\A r \in Roles :
         proc[r] = "new" /\ proc'[r] = "up" => \A b \in Barriers[r] : Written(b)]_vars

\* A run that is returned without an error record launched every role, has
\* the whole of every log as events, and met the transport fault contract:
\* nothing written between the last sweep and the exit is lost.
CleanRunIsWhole ==
    pc = "done" /\ ~partial =>
        /\ next = NumRoles + 1
        /\ \A r \in Roles : proc[r] = "exited" /\ events[r] = CompleteLines(r)
        /\ ContractMet

\* No role's process is alive when run_processes returns or raises, whichever
\* way it was left (the finally clause).
NoRoleOutlivesRun ==
    pc \in Terminal => \A r \in Roles : proc[r] # "up"

\* With preserve_partial and logs without a malformed line, the error path
\* still hands over everything the launched roles wrote until they stopped.
PartialTraceIsWhole ==
    pc = "done" /\ partial /\ (\A r \in Roles : WellFormed(r)) =>
        \A r \in Active : events[r] = CompleteLines(r)

\* A run ends although its roles may hang: every wait has the deadline.
RunEnds == <>(pc \in Terminal)

-----------------------------------------------------------------------------
(* The run the caller sees. *)

Status ==
    IF pc = "done" THEN IF partial THEN "partial" ELSE "complete"
    ELSE IF pc = "raised" THEN "raised"
    ELSE IF error = "none" THEN "running" ELSE "failing"

Abstract == INSTANCE RunContract
                WITH launched <- next - 1, seen <- events, status <- Status

\* run_processes keeps the contract its caller relies on.
ImplementsContract == Abstract!Spec
=============================================================================
