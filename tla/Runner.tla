------------------------------- MODULE Runner -------------------------------
(***************************************************************************)
(* run_processes of runner.py together with coordination.py: one           *)
(* single-threaded runner that launches the scenario's roles in order,     *)
(* each behind its event barriers and its launch offset, follows the       *)
(* structured log each role writes, and stops everything at the deadline.  *)
(*                                                                         *)
(* The roles are other processes: between any two steps of the runner they *)
(* may write (part of) a line, exit, or hang, and the clock may advance.   *)
(* A log is the sequence of its structured lines; lines that do not start  *)
(* with DDSLEUTH_EVENT are left out, the monitor skips them.               *)
(***************************************************************************)
EXTENDS Naturals, Sequences

CONSTANTS
    NumRoles,        \* execution.roles, numbered in launch order
    Kinds,           \* what tells well-formed event lines apart
    Emits,           \* per role, the lines its process may write
    Barriers,        \* per role, start_after: pairs <<source role, kind>>
    Offset,          \* per role, start_offset_ms
    Contract,        \* per role, the applied events its transport actions need
    Deadline,        \* timeout_seconds, and the bound of the clock
    Preserve,        \* the values preserve_partial may be called with
    MaxLines         \* bound: lines one process writes

Roles == 1..NumRoles
Malformed == "malformed"  \* not JSON, not an object, or another actor's name
Oversize == "oversize"    \* longer than max_line_bytes, complete or not yet
Lines == Kinds \cup {Malformed, Oversize}

ASSUME RunnerAssumption ==
    /\ NumRoles \in Nat \ {0}
    /\ Malformed \notin Kinds /\ Oversize \notin Kinds
    /\ Emits \in [Roles -> SUBSET Lines]
    /\ Barriers \in [Roles -> SUBSET (Roles \X Kinds)]
    /\ \A r \in Roles : \A b \in Barriers[r] : b[1] < r
    /\ Offset \in [Roles -> Nat]
    /\ Contract \in [Roles -> SUBSET Kinds]
    /\ Deadline \in Nat
    /\ Preserve \subseteq BOOLEAN /\ Preserve # {}
    /\ MaxLines \in Nat

VARIABLES
    clock,     \* time.monotonic() - scenario_started
    proc,      \* per role: not launched, running, or exited
    log,       \* per role, the lines written so far
    torn,      \* per role: the last line has no newline yet
    consumed,  \* per role, the lines below the monitor's offset
    buffered,  \* per role: the monitor holds an unterminated line
    events,    \* per role, monitor.events of that actor
    pc,        \* where the runner is
    after,     \* where a poll of the logs returns to
    cursor,    \* the role a loop over the active roles is at
    next,      \* the role to launch; the roles below it are active
    pending,   \* wait_for_barriers: the barriers not matched yet
    error,     \* the error raised, or "none"
    partial    \* partial_error is set

procVars == <<proc, log, torn>>
monitorVars == <<consumed, buffered, events>>
runnerVars == <<pc, after, cursor, next, pending, error, partial>>
vars == <<clock, procVars, monitorVars, runnerVars>>

Active == 1..(next - 1)
Terminal == {"done", "raised"}
Stopping == {"terminate", "finally"}
RunnerErrors == {"launch", "line", "source exited", "barrier timeout",
                 "deadline", "contract"}

TypeOK ==
    /\ clock \in 0..Deadline
    /\ proc \in [Roles -> {"new", "up", "exited"}]
    /\ log \in [Roles -> Seq(Lines)]
    /\ torn \in [Roles -> BOOLEAN]
    /\ consumed \in [Roles -> Nat]
    /\ buffered \in [Roles -> BOOLEAN]
    /\ events \in [Roles -> Seq(Kinds)]
    /\ pc \in {"next_role", "poll", "match", "sources", "offset",
               "offset_deadline", "launch", "supervise", "run_deadline",
               "validate", "finish"} \cup Stopping \cup Terminal
    /\ after \in {"match", "offset_deadline", "run_deadline", "validate", "finish"}
    /\ next \in 1..(NumRoles + 1)
    /\ cursor \in 1..next
    /\ pending \in SUBSET (Roles \X Kinds)
    /\ error \in {"none", "os"} \cup RunnerErrors
    /\ partial \in BOOLEAN

Init ==
    /\ clock = 0
    /\ proc = [r \in Roles |-> "new"]
    /\ log = [r \in Roles |-> <<>>]
    /\ torn = [r \in Roles |-> FALSE]
    /\ consumed = [r \in Roles |-> 0]
    /\ buffered = [r \in Roles |-> FALSE]
    /\ events = [r \in Roles |-> <<>>]
    /\ pc = "next_role"
    /\ after = "match"
    /\ cursor = 1
    /\ next = 1
    /\ pending = {}
    /\ error = "none"
    /\ partial = FALSE

-----------------------------------------------------------------------------
(* The roles' processes and the clock. *)

Tick ==
    /\ clock < Deadline
    /\ clock' = clock + 1
    /\ UNCHANGED <<procVars, monitorVars, runnerVars>>

\* A process starts a line; the monitor may read it before its newline.
BeginLine(r) ==
    /\ proc[r] = "up" /\ ~torn[r] /\ Len(log[r]) < MaxLines
    /\ \E line \in Emits[r] : log' = [log EXCEPT ![r] = Append(@, line)]
    /\ torn' = [torn EXCEPT ![r] = TRUE]
    /\ UNCHANGED <<clock, proc, monitorVars, runnerVars>>

EndLine(r) ==
    /\ proc[r] = "up" /\ torn[r]
    /\ torn' = [torn EXCEPT ![r] = FALSE]
    /\ UNCHANGED <<clock, proc, log, monitorVars, runnerVars>>

Exit(r) ==
    /\ proc[r] = "up"
    /\ proc' = [proc EXCEPT ![r] = "exited"]
    /\ UNCHANGED <<clock, log, torn, monitorVars, runnerVars>>

-----------------------------------------------------------------------------
(* except RunnerError: keep the partial trace or raise; both run finally.  *)


AfterError(keep) == IF keep THEN "terminate" ELSE "finally"

\* The argument of a run is looked at here only, and once.
Fail(reason) ==
    /\ error' = reason
    /\ \E preserve \in Preserve :
        /\ partial' = (preserve /\ next > 1)
        /\ pc' = AfterError(partial')
    /\ cursor' = 1
    /\ UNCHANGED <<after, next, pending>>

Goto(label) ==
    /\ pc' = label
    /\ UNCHANGED <<after, cursor, next, pending, error, partial>>

CallPoll(return) ==
    /\ pc' = "poll"
    /\ after' = return
    /\ cursor' = 1
    /\ UNCHANGED <<next, error, partial>>

-----------------------------------------------------------------------------
(* StructuredLogMonitor.poll: one log after the other, each read to its    *)
(* current end.  The offset moves before the lines are parsed, so the      *)
(* lines behind one that raises are gone for good.                         *)

Complete(r) == IF torn[r] THEN Len(log[r]) - 1 ELSE Len(log[r])
Fresh(r) == SubSeq(log[r], consumed[r] + 1, Complete(r))
EmptyChunk(r) == consumed[r] = Complete(r) /\ buffered[r] = torn[r]

OversizeTail(r) ==
    /\ ~EmptyChunk(r)
    /\ torn[r]
    /\ log[r][Len(log[r])] = Oversize

GoodLength(lines) ==
    CHOOSE n \in 0..Len(lines) :
        /\ \A i \in 1..n : lines[i] \in Kinds
        /\ n < Len(lines) => lines[n + 1] \notin Kinds

Parsed(r) == IF OversizeTail(r) THEN <<>>
             ELSE SubSeq(Fresh(r), 1, GoodLength(Fresh(r)))

PollRaises(r) == OversizeTail(r) \/ GoodLength(Fresh(r)) < Len(Fresh(r))

\* Mutant of ReadLog: the offset is not saved.
ReadLogAgain(r) ==
    /\ buffered' = [buffered EXCEPT ![r] = torn[r]]
    /\ events' = [events EXCEPT ![r] = @ \o Parsed(r)]
    /\ UNCHANGED <<clock, procVars, consumed>>

ReadLog(r) ==
    /\ consumed' = [consumed EXCEPT ![r] = Complete(r)]
    /\ buffered' = [buffered EXCEPT ![r] = torn[r]]
    /\ events' = [events EXCEPT ![r] = @ \o Parsed(r)]
    /\ UNCHANGED <<clock, procVars>>

PollLog ==
    /\ pc = "poll" /\ cursor \in Active /\ ~PollRaises(cursor)
    /\ ReadLog(cursor)
    /\ cursor' = cursor + 1
    /\ UNCHANGED <<pc, after, next, pending, error, partial>>

PollLogRaises ==
    /\ pc = "poll" /\ cursor \in Active /\ PollRaises(cursor)
    /\ after # "finish"
    /\ ReadLog(cursor)
    /\ Fail("line")

\* The poll after a divergence swallows the error and stops at that log.
PollLogSwallowed ==
    /\ pc = "poll" /\ cursor \in Active /\ PollRaises(cursor)
    /\ after = "finish"
    /\ ReadLog(cursor)
    /\ Goto("finish")

PollReturns ==
    /\ pc = "poll" /\ cursor \notin Active
    /\ Goto(after)
    /\ UNCHANGED <<clock, procVars, monitorVars>>

-----------------------------------------------------------------------------
(* wait_for_barriers *)

NextRole ==
    /\ pc = "next_role"
    /\ \/ next \notin Roles /\ Goto("supervise")
       \/ next \in Roles /\ Barriers[next] = {} /\ Goto("offset")
       \/ /\ next \in Roles /\ Barriers[next] # {}
          /\ pending' = Barriers[next]
          /\ CallPoll("match")
    /\ UNCHANGED <<clock, procVars, monitorVars>>

\* A runner-reserved name in the role's environment.
RejectRole ==
    /\ pc = "next_role" /\ next \in Roles
    /\ Fail("launch")
    /\ UNCHANGED <<clock, procVars, monitorVars>>

Matched(b) == \E i \in DOMAIN events[b[1]] : events[b[1]][i] = b[2]

StillPending == {b \in pending : ~Matched(b)}

MatchBarriers ==
    /\ pc = "match"
    /\ pending' = StillPending
    /\ pc' = IF StillPending = {} THEN "offset" ELSE "sources"
    /\ UNCHANGED <<clock, procVars, monitorVars>>
    /\ UNCHANGED <<after, cursor, next, error, partial>>

SourceExited == \E b \in pending : proc[b[1]] = "exited"

DeadlinePassed == clock >= Deadline

\* Mutant of CheckSources: a barrier that times out lets the role start.
CheckSourcesGivesUp ==
    /\ pc = "sources"
    /\ \/ SourceExited /\ Fail("source exited")
       \/ ~SourceExited /\ DeadlinePassed /\ Goto("offset")
       \/ /\ ~SourceExited /\ ~DeadlinePassed
          /\ CallPoll("match") /\ UNCHANGED pending
    /\ UNCHANGED <<clock, procVars, monitorVars>>

CheckSources ==
    /\ pc = "sources"
    /\ \/ SourceExited /\ Fail("source exited")
       \/ ~SourceExited /\ DeadlinePassed /\ Fail("barrier timeout")
       \/ /\ ~SourceExited /\ ~DeadlinePassed
          /\ CallPoll("match") /\ UNCHANGED pending
    /\ UNCHANGED <<clock, procVars, monitorVars>>

-----------------------------------------------------------------------------
(* The launch offset, the launch, and the supervision of a full set. *)

WaitOffset ==
    /\ pc = "offset"
    /\ \/ clock >= Offset[next] /\ Goto("launch")
       \/ clock < Offset[next] /\ CallPoll("offset_deadline") /\ UNCHANGED pending
    /\ UNCHANGED <<clock, procVars, monitorVars>>

OffsetDeadline ==
    /\ pc = "offset_deadline"
    /\ \/ DeadlinePassed /\ Fail("deadline")
       \/ ~DeadlinePassed /\ Goto("offset")
    /\ UNCHANGED <<clock, procVars, monitorVars>>

Launch ==
    /\ pc = "launch"
    /\ proc' = [proc EXCEPT ![next] = "up"]
    /\ next' = next + 1
    /\ pc' = "next_role"
    /\ UNCHANGED <<clock, log, torn, monitorVars>>
    /\ UNCHANGED <<after, cursor, pending, error, partial>>

\* Action plan, fault library or executable provenance refused.
RejectLaunch ==
    /\ pc = "launch"
    /\ Fail("launch")
    /\ UNCHANGED <<clock, procVars, monitorVars>>

\* Mutant of PopenFails: the error leaves without the finally clause.
PopenFailsAtOnce ==
    /\ pc = "launch"
    /\ error' = "os"
    /\ pc' = "raised"
    /\ UNCHANGED <<after, cursor, next, pending, partial>>
    /\ UNCHANGED <<clock, procVars, monitorVars>>

\* Popen raises OSError, which the except clause does not catch.
PopenFails ==
    /\ pc = "launch"
    /\ error' = "os"
    /\ pc' = "finally"
    /\ cursor' = 1
    /\ UNCHANGED <<after, next, pending, partial>>
    /\ UNCHANGED <<clock, procVars, monitorVars>>

AllExited == \A r \in Active : proc[r] = "exited"

AfterSweep == IF AllExited THEN "validate" ELSE "run_deadline"

\* Mutant of Supervise: no last poll once every process has exited.
SuperviseNoDrain ==
    /\ pc = "supervise"
    /\ \/ AllExited /\ Goto("validate")
       \/ ~AllExited /\ CallPoll("run_deadline") /\ UNCHANGED pending
    /\ UNCHANGED <<clock, procVars, monitorVars>>

Supervise ==
    /\ pc = "supervise"
    /\ CallPoll(AfterSweep) /\ UNCHANGED pending
    /\ UNCHANGED <<clock, procVars, monitorVars>>

\* Mutant of RunDeadline: supervision waits for the roles for ever.
RunDeadlineIgnored ==
    /\ pc = "run_deadline"
    /\ Goto("supervise")
    /\ UNCHANGED <<clock, procVars, monitorVars>>

RunDeadline ==
    /\ pc = "run_deadline"
    /\ \/ DeadlinePassed /\ Fail("deadline")
       \/ ~DeadlinePassed /\ Goto("supervise")
    /\ UNCHANGED <<clock, procVars, monitorVars>>

ContractMet ==
    \A r \in Roles : \A kind \in Contract[r] :
        \E i \in DOMAIN events[r] : events[r][i] = kind

\* Mutant of Validate: the run does not fail closed.
ValidateSkipped ==
    /\ pc = "validate"
    /\ pc' = "finally" /\ cursor' = 1
    /\ UNCHANGED <<after, next, pending, error, partial>>
    /\ UNCHANGED <<clock, procVars, monitorVars>>

Validate ==
    /\ pc = "validate"
    /\ \/ /\ ContractMet
          /\ pc' = "finally" /\ cursor' = 1
          /\ UNCHANGED <<after, next, pending, error, partial>>
       \/ ~ContractMet /\ Fail("contract")
    /\ UNCHANGED <<clock, procVars, monitorVars>>

-----------------------------------------------------------------------------
(* terminate, wait, kill (partial only), then the finally clause.          *)

\* A role that is asked to stop may still write and exit until it is killed.
StopRole ==
    /\ pc \in Stopping /\ cursor \in Active
    /\ proc' = [proc EXCEPT ![cursor] = "exited"]
    /\ cursor' = cursor + 1
    /\ UNCHANGED <<clock, log, torn, monitorVars>>
    /\ UNCHANGED <<pc, after, next, pending, error, partial>>

Terminated ==
    /\ pc = "terminate" /\ cursor \notin Active
    /\ pc' = "finally" /\ cursor' = 1
    /\ UNCHANGED <<after, next, pending, error, partial>>
    /\ UNCHANGED <<clock, procVars, monitorVars>>

\* Mutant of AfterFinally: the logs are not read again after a divergence.
AfterFinallyNoPoll ==
    /\ pc = "finally" /\ cursor \notin Active
    /\ \/ (error = "none" \/ partial) /\ Goto("finish")
       \/ error # "none" /\ ~partial /\ Goto("raised")
    /\ UNCHANGED <<clock, procVars, monitorVars>>

AfterFinally ==
    /\ pc = "finally" /\ cursor \notin Active
    /\ \/ error = "none" /\ Goto("finish")
       \/ partial /\ CallPoll("finish") /\ UNCHANGED pending
       \/ error # "none" /\ ~partial /\ Goto("raised")
    /\ UNCHANGED <<clock, procVars, monitorVars>>

\* Compaction, process-status.json, runner-error.json and the return value.
Finish ==
    /\ pc = "finish"
    /\ Goto("done")
    /\ UNCHANGED <<clock, procVars, monitorVars>>

RunnerStep ==
    \/ NextRole \/ RejectRole \/ PollLog \/ PollLogRaises \/ PollLogSwallowed
    \/ PollReturns \/ MatchBarriers \/ CheckSources \/ WaitOffset
    \/ OffsetDeadline \/ Launch \/ RejectLaunch \/ PopenFails \/ Supervise
    \/ RunDeadline \/ Validate \/ StopRole \/ Terminated \/ AfterFinally \/ Finish

ProcessStep == \E r \in Roles : BeginLine(r) \/ EndLine(r) \/ Exit(r)

Next == RunnerStep \/ ProcessStep \/ Tick

Spec == Init /\ [][Next]_vars

\* The runner is scheduled and time passes; nothing is asked of the roles.
FairSpec == Spec /\ WF_vars(RunnerStep) /\ WF_vars(Tick)
=============================================================================
