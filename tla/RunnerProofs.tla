---------------------------- MODULE RunnerProofs ----------------------------
(***************************************************************************)
(* Theorems about Runner, for every number of roles, every set of barriers *)
(* and every log: events are read exactly once, no process survives, roles *)
(* start behind their barriers; the trace that is handed over is whole;    *)
(* and run_processes implements RunContract, what its caller relies on.    *)
(***************************************************************************)
EXTENDS RunnerProperties, ProofFacts

-----------------------------------------------------------------------------
(* The inductive invariant.                                                *)

\* The monitor's offset never passes the last complete line.
OffsetBounded ==
    \A r \in Roles :
        /\ consumed[r] <= Complete(r)
        /\ torn[r] => Len(log[r]) > 0

\* Every event is a line below the offset.
EventsWritten ==
    \A r \in Roles : \A i \in DOMAIN events[r] :
        \E j \in 1..consumed[r] : log[r][j] = events[r][i]

\* The roles below next, and no others, have been launched.
LaunchOrder ==
    \A r \in Roles : proc[r] = "new" <=> r >= next

\* In wait_for_barriers, and between it and the launch.
Waiting == pc \in {"match", "sources"} \/ (pc = "poll" /\ after = "match")
Cleared == \/ pc \in {"offset", "offset_deadline", "launch"}
           \/ pc = "poll" /\ after = "offset_deadline"

BarrierProgress ==
    /\ Waiting \/ Cleared => next \in Roles
    /\ Waiting => \A b \in Barriers[next] : b \in pending \/ Matched(b)
    /\ Cleared => \A b \in Barriers[next] : Matched(b)

\* What the terminate and kill loops have passed is exited.
AfterStop == pc \in {"finish"} \cup Terminal \/ (pc = "poll" /\ after = "finish")

Stopped ==
    /\ pc \in Stopping => \A r \in 1..(cursor - 1) : proc[r] = "exited"
    /\ AfterStop => \A r \in Active : proc[r] = "exited"

BaseInv == TypeOK /\ OffsetBounded

IInv == /\ BaseInv
        /\ EventsExactlyOnce
        /\ EventsWritten
        /\ LaunchOrder
        /\ BarrierProgress
        /\ Stopped

-----------------------------------------------------------------------------
(* The monitor's poll of one log. *)

LEMMA GoodLengthFacts ==
    ASSUME NEW S, NEW lines \in Seq(S)
    PROVE  /\ GoodLength(lines) \in 0..Len(lines)
           /\ \A i \in 1..GoodLength(lines) : lines[i] \in Kinds
           /\ GoodLength(lines) < Len(lines) => lines[GoodLength(lines) + 1] \notin Kinds
<1> DEFINE Bad == {i \in 0..(Len(lines) - 1) : lines[i + 1] \notin Kinds}
           Good(n) == /\ \A i \in 1..n : lines[i] \in Kinds
                      /\ n < Len(lines) => lines[n + 1] \notin Kinds
<1>0. Len(lines) \in Nat
  OBVIOUS
<1>1. \E n \in 0..Len(lines) : Good(n)
  <2>1. CASE Bad = {}
    <3>1. \A i \in 1..Len(lines) : lines[i] \in Kinds
      <4> TAKE i \in 1..Len(lines)
      <4>1. i - 1 \in 0..(Len(lines) - 1) /\ (i - 1) + 1 = i
        BY <1>0
      <4> QED BY <4>1, <2>1
    <3> QED BY <3>1, <1>0
  <2>2. CASE Bad # {}
    <3>1. PICK x \in Bad : \A y \in Bad : x <= y
      <4>1. Bad \subseteq Nat
        BY <1>0
      <4> HIDE DEF Bad
      <4> QED BY <4>1, <2>2, LeastMember
    <3>2. x \in 0..Len(lines) /\ lines[x + 1] \notin Kinds
      BY <1>0
    <3>3. \A i \in 1..x : lines[i] \in Kinds
      <4> TAKE i \in 1..x
      <4>1. /\ i - 1 \in 0..(Len(lines) - 1)
            /\ (i - 1) + 1 = i
            /\ ~(x <= i - 1)
        BY <1>0
      <4> QED BY <4>1, <3>1
    <3> QED BY <3>2, <3>3
  <2> QED BY <2>1, <2>2
<1>2. GoodLength(lines) \in 0..Len(lines) /\ Good(GoodLength(lines))
  BY <1>1 DEF GoodLength
<1> QED BY <1>2

LEMMA FreshFacts ==
    ASSUME BaseInv, NEW r \in Roles
    PROVE  /\ Complete(r) \in 0..Len(log[r])
           /\ Fresh(r) \in Seq(Lines)
           /\ Len(Fresh(r)) = Complete(r) - consumed[r]
           /\ \A i \in 1..Len(Fresh(r)) : Fresh(r)[i] = log[r][consumed[r] + i]
<1>1. /\ log[r] \in Seq(Lines) /\ Len(log[r]) \in Nat
      /\ torn[r] \in BOOLEAN /\ consumed[r] \in Nat
      /\ consumed[r] <= Complete(r)
      /\ torn[r] => Len(log[r]) > 0
  BY DEF BaseInv, TypeOK, OffsetBounded
<1>2. Complete(r) \in 0..Len(log[r])
  BY <1>1 DEF Complete
<1>3. \A i \in (consumed[r] + 1)..Complete(r) : log[r][i] \in Lines
  BY <1>1, <1>2
<1>4. /\ Fresh(r) \in Seq(Lines)
      /\ Len(Fresh(r)) = IF consumed[r] + 1 <= Complete(r)
                         THEN Complete(r) - (consumed[r] + 1) + 1 ELSE 0
      /\ \A i \in 1..(Complete(r) - (consumed[r] + 1) + 1) :
            Fresh(r)[i] = log[r][(consumed[r] + 1) + i - 1]
  <2>1. consumed[r] + 1 \in Int /\ Complete(r) \in Int
    BY <1>1, <1>2
  <2> QED BY <2>1, <1>3, SubSeqProperties DEF Fresh
<1>5. Len(Fresh(r)) = Complete(r) - consumed[r]
  BY <1>1, <1>2, <1>4
<1>6. \A i \in 1..Len(Fresh(r)) : Fresh(r)[i] = log[r][consumed[r] + i]
  <2> TAKE i \in 1..Len(Fresh(r))
  <2>1. /\ i \in 1..(Complete(r) - (consumed[r] + 1) + 1)
        /\ (consumed[r] + 1) + i - 1 = consumed[r] + i
    BY <1>1, <1>2, <1>5
  <2> QED BY <2>1, <1>4
<1> QED BY <1>2, <1>4, <1>5, <1>6

LEMMA ParsedFacts ==
    ASSUME BaseInv, NEW r \in Roles
    PROVE  /\ Parsed(r) \in Seq(Kinds)
           /\ Len(Parsed(r)) <= Complete(r) - consumed[r]
           /\ \A i \in 1..Len(Parsed(r)) : Parsed(r)[i] = log[r][consumed[r] + i]
           /\ ~PollRaises(r) => Parsed(r) = Fresh(r)
           /\ WellFormed(r) => ~PollRaises(r)
<1> DEFINE n == GoodLength(Fresh(r))
<1>1. /\ Complete(r) \in 0..Len(log[r])
      /\ Fresh(r) \in Seq(Lines)
      /\ Len(Fresh(r)) = Complete(r) - consumed[r]
      /\ \A i \in 1..Len(Fresh(r)) : Fresh(r)[i] = log[r][consumed[r] + i]
  BY FreshFacts
<1>2. /\ n \in 0..Len(Fresh(r))
      /\ \A i \in 1..n : Fresh(r)[i] \in Kinds
      /\ n < Len(Fresh(r)) => Fresh(r)[n + 1] \notin Kinds
  BY <1>1, GoodLengthFacts
<1>3. /\ SubSeq(Fresh(r), 1, n) \in Seq(Kinds)
      /\ Len(SubSeq(Fresh(r), 1, n)) = n
      /\ \A i \in 1..n : SubSeq(Fresh(r), 1, n)[i] = Fresh(r)[i]
  <2> HIDE DEF n
  <2> QED BY <1>1, <1>2, SubSeqProperties
<1>4. log[r] \in Seq(Lines) /\ consumed[r] \in Nat /\ Len(Fresh(r)) \in Nat
  BY <1>1 DEF BaseInv, TypeOK
<1>5. /\ Parsed(r) \in Seq(Kinds)
      /\ Len(Parsed(r)) <= Complete(r) - consumed[r]
      /\ \A i \in 1..Len(Parsed(r)) : Parsed(r)[i] = log[r][consumed[r] + i]
  <2>1. CASE OversizeTail(r)
    BY <2>1, <1>1, <1>4 DEF Parsed
  <2>2. CASE ~OversizeTail(r)
    <3>1. Parsed(r) = SubSeq(Fresh(r), 1, n)
      BY <2>2 DEF Parsed
    <3> HIDE DEF n
    <3> QED BY <3>1, <1>1, <1>2, <1>3, <1>4
  <2> QED BY <2>1, <2>2
<1>6. ASSUME ~PollRaises(r)
      PROVE  Parsed(r) = Fresh(r)
  <2>1. ~OversizeTail(r) /\ n = Len(Fresh(r))
    BY <1>6, <1>2, <1>4 DEF PollRaises
  <2>2. SubSeq(Fresh(r), 1, Len(Fresh(r))) = Fresh(r)
    BY <1>1, SubSeqFull
  <2> QED BY <2>1, <2>2 DEF Parsed
<1>7. ASSUME WellFormed(r)
      PROVE  ~PollRaises(r)
  <2>1. \A i \in 1..Len(log[r]) : log[r][i] \in Kinds
    BY <1>7, <1>4 DEF WellFormed
  <2>2. ~OversizeTail(r)
    <3>1. Oversize \notin Kinds
      BY RunnerAssumption
    <3>2. torn[r] => Len(log[r]) \in 1..Len(log[r])
      BY <1>4 DEF BaseInv, OffsetBounded
    <3> QED BY <2>1, <3>1, <3>2 DEF OversizeTail
  <2>3. ~(n < Len(Fresh(r)))
    <3>1. SUFFICES ASSUME n < Len(Fresh(r)) PROVE FALSE
      OBVIOUS
    <3> HIDE DEF n
    <3>2. n + 1 \in 1..Len(Fresh(r)) /\ consumed[r] + (n + 1) \in 1..Len(log[r])
      BY <3>1, <1>1, <1>2, <1>4
    <3> QED BY <3>1, <3>2, <1>1, <1>2, <2>1
  <2> QED BY <2>2, <2>3 DEF PollRaises
<1> QED BY <1>5, <1>6, <1>7

-----------------------------------------------------------------------------
(* The type invariant and the offset bound. *)

\* What a step that touches no log leaves alone.
LEMMA ControlStep ==
    ASSUME OffsetBounded, UNCHANGED <<procVars, monitorVars>>
    PROVE  OffsetBounded'
BY DEF OffsetBounded, procVars, monitorVars, Complete

LEMMA ReadLogStep ==
    ASSUME BaseInv, NEW r \in Roles, ReadLog(r)
    PROVE  /\ clock' = clock /\ proc' = proc /\ log' = log /\ torn' = torn
           /\ consumed' \in [Roles -> Nat]
           /\ buffered' \in [Roles -> BOOLEAN]
           /\ events' \in [Roles -> Seq(Kinds)]
           /\ OffsetBounded'
           /\ consumed'[r] = Complete(r)
           /\ events'[r] = events[r] \o Parsed(r)
           /\ \A q \in Roles : q # r => consumed'[q] = consumed[q] /\ events'[q] = events[q]
<1>1. /\ Complete(r) \in Nat
      /\ Parsed(r) \in Seq(Kinds)
  BY FreshFacts, ParsedFacts
<1>2. events[r] \o Parsed(r) \in Seq(Kinds)
  BY <1>1, ConcatProperties DEF BaseInv, TypeOK
<1>3. OffsetBounded'
  <2>1. \A q \in Roles : Complete(q)' = Complete(q)
    BY DEF ReadLog, procVars, Complete
  <2>2. \A q \in Roles : consumed'[q] <= Complete(q)
    BY <1>1 DEF ReadLog, BaseInv, TypeOK, OffsetBounded
  <2> QED BY <2>1, <2>2 DEF ReadLog, procVars, BaseInv, OffsetBounded
<1> QED BY <1>1, <1>2, <1>3 DEF ReadLog, procVars, BaseInv, TypeOK

LEMMA FailType ==
    ASSUME TypeOK, NEW reason \in RunnerErrors, Fail(reason)
    PROVE  /\ pc' \in Stopping /\ cursor' = 1 /\ after' = after /\ next' = next
           /\ pending' = pending /\ error' = reason /\ partial' \in BOOLEAN
           /\ cursor' \in 1..next
BY RunnerAssumption DEF TypeOK, Fail, AfterError, Stopping, Roles

LEMMA BaseInit == Init => BaseInv
<1> SUFFICES ASSUME Init PROVE BaseInv
  OBVIOUS
<1>1. 1 \in 1..(NumRoles + 1) /\ 0 \in 0..Deadline
  BY RunnerAssumption
<1>2. TypeOK
  <2>1. <<>> \in Seq(Lines) /\ <<>> \in Seq(Kinds)
    OBVIOUS
  <2>2. log \in [Roles -> Seq(Lines)] /\ events \in [Roles -> Seq(Kinds)]
    BY <2>1 DEF Init
  <2>3. /\ proc \in [Roles -> {"new", "up", "exited"}]
        /\ torn \in [Roles -> BOOLEAN] /\ buffered \in [Roles -> BOOLEAN]
        /\ consumed \in [Roles -> Nat]
    BY DEF Init
  <2>4. /\ clock \in 0..Deadline /\ next \in 1..(NumRoles + 1) /\ cursor \in 1..next
    <3>1. clock = 0 /\ next = 1 /\ cursor = 1
      BY DEF Init
    <3> QED BY <1>1, <3>1
  <2>6. pending \in SUBSET (Roles \X Kinds) /\ partial \in BOOLEAN
    BY DEF Init
  <2>5. pc = "next_role" /\ after = "match" /\ error = "none"
    BY DEF Init
  <2> QED BY <2>2, <2>3, <2>4, <2>5, <2>6 DEF TypeOK
<1>3. OffsetBounded
  BY DEF Init, OffsetBounded, Complete
<1> QED BY <1>2, <1>3 DEF BaseInv

LEMMA BaseProcess == ASSUME BaseInv, ProcessStep PROVE BaseInv'
<1> PICK r \in Roles : BeginLine(r) \/ EndLine(r) \/ Exit(r)
  BY DEF ProcessStep
<1>1. CASE BeginLine(r)
  <2> PICK line \in Emits[r] : log' = [log EXCEPT ![r] = Append(@, line)]
    BY <1>1 DEF BeginLine
  <2>1. line \in Lines
    BY RunnerAssumption
  <2>2. /\ Append(log[r], line) \in Seq(Lines)
        /\ Len(Append(log[r], line)) = Len(log[r]) + 1
        /\ Len(log[r]) \in Nat
    BY <2>1 DEF BaseInv, TypeOK
  <2>3. TypeOK'
    BY <1>1, <2>2 DEF BeginLine, BaseInv, TypeOK, monitorVars, runnerVars
  <2>4. OffsetBounded'
    <3>1. \A q \in Roles : Complete(q)' = Complete(q)
      BY <1>1, <2>2 DEF BeginLine, BaseInv, TypeOK, Complete
    <3>2. \A q \in Roles : torn'[q] => Len(log'[q]) > 0
      BY <1>1, <2>2 DEF BeginLine, BaseInv, TypeOK, OffsetBounded
    <3> QED BY <1>1, <3>1, <3>2 DEF BeginLine, BaseInv, OffsetBounded, monitorVars
  <2> QED BY <2>3, <2>4 DEF BaseInv
<1>2. CASE EndLine(r)
  <2>1. TypeOK'
    BY <1>2 DEF EndLine, BaseInv, TypeOK, monitorVars, runnerVars
  <2>2. OffsetBounded'
    <3>1. \A q \in Roles : Complete(q)' >= Complete(q) /\ Complete(q) \in Int
                              /\ Complete(q)' \in Int
      BY <1>2 DEF EndLine, BaseInv, TypeOK, Complete
    <3> QED BY <1>2, <3>1 DEF EndLine, BaseInv, TypeOK, OffsetBounded, monitorVars
  <2> QED BY <2>1, <2>2 DEF BaseInv
<1>3. CASE Exit(r)
  BY <1>3 DEF Exit, BaseInv, TypeOK, OffsetBounded, Complete, monitorVars, runnerVars
<1> QED BY <1>1, <1>2, <1>3

LEMMA BasePoll ==
    ASSUME BaseInv, PollLog \/ PollLogRaises \/ PollLogSwallowed
    PROVE  BaseInv'
<1>1. cursor \in Roles /\ ReadLog(cursor) /\ cursor + 1 \in 1..next
  BY RunnerAssumption
     DEF PollLog, PollLogRaises, PollLogSwallowed, BaseInv, TypeOK, Active, Roles
<1>2. /\ pc' \in {"poll", "finish"} \cup Stopping
      /\ after' = after /\ next' = next /\ pending' = pending
      /\ cursor' \in 1..next
      /\ error' \in {"none", "os"} \cup RunnerErrors
      /\ partial' \in BOOLEAN
  <2>1. CASE PollLog
    BY <2>1, <1>1 DEF PollLog, BaseInv, TypeOK
  <2>2. CASE PollLogRaises
    BY <2>2, FailType DEF PollLogRaises, BaseInv, RunnerErrors
  <2>3. CASE PollLogSwallowed
    BY <2>3 DEF PollLogSwallowed, Goto, BaseInv, TypeOK
  <2> QED BY <2>1, <2>2, <2>3
<1> QED BY <1>1, <1>2, ReadLogStep DEF BaseInv, TypeOK

\* The steps that read no log and touch no process.
ControlSteps ==
    \/ NextRole \/ RejectRole \/ PollReturns \/ MatchBarriers \/ CheckSources
    \/ WaitOffset \/ OffsetDeadline \/ RejectLaunch \/ PopenFails \/ Supervise
    \/ RunDeadline \/ Validate \/ Terminated \/ AfterFinally \/ Finish

LEMMA ControlType ==
    ASSUME TypeOK, ControlSteps
    PROVE  /\ UNCHANGED <<clock, procVars, monitorVars>>
           /\ pc' \in {"next_role", "poll", "match", "sources", "offset",
                       "offset_deadline", "launch", "supervise", "run_deadline",
                       "validate", "finish"} \cup Stopping \cup Terminal
           /\ after' \in {"match", "offset_deadline", "run_deadline", "validate", "finish"}
           /\ next' = next /\ cursor' \in 1..next
           /\ pending' \in SUBSET (Roles \X Kinds)
           /\ error' \in {"none", "os"} \cup RunnerErrors
           /\ partial' \in BOOLEAN
<1> USE DEF Goto, CallPoll, Stopping, Terminal
<1>0. 1 \in 1..next
  BY RunnerAssumption DEF TypeOK
<1>1. CASE NextRole
  <2>1. next \in Roles => Barriers[next] \in SUBSET (Roles \X Kinds)
    BY RunnerAssumption
  <2> QED BY <1>1, <1>0, <2>1 DEF NextRole, TypeOK
<1>2. CASE RejectRole
  BY <1>2, FailType DEF RejectRole, TypeOK, RunnerErrors
<1>3. CASE PollReturns
  BY <1>3 DEF PollReturns, TypeOK
<1>4. CASE MatchBarriers
  BY <1>4 DEF MatchBarriers, StillPending, TypeOK
<1>5. CASE CheckSources
  <2>1. CASE Fail("source exited") \/ Fail("barrier timeout")
    BY <1>5, <2>1, FailType DEF CheckSources, TypeOK, RunnerErrors
  <2>2. CASE CallPoll("match") /\ UNCHANGED pending
    BY <1>5, <2>2, <1>0 DEF CheckSources, TypeOK
  <2> QED BY <1>5, <2>1, <2>2 DEF CheckSources
<1>6. CASE WaitOffset
  BY <1>6, <1>0 DEF WaitOffset, TypeOK
<1>7. CASE OffsetDeadline
  BY <1>7, FailType DEF OffsetDeadline, TypeOK, RunnerErrors
<1>8. CASE RejectLaunch
  BY <1>8, FailType DEF RejectLaunch, TypeOK, RunnerErrors
<1>9. CASE PopenFails
  BY <1>9, <1>0 DEF PopenFails, TypeOK
<1>10. CASE Supervise
  BY <1>10, <1>0 DEF Supervise, AfterSweep, TypeOK
<1>11. CASE RunDeadline
  BY <1>11, FailType DEF RunDeadline, TypeOK, RunnerErrors
<1>12. CASE Validate
  BY <1>12, <1>0, FailType DEF Validate, TypeOK, RunnerErrors
<1>13. CASE Terminated
  BY <1>13, <1>0 DEF Terminated, TypeOK
<1>14. CASE AfterFinally
  BY <1>14, <1>0 DEF AfterFinally, TypeOK
<1>15. CASE Finish
  BY <1>15 DEF Finish, TypeOK
<1> QED
  BY <1>1, <1>2, <1>3, <1>4, <1>5, <1>6, <1>7, <1>8, <1>9, <1>10, <1>11, <1>12,
     <1>13, <1>14, <1>15 DEF ControlSteps

LEMMA BaseControl == ASSUME BaseInv, ControlSteps PROVE BaseInv'
<1>1. OffsetBounded'
  BY ControlStep, ControlType DEF BaseInv
<1> QED BY <1>1, ControlType DEF BaseInv, TypeOK, procVars, monitorVars

LEMMA BaseLaunchStop == ASSUME BaseInv, Launch \/ StopRole, pc = "launch" => next \in Roles
                        PROVE  BaseInv'
<1>1. CASE Launch
  <2>1. next + 1 \in 1..(NumRoles + 1) /\ cursor \in 1..(next + 1)
    BY <1>1, RunnerAssumption DEF Launch, BaseInv, TypeOK, Roles
  <2> QED BY <1>1, <2>1 DEF Launch, BaseInv, TypeOK, OffsetBounded, Complete, monitorVars
<1>2. CASE StopRole
  <2>1. cursor + 1 \in 1..next /\ cursor \in Roles
    BY <1>2, RunnerAssumption DEF StopRole, BaseInv, TypeOK, Active, Roles
  <2> QED BY <1>2, <2>1
          DEF StopRole, BaseInv, TypeOK, OffsetBounded, Complete, monitorVars
<1> QED BY <1>1, <1>2

LEMMA BaseTick == ASSUME BaseInv, Tick PROVE BaseInv'
<1>1. clock' \in 0..Deadline
  BY RunnerAssumption DEF Tick, BaseInv, TypeOK
<1> QED BY <1>1
        DEF Tick, BaseInv, TypeOK, OffsetBounded, Complete, procVars, monitorVars, runnerVars

LEMMA BaseStutter == ASSUME BaseInv, UNCHANGED vars PROVE BaseInv'
BY DEF BaseInv, TypeOK, OffsetBounded, Complete, vars, procVars, monitorVars, runnerVars

\* The steps of the specification, in the groups the proofs distinguish.
LEMMA Steps ==
    ASSUME [Next]_vars
    PROVE  \/ ControlSteps
           \/ PollLog \/ PollLogRaises \/ PollLogSwallowed
           \/ Launch \/ StopRole \/ ProcessStep \/ Tick
           \/ UNCHANGED vars
BY DEF Next, RunnerStep, ControlSteps

-----------------------------------------------------------------------------
(* The rest of the inductive invariant, one group of steps at a time. *)

\* Events and logs that do not change keep what relates them.
LEMMA LogsKept ==
    ASSUME EventsExactlyOnce, EventsWritten, UNCHANGED <<log, monitorVars>>
    PROVE  EventsExactlyOnce' /\ EventsWritten'
BY DEF EventsExactlyOnce, EventsWritten, WellFormed, monitorVars

LEMMA ControlBarriers ==
    ASSUME TypeOK, BarrierProgress, ControlSteps
    PROVE  BarrierProgress'
<1> USE DEF Goto, CallPoll, Stopping, Terminal, Waiting, Cleared
<1>1. /\ next' = next
      /\ \A b \in Roles \X Kinds : Matched(b)' = Matched(b)
  BY ControlType DEF monitorVars, Matched
<1>2. next \in Roles => Barriers[next] \subseteq Roles \X Kinds
  BY RunnerAssumption
<1>3. CASE pc' \in Stopping \cup Terminal \cup {"finish", "supervise", "run_deadline",
                                                "validate", "next_role"}
  BY <1>3 DEF BarrierProgress
<1>4. CASE pc' \in {"poll", "match", "sources", "offset", "offset_deadline", "launch"}
  <2>1. CASE NextRole
    BY <2>1, <1>1 DEF NextRole, BarrierProgress
  <2>2. CASE PollReturns
    <3>1. pc = "poll" /\ pc' = after /\ pending' = pending /\ after' = after
      BY <2>2 DEF PollReturns
    <3>2. CASE after = "match"
      BY <3>1, <3>2, <1>1, <1>2 DEF BarrierProgress
    <3>3. CASE after = "offset_deadline"
      BY <3>1, <3>3, <1>1, <1>2 DEF BarrierProgress
    <3> QED BY <3>1, <3>2, <3>3, <1>4 DEF TypeOK
  <2>3. CASE MatchBarriers
    BY <2>3, <1>1, <1>2 DEF MatchBarriers, StillPending, BarrierProgress
  <2>4. CASE CheckSources
    BY <2>4, <1>1, <1>2, <1>4 DEF CheckSources, Fail, AfterError, BarrierProgress
  <2>5. CASE WaitOffset
    BY <2>5, <1>1, <1>2 DEF WaitOffset, BarrierProgress
  <2>6. CASE OffsetDeadline
    BY <2>6, <1>1, <1>2, <1>4 DEF OffsetDeadline, Fail, AfterError, BarrierProgress
  <2>7. CASE Supervise
    BY <2>7 DEF Supervise, AfterSweep, BarrierProgress
  <2>8. CASE AfterFinally
    BY <2>8 DEF AfterFinally, BarrierProgress
  <2>9. CASE \/ RejectRole \/ RejectLaunch \/ PopenFails \/ RunDeadline \/ Validate
             \/ Terminated \/ Finish
    BY <2>9, <1>4 DEF RejectRole, RejectLaunch, PopenFails, RunDeadline, Validate,
                      Terminated, Finish, Fail, AfterError
  <2> QED BY <2>1, <2>2, <2>3, <2>4, <2>5, <2>6, <2>7, <2>8, <2>9 DEF ControlSteps
<1> QED BY <1>3, <1>4, ControlType

LEMMA ControlStopped ==
    ASSUME TypeOK, Stopped, ControlSteps
    PROVE  Stopped'
<1> USE DEF Goto, CallPoll, Stopping, Terminal, AfterStop
<1>1. /\ next' = next /\ proc' = proc /\ Active' = Active
  BY ControlType DEF procVars, Active
<1>2. CASE pc' \in Stopping /\ cursor' = 1
  BY <1>2 DEF Stopped
<1>3. CASE ~AfterStop' /\ pc' \notin Stopping
  BY <1>3 DEF Stopped
<1>4. ASSUME ~(pc' \in Stopping /\ cursor' = 1),
             ~(~AfterStop' /\ pc' \notin Stopping)
      PROVE  Stopped'
  <2>1. CASE PollReturns
    BY <2>1, <1>1, <1>4 DEF PollReturns, Stopped, TypeOK
  <2>2. CASE AfterFinally
    <3>1. \A r \in Active : proc[r] = "exited"
      BY <2>2 DEF AfterFinally, Stopped, Active, TypeOK
    <3> QED BY <2>2, <3>1, <1>1 DEF AfterFinally, Stopped
  <2>3. CASE Finish
    BY <2>3, <1>1 DEF Finish, Stopped
  <2>4. CASE \/ NextRole \/ RejectRole \/ MatchBarriers \/ CheckSources \/ WaitOffset
             \/ OffsetDeadline \/ RejectLaunch \/ PopenFails \/ Supervise
             \/ RunDeadline \/ Validate \/ Terminated
    BY <2>4, <1>4 DEF NextRole, RejectRole, MatchBarriers, CheckSources, WaitOffset,
                      OffsetDeadline, RejectLaunch, PopenFails, Supervise, AfterSweep,
                      RunDeadline, Validate, Terminated, Fail, AfterError
  <2> QED BY <2>1, <2>2, <2>3, <2>4 DEF ControlSteps
<1> QED BY <1>2, <1>3, <1>4

LEMMA IInvControl == ASSUME IInv, ControlSteps PROVE IInv'
<1>1. BaseInv' /\ UNCHANGED <<clock, procVars, monitorVars>> /\ next' = next
  BY BaseControl, ControlType DEF IInv, BaseInv
<1>2. LaunchOrder'
  BY <1>1 DEF IInv, LaunchOrder, procVars
<1> QED BY <1>1, <1>2, LogsKept, ControlBarriers, ControlStopped
        DEF IInv, BaseInv, procVars

LEMMA IInvPoll ==
    ASSUME IInv, PollLog \/ PollLogRaises \/ PollLogSwallowed
    PROVE  IInv'
<1> DEFINE r == cursor
<1>1. r \in Roles /\ ReadLog(r) /\ BaseInv
  BY RunnerAssumption DEF PollLog, PollLogRaises, PollLogSwallowed, IInv, BaseInv,
                          TypeOK, Active, Roles
<1> HIDE DEF r
<1>2. /\ proc' = proc /\ log' = log /\ torn' = torn
      /\ consumed'[r] = Complete(r)
      /\ events'[r] = events[r] \o Parsed(r)
      /\ \A q \in Roles : q # r => consumed'[q] = consumed[q] /\ events'[q] = events[q]
  BY <1>1, ReadLogStep
<1>3. /\ Parsed(r) \in Seq(Kinds)
      /\ Len(Parsed(r)) <= Complete(r) - consumed[r]
      /\ \A i \in 1..Len(Parsed(r)) : Parsed(r)[i] = log[r][consumed[r] + i]
      /\ ~PollRaises(r) => Parsed(r) = Fresh(r)
      /\ WellFormed(r) => ~PollRaises(r)
      /\ Complete(r) \in 0..Len(log[r])
  BY <1>1, ParsedFacts, FreshFacts
<1>4. /\ events[r] \in Seq(Kinds) /\ log[r] \in Seq(Lines)
      /\ consumed[r] \in Nat /\ consumed[r] <= Complete(r)
      /\ Len(log[r]) \in Nat /\ Len(events[r]) \in Nat /\ Len(Parsed(r)) \in Nat
  BY <1>1, <1>3 DEF BaseInv, TypeOK, OffsetBounded
<1>5. /\ Len(events'[r]) = Len(events[r]) + Len(Parsed(r))
      /\ DOMAIN events'[r] = 1..(Len(events[r]) + Len(Parsed(r)))
      /\ \A i \in 1..Len(events[r]) : events'[r][i] = events[r][i]
      /\ \A i \in (Len(events[r]) + 1)..(Len(events[r]) + Len(Parsed(r))) :
            events'[r][i] = Parsed(r)[i - Len(events[r])]
  BY <1>2, <1>3, <1>4
<1>6. EventsExactlyOnce'
  <2>1. ASSUME WellFormed(r)
        PROVE  events'[r] = SubSeq(log[r], 1, consumed'[r])
    <3>1. events[r] = SubSeq(log[r], 1, consumed[r])
      BY <2>1, <1>1 DEF IInv, EventsExactlyOnce
    <3>2. Parsed(r) = SubSeq(log[r], consumed[r] + 1, Complete(r))
      BY <2>1, <1>3 DEF Fresh
    <3>3. SubSeq(log[r], 1, consumed[r]) \o SubSeq(log[r], consumed[r] + 1, Complete(r))
            = SubSeq(log[r], 1, Complete(r))
      <4>1. Complete(r) \in Nat /\ Complete(r) <= Len(log[r])
        BY <1>3, <1>4
      <4> QED BY <4>1, <1>4, ExtendPrefix
    <3> QED BY <3>1, <3>2, <3>3, <1>2
  <2> QED BY <2>1, <1>2 DEF IInv, EventsExactlyOnce, WellFormed
<1>7. EventsWritten'
  <2>1. ASSUME NEW i \in DOMAIN events'[r]
        PROVE  \E j \in 1..consumed'[r] : log[r][j] = events'[r][i]
    <3>1. CASE i \in 1..Len(events[r])
      <4>1. PICK j \in 1..consumed[r] : log[r][j] = events[r][i]
        BY <3>1, <1>1, <1>4 DEF IInv, EventsWritten
      <4>2. j \in 1..consumed'[r]
        BY <1>2, <1>3, <1>4
      <4> QED BY <4>1, <4>2, <3>1, <1>5
    <3>2. CASE i \in (Len(events[r]) + 1)..(Len(events[r]) + Len(Parsed(r)))
      <4> DEFINE k == i - Len(events[r])
      <4>1. k \in 1..Len(Parsed(r)) /\ consumed[r] + k \in 1..consumed'[r]
        BY <3>2, <1>2, <1>3, <1>4
      <4>2. events'[r][i] = Parsed(r)[k]
        BY <3>2, <1>5
      <4>3. Parsed(r)[k] = log[r][consumed[r] + k]
        <5> HIDE DEF k
        <5> QED BY <4>1, <1>3
      <4> QED BY <4>1, <4>2, <4>3
    <3> QED BY <3>1, <3>2, <1>4, <1>5
  <2>2. ASSUME NEW q \in Roles, q # r, NEW i \in DOMAIN events'[q]
        PROVE  \E j \in 1..consumed'[q] : log[q][j] = events'[q][i]
    BY <2>2, <1>2 DEF IInv, EventsWritten
  <2>3. \A q \in Roles : \A i \in DOMAIN events'[q] :
          \E j \in 1..consumed'[q] : log[q][j] = events'[q][i]
    BY <2>1, <2>2
  <2> QED BY <2>3, <1>2 DEF EventsWritten
<1>8. \A b \in Roles \X Kinds : Matched(b) => Matched(b)'
  <2> TAKE b \in Roles \X Kinds
  <2>1. CASE b[1] = r
    <3>1. DOMAIN events[r] = 1..Len(events[r])
      BY <1>4
    <3>2. \A i \in DOMAIN events[r] : i \in DOMAIN events'[r] /\ events'[r][i] = events[r][i]
      BY <3>1, <1>4, <1>5
    <3> QED BY <2>1, <3>2 DEF Matched
  <2>2. CASE b[1] # r
    BY <2>2, <1>2 DEF Matched
  <2> QED BY <2>1, <2>2
<1>9. /\ next' = next /\ after' = after /\ pending' = pending
      /\ \/ pc = "poll" /\ pc' = "poll"
         \/ pc' \in Stopping /\ cursor' = 1
         \/ pc = "poll" /\ after = "finish" /\ pc' = "finish"
  BY DEF PollLog, PollLogRaises, PollLogSwallowed, Fail, AfterError, Goto, Stopping
<1>10. BarrierProgress'
  <2>1. next \in Roles => Barriers[next] \subseteq Roles \X Kinds
    BY RunnerAssumption
  <2> QED BY <1>8, <1>9, <2>1 DEF IInv, BarrierProgress, Waiting, Cleared, Stopping
<1>11. LaunchOrder'
  BY <1>2, <1>9 DEF IInv, LaunchOrder
<1>12. Stopped'
  BY <1>2, <1>9 DEF IInv, Stopped, AfterStop, Stopping, Terminal, Active
<1> QED BY <1>6, <1>7, <1>10, <1>11, <1>12, <1>1, BasePoll DEF IInv

LEMMA IInvProcess == ASSUME IInv, ProcessStep PROVE IInv'
<1> PICK r \in Roles : BeginLine(r) \/ EndLine(r) \/ Exit(r)
  BY DEF ProcessStep
<1>1. BaseInv'
  BY BaseProcess DEF IInv
<1>2. UNCHANGED <<monitorVars, runnerVars>>
  BY DEF BeginLine, EndLine, Exit
\* A line is only ever added behind the offset.
<1>3. \A q \in Roles :
        /\ \A i \in 1..consumed[q] : log'[q][i] = log[q][i]
        /\ WellFormed(q)' => WellFormed(q)
        /\ consumed[q] \in Nat /\ consumed[q] <= Len(log[q])
        /\ log[q] \in Seq(Lines) /\ log'[q] \in Seq(Lines)
        /\ Len(log[q]) \in Nat /\ Len(log'[q]) >= Len(log[q]) /\ Len(log'[q]) \in Nat
  <2> TAKE q \in Roles
  <2>1. /\ log[q] \in Seq(Lines) /\ log'[q] \in Seq(Lines)
        /\ consumed[q] \in Nat /\ consumed[q] <= Len(log[q])
    <3>1. /\ log[q] \in Seq(Lines) /\ log'[q] \in Seq(Lines)
          /\ consumed[q] \in Nat /\ consumed[q] <= Complete(q)
      BY <1>1 DEF IInv, BaseInv, TypeOK, OffsetBounded
    <3>2. Complete(q) \in 0..Len(log[q])
      BY FreshFacts DEF IInv
    <3> QED BY <3>1, <3>2
  <2>2. CASE BeginLine(r) /\ q = r
    <3> PICK line \in Emits[r] : log' = [log EXCEPT ![r] = Append(@, line)]
      BY <2>2 DEF BeginLine
    <3>1. log'[r] = Append(log[r], line)
      BY DEF IInv, BaseInv, TypeOK
    <3>2. /\ Len(log'[r]) = Len(log[r]) + 1
          /\ \A i \in 1..Len(log[r]) : log'[r][i] = log[r][i]
      BY <3>1, <2>1, <2>2
    <3> QED BY <2>1, <2>2, <3>2 DEF WellFormed
  <2>3. CASE ~(BeginLine(r) /\ q = r)
    <3>1. log'[q] = log[q]
      BY <2>3 DEF BeginLine, EndLine, Exit, IInv, BaseInv, TypeOK
    <3> QED BY <3>1, <2>1 DEF WellFormed
  <2> QED BY <2>2, <2>3
<1>4. EventsExactlyOnce'
  <2>1. ASSUME NEW q \in Roles, WellFormed(q)'
        PROVE  events[q] = SubSeq(log'[q], 1, consumed[q])
    <3>1. events[q] = SubSeq(log[q], 1, consumed[q])
      BY <2>1, <1>3 DEF IInv, EventsExactlyOnce
    <3>2. SubSeq(log[q], 1, consumed[q]) = SubSeq(log'[q], 1, consumed[q])
      BY <1>3
    <3> QED BY <3>1, <3>2
  <2> QED BY <2>1, <1>2 DEF EventsExactlyOnce, monitorVars
<1>5. EventsWritten'
  BY <1>2, <1>3 DEF IInv, EventsWritten, monitorVars
<1>6. \A q \in Roles : /\ proc[q] = "exited" => proc'[q] = "exited"
                       /\ proc[q] = "new" <=> proc'[q] = "new"
  BY DEF BeginLine, EndLine, Exit, IInv, BaseInv, TypeOK
<1>7. LaunchOrder'
  BY <1>2, <1>6 DEF IInv, LaunchOrder, runnerVars
<1>8. BarrierProgress'
  BY <1>2 DEF IInv, BarrierProgress, Waiting, Cleared, Matched, monitorVars, runnerVars
<1>9. Stopped'
  <2>1. Active \subseteq Roles /\ 1..(cursor - 1) \subseteq Roles
    BY RunnerAssumption DEF IInv, BaseInv, TypeOK, Active, Roles
  <2> QED BY <1>2, <1>6, <2>1 DEF IInv, Stopped, AfterStop, Active, runnerVars
<1> QED BY <1>1, <1>4, <1>5, <1>7, <1>8, <1>9 DEF IInv

LEMMA IInvLaunch == ASSUME IInv, Launch PROVE IInv'
<1>1. next \in Roles
  BY DEF Launch, IInv, BarrierProgress, Cleared
<1>2. BaseInv'
  BY <1>1, BaseLaunchStop DEF IInv
<1>3. EventsExactlyOnce' /\ EventsWritten'
  BY LogsKept DEF Launch, IInv
<1>4. LaunchOrder'
  <2>1. ASSUME NEW r \in Roles PROVE proc'[r] = "new" <=> r >= next + 1
    BY <1>1, RunnerAssumption DEF Launch, IInv, BaseInv, TypeOK, LaunchOrder, Roles
  <2> QED BY <2>1 DEF Launch, LaunchOrder
<1>5. BarrierProgress' /\ Stopped'
  BY DEF Launch, BarrierProgress, Waiting, Cleared, Stopped, AfterStop, Stopping, Terminal
<1> QED BY <1>2, <1>3, <1>4, <1>5 DEF IInv

LEMMA IInvStop == ASSUME IInv, StopRole PROVE IInv'
<1>1. BaseInv'
  BY BaseLaunchStop DEF IInv, StopRole, Stopping
<1>2. EventsExactlyOnce' /\ EventsWritten'
  BY LogsKept DEF StopRole, IInv
<1>3. cursor \in 1..(next - 1) /\ cursor \in Nat /\ next \in Nat
  BY DEF StopRole, Active, IInv, BaseInv, TypeOK
<1>4. LaunchOrder'
  <2>1. ASSUME NEW r \in Roles PROVE proc'[r] = "new" <=> r >= next
    BY <1>3, RunnerAssumption DEF StopRole, IInv, BaseInv, TypeOK, LaunchOrder, Roles
  <2> QED BY <2>1 DEF StopRole, LaunchOrder
<1>5. Stopped'
  <2>1. 1..(next - 1) \subseteq Roles
    BY RunnerAssumption DEF IInv, BaseInv, TypeOK, Roles
  <2>2. ASSUME NEW r \in 1..cursor PROVE proc'[r] = "exited"
    <3>1. r \in Roles /\ (r = cursor \/ r \in 1..(cursor - 1))
      BY <1>3, <2>1
    <3> QED BY <3>1 DEF StopRole, IInv, Stopped, BaseInv, TypeOK
  <2>3. cursor' - 1 = cursor
    BY <1>3 DEF StopRole
  <2> QED BY <2>2, <2>3 DEF StopRole, Stopped, AfterStop, Stopping, Terminal
<1>6. BarrierProgress'
  BY DEF StopRole, BarrierProgress, Waiting, Cleared, Stopping
<1> QED BY <1>1, <1>2, <1>4, <1>5, <1>6 DEF IInv

LEMMA IInvTick == ASSUME IInv, Tick \/ UNCHANGED vars PROVE IInv'
<1>1. UNCHANGED <<procVars, monitorVars, runnerVars>>
  BY DEF Tick, vars
<1>2. BaseInv'
  BY BaseTick, BaseStutter DEF IInv
<1>3. EventsExactlyOnce' /\ EventsWritten'
  BY <1>1, LogsKept DEF IInv, procVars
<1>4. LaunchOrder' /\ BarrierProgress' /\ Stopped'
  BY <1>1 DEF IInv, LaunchOrder, BarrierProgress, Waiting, Cleared, Matched, Stopped,
              AfterStop, Active, procVars, monitorVars, runnerVars
<1> QED BY <1>2, <1>3, <1>4 DEF IInv

LEMMA InvInit == Init => IInv
<1> SUFFICES ASSUME Init PROVE IInv
  OBVIOUS
<1>1. BaseInv
  BY BaseInit
<1>2. \A r \in Roles : events[r] = <<>> /\ log[r] = <<>> /\ consumed[r] = 0
  BY DEF Init
<1>3. EventsExactlyOnce
  <2>1. SubSeq(<<>>, 1, 0) = <<>>
    BY SubSeqEmpty
  <2> QED BY <1>2, <2>1 DEF EventsExactlyOnce
<1>4. EventsWritten
  BY <1>2 DEF EventsWritten
<1>5. LaunchOrder
  BY RunnerAssumption DEF Init, LaunchOrder, Roles
<1>6. BarrierProgress /\ Stopped
  BY DEF Init, BarrierProgress, Waiting, Cleared, Stopped, AfterStop, Stopping, Terminal
<1> QED BY <1>1, <1>3, <1>4, <1>5, <1>6 DEF IInv

LEMMA InvStep == IInv /\ [Next]_vars => IInv'
BY Steps, IInvControl, IInvPoll, IInvProcess, IInvLaunch, IInvStop, IInvTick

-----------------------------------------------------------------------------
(* The theorems. *)

\* The inductive invariant holds in every reachable state of run_processes.
THEOREM Invariant == Spec => []IInv
BY InvInit, InvStep, PTL DEF Spec

\* The runner's variables keep their types.
THEOREM TypeCorrect == Spec => []TypeOK
<1>1. IInv => TypeOK
  BY DEF IInv, BaseInv
<1> QED BY <1>1, Invariant, PTL

\* However lines are torn between polls, a log without a malformed line
\* becomes the trace exactly once and in order (StructuredLogMonitor.poll).
THEOREM ExactlyOnce == Spec => []EventsExactlyOnce
<1>1. IInv => EventsExactlyOnce
  BY DEF IInv
<1> QED BY <1>1, Invariant, PTL

\* No process survives run_processes, whether it returns, returns a partial
\* trace or raises (the except and finally clauses).
THEOREM NothingSurvives == Spec => []NoRoleOutlivesRun
<1>1. IInv => NoRoleOutlivesRun
  <2> SUFFICES ASSUME IInv, pc \in Terminal, NEW r \in Roles PROVE proc[r] # "up"
    BY DEF NoRoleOutlivesRun
  <2>1. CASE r >= next
    BY <2>1 DEF IInv, LaunchOrder
  <2>2. CASE r < next
    BY <2>2, RunnerAssumption
       DEF IInv, BaseInv, TypeOK, Stopped, AfterStop, Active, Roles
  <2> QED BY <2>1, <2>2, RunnerAssumption DEF IInv, BaseInv, TypeOK, Roles
<1> QED BY <1>1, Invariant, PTL

\* A role is launched only behind events its barriers' sources have really
\* written (wait_for_barriers, run_processes).
THEOREM LaunchDiscipline == Spec => LaunchAfterBarriers
<1> DEFINE Behind == \A r \in Roles : proc[r] = "new" /\ proc'[r] = "up" =>
                        \A b \in Barriers[r] : Written(b)
<1>1. ASSUME IInv, [Next]_vars
      PROVE  Behind
  <2> SUFFICES ASSUME NEW r \in Roles, proc[r] = "new", proc'[r] = "up",
                      NEW b \in Barriers[r]
               PROVE  Written(b)
    OBVIOUS
  <2>1. CASE Launch
    <3>1. r = next
      BY <1>1, <2>1 DEF Launch, IInv, BaseInv, TypeOK
    <3>2. Matched(b)
      BY <1>1, <2>1, <3>1 DEF Launch, IInv, BarrierProgress, Cleared
    <3>3. b \in Roles \X Kinds
      BY RunnerAssumption
    <3>4. PICK i \in DOMAIN events[b[1]] : events[b[1]][i] = b[2]
      BY <3>2 DEF Matched
    <3>5. PICK j \in 1..consumed[b[1]] : log[b[1]][j] = b[2]
      BY <1>1, <3>3, <3>4 DEF IInv, EventsWritten
    <3>6. j \in 1..Complete(b[1])
      <4>1. /\ Complete(b[1]) \in 0..Len(log[b[1]]) /\ Len(log[b[1]]) \in Nat
            /\ consumed[b[1]] \in Nat /\ consumed[b[1]] <= Complete(b[1])
        BY <1>1, <3>3, FreshFacts DEF IInv, BaseInv, TypeOK, OffsetBounded
      <4> QED BY <4>1
    <3> QED BY <3>5, <3>6 DEF Written
  <2>2. CASE StopRole
    BY <1>1, <2>2 DEF StopRole, IInv, BaseInv, TypeOK
  <2>3. CASE ProcessStep
    BY <1>1, <2>3 DEF ProcessStep, BeginLine, EndLine, Exit, IInv, BaseInv, TypeOK
  <2>4. CASE PollLog \/ PollLogRaises \/ PollLogSwallowed
    BY <2>4 DEF PollLog, PollLogRaises, PollLogSwallowed, ReadLog, procVars
  <2>5. CASE ControlSteps
    BY <1>1, <2>5, ControlType DEF IInv, BaseInv, procVars
  <2>6. CASE Tick \/ UNCHANGED vars
    BY <2>6 DEF Tick, vars, procVars
  <2> QED BY <2>1, <2>2, <2>3, <2>4, <2>5, <2>6, <1>1, Steps
<1>2. IInv /\ [Next]_vars => [Behind]_vars
  BY <1>1
<1> QED BY <1>2, Invariant, PTL DEF Spec, LaunchAfterBarriers

-----------------------------------------------------------------------------
(* The inductive invariant of the trace that is handed over.               *)

\* The poll after a divergence, and what follows the finally clause.
LastPoll == pc = "poll" /\ after = "finish"
Over == pc \in {"finish", "done"}

\* An error is kept from where it was raised to the end.
Errors ==
    /\ partial => error # "none" /\ next > 1
    /\ pc \notin Stopping \cup Terminal \cup {"finish"} /\ ~LastPoll => error = "none"
    /\ pc \in {"terminate", "raised"} => error # "none"
    /\ LastPoll => partial
    /\ Over => error = "none" \/ partial

\* Without an error no line was skipped; a role that was not started has none.
Faithful ==
    /\ error = "none" => \A r \in Roles : events[r] = SubSeq(log[r], 1, consumed[r])
    /\ \A r \in Roles : r >= next => events[r] = <<>>

\* The roles have been launched; they have exited, too.
Ending == (pc = "finally" \/ Over) /\ error = "none"
Draining == pc = "validate" \/ (pc = "poll" /\ after = "validate") \/ Ending
Supervising ==
    pc \in {"supervise", "run_deadline"} \/ (pc = "poll" /\ after = "run_deadline") \/ Draining

Read(r) == consumed[r] = Complete(r)

Drained ==
    /\ Supervising => next = NumRoles + 1
    /\ Draining => \A r \in Roles : proc[r] = "exited"
    /\ pc = "poll" /\ after \in {"validate", "finish"} => \A r \in 1..(cursor - 1) : Read(r)
    /\ pc = "validate" \/ Ending => \A r \in Roles : Read(r)
    /\ Ending => ContractMet
    /\ Over /\ partial /\ (\A r \in Roles : WellFormed(r)) => \A r \in Active : Read(r)

TraceInv == IInv /\ Errors /\ Faithful /\ Drained

-----------------------------------------------------------------------------
(* Errors.                                                                 *)

\* An error is never forgotten.
LEMMA ErrorStays ==
    ASSUME TypeOK, [Next]_vars, error' = "none"
    PROVE  error = "none"
<1> USE DEF Goto, CallPoll, Fail, RunnerErrors
<1>1. CASE ControlSteps
  BY <1>1 DEF ControlSteps, NextRole, RejectRole, PollReturns, MatchBarriers, CheckSources,
     WaitOffset, OffsetDeadline, RejectLaunch, PopenFails, Supervise, RunDeadline, Validate,
     Terminated, AfterFinally, Finish
<1>2. CASE \/ PollLog \/ PollLogRaises \/ PollLogSwallowed \/ Launch \/ StopRole
           \/ ProcessStep \/ Tick \/ UNCHANGED vars
  BY <1>2 DEF PollLog, PollLogRaises, PollLogSwallowed, Launch, StopRole, ProcessStep, BeginLine,
     EndLine, Exit, Tick, vars, runnerVars
<1> QED
  BY <1>1, <1>2, Steps

LEMMA ErrorsStep == ASSUME TypeOK, Errors, [Next]_vars PROVE Errors'
<1> USE DEF Goto, CallPoll, Stopping, Terminal, LastPoll, Over
<1>1. ASSUME NEW reason \in RunnerErrors, Fail(reason) PROVE Errors'
  BY <1>1 DEF Fail, AfterError, Errors, RunnerErrors
<1>2. CASE \/ RejectRole \/ RejectLaunch \/ PollLogRaises
  BY <1>1, <1>2 DEF RejectRole, RejectLaunch, PollLogRaises, RunnerErrors
<1>3. CASE CheckSources \/ OffsetDeadline \/ RunDeadline \/ Validate
  <2>1. ASSUME pc' \in {"poll", "offset", "supervise", "finally"}, pc' = "poll" => after' = "match",
               error = "none", error' = error, ~partial, ~partial'
        PROVE  Errors'
    BY <2>1 DEF Errors
  <2>2. error = "none" /\ ~partial
    BY <1>3 DEF CheckSources, OffsetDeadline, RunDeadline, Validate, Errors
  <2>3. CASE \E reason \in RunnerErrors : Fail(reason)
    BY <2>3, <1>1
  <2>4. CASE ~\E reason \in RunnerErrors : Fail(reason)
    <3>1. /\ \A reason \in RunnerErrors : ~Fail(reason)
          /\ {"source exited", "barrier timeout", "deadline", "contract"} \subseteq RunnerErrors
      BY <2>4 DEF RunnerErrors
    <3>2. CASE CheckSources
      BY <2>1, <2>2, <3>1, <3>2 DEF CheckSources
    <3>3. CASE OffsetDeadline
      BY <2>1, <2>2, <3>1, <3>3 DEF OffsetDeadline
    <3>4. CASE RunDeadline
      BY <2>1, <2>2, <3>1, <3>4 DEF RunDeadline
    <3>5. CASE Validate
      BY <2>1, <2>2, <3>1, <3>5 DEF Validate
    <3> QED
      BY <1>3, <3>2, <3>3, <3>4, <3>5
  <2> QED
    BY <2>3, <2>4
<1>4. CASE NextRole \/ MatchBarriers \/ WaitOffset \/ Supervise
  BY <1>4 DEF NextRole, MatchBarriers, WaitOffset, Supervise, AfterSweep, Errors
<1>5. CASE PollReturns \/ PollLog \/ PollLogSwallowed
  BY <1>5 DEF PollReturns, PollLog, PollLogSwallowed, Errors, TypeOK
<1>6. CASE PopenFails \/ Terminated \/ AfterFinally \/ Finish
  BY <1>6 DEF PopenFails, Terminated, AfterFinally, Finish, Errors
<1>7. CASE Launch \/ StopRole
  BY <1>7 DEF Launch, StopRole, Errors, TypeOK
<1>8. CASE ProcessStep \/ Tick \/ UNCHANGED vars
  BY <1>8 DEF ProcessStep, BeginLine, EndLine, Exit, Tick, vars, runnerVars, Errors
<1> QED
  BY <1>2, <1>3, <1>4, <1>5, <1>6, <1>7, <1>8, Steps DEF ControlSteps

-----------------------------------------------------------------------------
(* Logs.                                                                   *)

\* Below the offset a log does not change.
LEMMA PrefixKept ==
    ASSUME IInv, ProcessStep, NEW q \in Roles
    PROVE  SubSeq(log'[q], 1, consumed[q]) = SubSeq(log[q], 1, consumed[q])
<1> PICK r \in Roles : BeginLine(r) \/ EndLine(r) \/ Exit(r)
  BY DEF ProcessStep
<1>1. /\ log[q] \in Seq(Lines) /\ log'[q] \in Seq(Lines)
      /\ consumed[q] \in Nat /\ consumed[q] <= Complete(q)
      /\ Complete(q) \in 0..Len(log[q])
  BY BaseProcess, FreshFacts DEF IInv, BaseInv, TypeOK, OffsetBounded
<1>2. CASE BeginLine(r) /\ q = r
  <2> PICK line \in Emits[r] : log' = [log EXCEPT ![r] = Append(@, line)]
    BY <1>2 DEF BeginLine
  <2>1. log'[r] = Append(log[r], line)
    BY DEF IInv, BaseInv, TypeOK
  <2>2. /\ Len(log'[q]) = Len(log[q]) + 1
        /\ \A i \in 1..Len(log[q]) : log'[q][i] = log[q][i]
    BY <2>1, <1>1, <1>2
  <2> QED
    BY <2>2, <1>1
<1>3. CASE ~(BeginLine(r) /\ q = r)
  BY <1>3 DEF BeginLine, EndLine, Exit, IInv, BaseInv, TypeOK
<1> QED
  BY <1>2, <1>3

LEMMA FaithfulStep == ASSUME IInv, Errors, Faithful, [Next]_vars PROVE Faithful'
<1>0. TypeOK /\ (error' = "none" => error = "none")
  BY ErrorStays DEF IInv, BaseInv
<1>1. CASE ControlSteps \/ Tick \/ UNCHANGED vars
  <2>1. UNCHANGED <<procVars, monitorVars>> /\ next' = next
    BY <1>0, <1>1, ControlType DEF Tick, vars, runnerVars
  <2> QED
    BY <2>1, <1>0 DEF Faithful, procVars, monitorVars
<1>2. CASE PollLog \/ PollLogRaises \/ PollLogSwallowed
  <2> DEFINE r == cursor
  <2>1. /\ r \in Roles /\ r < next /\ ReadLog(r) /\ next' = next /\ BaseInv /\ next \in Nat
        /\ error' = "none" => ~PollRaises(r)
    <3>1. r \in Roles /\ r < next /\ next \in Nat /\ BaseInv
      BY <1>0, <1>2, RunnerAssumption DEF PollLog, PollLogRaises, PollLogSwallowed, IInv,
         TypeOK, Active, Roles
    <3>2. ReadLog(r) /\ next' = next
      BY <1>2 DEF PollLog, PollLogRaises, PollLogSwallowed, Fail, Goto
    <3>3. error' = "none" => ~PollRaises(r)
      BY <1>0, <1>2 DEF PollLog, PollLogRaises, PollLogSwallowed, Fail, Errors, LastPoll
    <3> QED
      BY <3>1, <3>2, <3>3
  <2> HIDE DEF r
  <2>2. /\ log' = log
        /\ consumed'[r] = Complete(r)
        /\ events'[r] = events[r] \o Parsed(r)
        /\ \A q \in Roles : q # r => consumed'[q] = consumed[q] /\ events'[q] = events[q]
    BY <2>1, ReadLogStep
  <2>3. ASSUME error' = "none" PROVE events'[r] = SubSeq(log[r], 1, consumed'[r])
    <3>1. events[r] = SubSeq(log[r], 1, consumed[r])
      BY <2>1, <2>3, <1>0 DEF Faithful
    <3>2. Parsed(r) = SubSeq(log[r], consumed[r] + 1, Complete(r))
      BY <2>1, <2>3, ParsedFacts DEF Fresh
    <3>3. /\ log[r] \in Seq(Lines) /\ consumed[r] \in Nat /\ Complete(r) \in Nat
          /\ consumed[r] <= Complete(r) /\ Complete(r) <= Len(log[r])
      BY <2>1, FreshFacts DEF BaseInv, TypeOK, OffsetBounded
    <3> QED
      BY <3>1, <3>2, <3>3, <2>2, ExtendPrefix
  <2>4. error' = "none" => \A q \in Roles : events'[q] = SubSeq(log'[q], 1, consumed'[q])
    BY <2>2, <2>3, <1>0 DEF Faithful
  <2>5. \A q \in Roles : q >= next' => events'[q] = <<>>
    BY <2>1, <2>2 DEF Faithful, Roles
  <2> QED
    BY <2>4, <2>5 DEF Faithful
<1>3. CASE Launch \/ StopRole
  <2>1. UNCHANGED <<log, monitorVars>> /\ next \in Nat /\ (next' = next \/ next' = next + 1)
    BY <1>0, <1>3 DEF Launch, StopRole, TypeOK
  <2>2. \A q \in Roles : q >= next' => q >= next
    BY <2>1 DEF Roles
  <2> QED
    BY <1>0, <2>1, <2>2 DEF Faithful, monitorVars
<1>4. CASE ProcessStep
  <2>1. UNCHANGED <<monitorVars, runnerVars>>
    BY <1>4 DEF ProcessStep, BeginLine, EndLine, Exit
  <2> QED
    BY <2>1, <1>4, PrefixKept DEF Faithful, monitorVars, runnerVars
<1> QED
  BY <1>1, <1>2, <1>3, <1>4, Steps

-----------------------------------------------------------------------------
(* The drain.                                                              *)

\* When the logs are read for the last time, no role can write.
LEMMA Quiet ==
    ASSUME IInv, Drained, Draining \/ LastPoll \/ Over
    PROVE  \A r \in Roles : proc[r] # "up"
<1>1. CASE Draining
  BY <1>1 DEF Drained
<1>2. CASE LastPoll \/ Over
  <2>1. \A r \in Active : proc[r] = "exited"
    BY <1>2 DEF IInv, Stopped, AfterStop, LastPoll, Over, Terminal
  <2>2. \A r \in Roles : r \in Active \/ r >= next
    BY RunnerAssumption DEF IInv, BaseInv, TypeOK, Active, Roles
  <2> QED
    BY <2>1, <2>2 DEF IInv, LaunchOrder
<1> QED
  BY <1>1, <1>2

\* What is read stays read while neither logs nor the monitor change.
LEMMA ReadKept ==
    ASSUME UNCHANGED <<log, torn, consumed, events>>
    PROVE  /\ \A r \in Roles : Read(r)' = Read(r) /\ WellFormed(r)' = WellFormed(r)
           /\ ContractMet' = ContractMet
BY DEF Read, Complete, WellFormed, ContractMet

LEMMA DrainedPoll ==
    ASSUME IInv, Errors, Drained, PollLog \/ PollLogRaises \/ PollLogSwallowed
    PROVE  Drained'
<1> USE DEF Supervising, Draining, Ending, Over, Goto, Stopping
<1>0. /\ cursor \in Active /\ ReadLog(cursor) /\ next' = next /\ after' = after
      /\ Active \subseteq Roles /\ cursor \in Nat
  BY RunnerAssumption DEF PollLog, PollLogRaises, PollLogSwallowed, IInv, BaseInv, TypeOK,
     Active, Roles, Fail
<1> PICK r \in Roles : r = cursor
  BY <1>0
<1>1. r \in Active /\ ReadLog(r) /\ r \in Nat
  BY <1>0
<1>2. /\ UNCHANGED procVars
      /\ consumed'[r] = Complete(r)
      /\ \A q \in Roles : q # r => consumed'[q] = consumed[q]
  BY <1>1, ReadLogStep DEF IInv, procVars
<1>3. \A q \in Roles : Complete(q)' = Complete(q) /\ WellFormed(q)' = WellFormed(q)
  BY <1>2 DEF Complete, WellFormed, procVars
<1>4. Read(r)' /\ \A q \in Roles : Read(q) => Read(q)'
  BY <1>1, <1>2, <1>3 DEF Read
<1>5. CASE PollLog
  <2>1. pc = "poll" /\ pc' = "poll" /\ cursor' = cursor + 1 /\ error' = error /\ partial' = partial
    BY <1>5 DEF PollLog
  <2>2. ASSUME NEW q \in 1..(cursor' - 1), after \in {"validate", "finish"} PROVE Read(q)'
    <3>1. q = r \/ q \in 1..(cursor - 1)
      BY <1>1, <2>1
    <3>2. q \in Roles
      BY <1>1, <2>1, RunnerAssumption DEF Roles
    <3>3. q \in 1..(cursor - 1) => Read(q)
      BY <2>1, <2>2 DEF Drained
    <3>4. CASE q = r
      BY <1>4, <3>4
    <3> QED
      BY <1>4, <3>1, <3>2, <3>3, <3>4
  <2> QED
    BY <1>0, <1>2, <2>1, <2>2 DEF Drained, procVars
<1>6. CASE PollLogRaises
  <2>1. error' = "line" /\ pc' \in Stopping
    BY <1>6 DEF PollLogRaises, Fail, AfterError
  <2> QED
    BY <2>1 DEF Drained
<1>7. CASE PollLogSwallowed
  <2>1. pc' = "finish" /\ error' = error /\ error # "none"
    BY <1>7 DEF PollLogSwallowed, Errors, LastPoll
  <2>2. ~WellFormed(r)
    BY <1>7, ParsedFacts DEF PollLogSwallowed, IInv
  <2> QED
    BY <1>3, <2>1, <2>2 DEF Drained
<1> QED
  BY <1>5, <1>6, <1>7

LEMMA DrainedControl ==
    ASSUME IInv, Errors, Drained, ControlSteps
    PROVE  Drained'
<1> USE DEF Supervising, Draining, Ending, Over, Goto, CallPoll, Stopping
<1>1. /\ UNCHANGED <<procVars, monitorVars>> /\ next' = next /\ Active' = Active
      /\ TypeOK /\ Active \subseteq Roles
  <2>1. TypeOK
    BY DEF IInv, BaseInv
  <2>2. UNCHANGED <<procVars, monitorVars>> /\ next' = next
    BY <2>1, ControlType
  <2> QED
    BY <2>1, <2>2, RunnerAssumption DEF TypeOK, Active, Roles
<1>2. /\ \A r \in Roles : Read(r)' = Read(r) /\ WellFormed(r)' = WellFormed(r)
      /\ ContractMet' = ContractMet
  BY <1>1, ReadKept DEF procVars, monitorVars
<1>3. ASSUME NEW reason \in RunnerErrors, Fail(reason) PROVE Drained'
  BY <1>3 DEF Fail, AfterError, Drained, RunnerErrors
<1>4. CASE RejectRole \/ RejectLaunch
  BY <1>3, <1>4 DEF RejectRole, RejectLaunch, RunnerErrors
<1>5. CASE MatchBarriers \/ CheckSources \/ OffsetDeadline \/ WaitOffset
  <2>1. CASE \E reason \in RunnerErrors : Fail(reason)
    BY <2>1, <1>3
  <2>2. CASE ~\E reason \in RunnerErrors : Fail(reason)
    <3>1. /\ \A reason \in RunnerErrors : ~Fail(reason)
          /\ {"source exited", "barrier timeout", "deadline"} \subseteq RunnerErrors
      BY <2>2 DEF RunnerErrors
    <3>2. /\ pc' \in {"poll", "offset", "sources", "launch"}
          /\ pc' = "poll" => after' \in {"match", "offset_deadline"}
      BY <1>5, <3>1 DEF MatchBarriers, CheckSources, OffsetDeadline, WaitOffset
    <3> QED
      BY <3>2 DEF Drained
  <2> QED
    BY <2>1, <2>2
<1>6. CASE NextRole
  <2>1. next \notin Roles => next = NumRoles + 1
    BY <1>1, RunnerAssumption DEF TypeOK, Roles
  <2>2. /\ pc' \in {"supervise", "offset", "poll"} /\ (pc' = "poll" => after' = "match")
        /\ pc' = "supervise" => next \notin Roles
    BY <1>6 DEF NextRole
  <2> QED
    BY <1>1, <2>1, <2>2 DEF Drained
<1>7. CASE PollReturns
  <2>1. pc = "poll" /\ cursor \notin Active /\ pc' = after /\ error' = error /\ partial' = partial
    BY <1>7 DEF PollReturns
  <2>2. 1..(cursor - 1) = Active
    BY <1>1, <2>1 DEF TypeOK, Active
  <2>3. CASE after = "validate"
    <3>1. next = NumRoles + 1 /\ \A r \in Roles : proc[r] = "exited"
      BY <2>1, <2>3 DEF Drained
    <3>2. Active = Roles
      BY <3>1, RunnerAssumption DEF Active, Roles
    <3>3. \A r \in Roles : Read(r)
      BY <2>1, <2>2, <2>3, <3>2 DEF Drained
    <3> QED
      BY <1>1, <1>2, <2>1, <2>3, <3>1, <3>3 DEF Drained, procVars
  <2>4. CASE after = "finish"
    <3>1. error # "none"
      BY <2>1, <2>4 DEF Errors, LastPoll
    <3>2. \A r \in Active : Read(r)
      BY <2>1, <2>2, <2>4 DEF Drained
    <3> QED
      BY <1>1, <1>2, <2>1, <2>4, <3>1, <3>2 DEF Drained
  <2>5. CASE after \notin {"validate", "finish"}
    BY <1>1, <2>1, <2>5 DEF Drained, TypeOK
  <2> QED
    BY <2>3, <2>4, <2>5
<1>8. CASE PopenFails
  BY <1>8 DEF PopenFails, Drained
<1>9. CASE Supervise
  <2>1. next = NumRoles + 1 /\ pc' = "poll" /\ after' = AfterSweep /\ cursor' = 1
    BY <1>9 DEF Supervise, Drained
  <2>2. Active = Roles
    BY <2>1, RunnerAssumption DEF Active, Roles
  <2>3. after' = "validate" => \A r \in Roles : proc[r] = "exited"
    BY <2>1, <2>2 DEF AfterSweep, AllExited
  <2> QED
    BY <1>1, <2>1, <2>3 DEF Drained, AfterSweep, procVars
<1>10. CASE RunDeadline
  BY <1>1, <1>3, <1>10 DEF RunDeadline, Drained, RunnerErrors
<1>11. CASE Validate
  <2>1. CASE Fail("contract")
    BY <2>1, <1>3 DEF RunnerErrors
  <2>2. CASE ContractMet /\ pc' = "finally" /\ error' = error
    BY <1>1, <1>2, <1>11, <2>2 DEF Validate, Drained, procVars
  <2> QED
    BY <1>11, <2>1, <2>2 DEF Validate
<1>12. CASE Terminated
  BY <1>12 DEF Terminated, Drained, Errors
<1>13. CASE AfterFinally
  BY <1>1, <1>2, <1>13 DEF AfterFinally, Drained, procVars, Errors
<1>14. CASE Finish
  BY <1>1, <1>2, <1>14 DEF Finish, Drained, procVars
<1> QED
  BY <1>4, <1>5, <1>6, <1>7, <1>8, <1>9, <1>10, <1>11, <1>12, <1>13, <1>14 DEF ControlSteps

LEMMA DrainedStep == ASSUME IInv, Errors, Drained, [Next]_vars PROVE Drained'
<1> USE DEF Supervising, Draining, Ending, Over
<1>1. CASE Launch
  BY <1>1 DEF Launch, Drained
<1>2. CASE StopRole
  <2>1. /\ UNCHANGED <<log, monitorVars>> /\ torn' = torn /\ UNCHANGED <<next, pc, after, error, partial>>
        /\ pc \in Stopping /\ cursor \in Roles
    BY <1>2, RunnerAssumption DEF StopRole, IInv, BaseInv, TypeOK, Active, Roles
  <2>2. \A r \in Roles : proc[r] = "exited" => proc'[r] = "exited"
    BY <1>2 DEF StopRole, IInv, BaseInv, TypeOK
  <2>3. /\ \A r \in Roles : Read(r)' = Read(r) /\ WellFormed(r)' = WellFormed(r)
        /\ ContractMet' = ContractMet
    BY <2>1, ReadKept DEF monitorVars
  <2> QED
    BY <2>1, <2>2, <2>3 DEF Drained, Stopping
<1>3. CASE ProcessStep
  <2>1. UNCHANGED <<monitorVars, runnerVars>>
    BY <1>3 DEF ProcessStep, BeginLine, EndLine, Exit
  <2>2. ~(Draining \/ LastPoll \/ Over)
    BY <1>3, Quiet DEF ProcessStep, BeginLine, EndLine, Exit
  <2> QED
    BY <2>1, <2>2 DEF Drained, runnerVars, LastPoll
<1>4. CASE Tick \/ UNCHANGED vars
  <2>1. UNCHANGED <<procVars, monitorVars, runnerVars>>
    BY <1>4 DEF Tick, vars
  <2>2. /\ \A r \in Roles : Read(r)' = Read(r) /\ WellFormed(r)' = WellFormed(r)
        /\ ContractMet' = ContractMet
    BY <2>1, ReadKept DEF procVars, monitorVars
  <2>3. Active \subseteq Roles /\ 1..(cursor - 1) \subseteq Roles /\ Active' = Active
    BY <2>1, RunnerAssumption DEF IInv, BaseInv, TypeOK, Active, Roles, runnerVars
  <2> QED
    BY <2>1, <2>2, <2>3 DEF Drained, procVars, runnerVars
<1> QED
  BY <1>1, <1>2, <1>3, <1>4, DrainedPoll, DrainedControl, Steps

-----------------------------------------------------------------------------
(* The theorems.                                                           *)

LEMMA InitTrace == ASSUME Init PROVE TraceInv
<1>1. IInv
  BY InvInit
<1>2. Errors /\ Drained
  BY DEF Init, Errors, Drained, Supervising, Draining, Ending, Over, LastPoll, Stopping, Terminal
<1>3. Faithful
  <2>1. SubSeq(<<>>, 1, 0) = <<>>
    BY SubSeqEmpty
  <2> QED
    BY <2>1 DEF Init, Faithful
<1> QED
  BY <1>1, <1>2, <1>3 DEF TraceInv

LEMMA TraceStep == ASSUME TraceInv, [Next]_vars PROVE TraceInv'
BY InvStep, ErrorsStep, FaithfulStep, DrainedStep DEF TraceInv, IInv, BaseInv

\* The inductive invariant holds in every reachable state of run_processes.
THEOREM TraceInvariant == Spec => []TraceInv
BY InitTrace, TraceStep, PTL DEF Spec

\* A trace that is returned as complete is the whole of every log, of roles
\* that have all exited, and shows every fault applied: the drain behind the
\* last exit (run_processes) loses nothing.
THEOREM CleanRun == Spec => []CleanRunIsWhole
<1>1. TraceInv => CleanRunIsWhole
  <2> SUFFICES ASSUME TraceInv, pc = "done", ~partial 
               PROVE  /\ next = NumRoles + 1
                      /\ \A r \in Roles : proc[r] = "exited" /\ events[r] = CompleteLines(r)
                      /\ ContractMet
    BY DEF CleanRunIsWhole
  <2>1. Ending
    BY DEF TraceInv, Errors, Ending, Over
  <2> QED
    BY <2>1 DEF TraceInv, Faithful, Drained, Supervising, Draining, Ending, Read, CompleteLines
<1> QED
  BY <1>1, TraceInvariant, PTL

\* A partial trace is all that well-formed logs hold when the roles are stopped
\* (the poll behind the finally clause).
THEOREM PartialTrace == Spec => []PartialTraceIsWhole
<1>1. TraceInv => PartialTraceIsWhole
  <2> SUFFICES ASSUME TraceInv, pc = "done", partial, \A r \in Roles : WellFormed(r), NEW r \in Active
               PROVE  events[r] = CompleteLines(r)
    BY DEF PartialTraceIsWhole
  <2>1. r \in Roles /\ Read(r)
    BY RunnerAssumption DEF TraceInv, Drained, Over, IInv, BaseInv, TypeOK, Active, Roles
  <2> QED
    BY <2>1 DEF TraceInv, IInv, EventsExactlyOnce, Read, CompleteLines
<1> QED
  BY <1>1, TraceInvariant, PTL

-----------------------------------------------------------------------------
(* The refinement of RunContract.                                          *)

\* A step that is an error is a divergence, whatever it reads.
LEMMA FailDiverges ==
    ASSUME Errors, error = "none", error' # "none", pc \notin Terminal, pc' \notin Terminal,
           next' = next, Abstract!Grow
    PROVE  Abstract!Diverge
BY DEF Abstract!Diverge, Status, Terminal

\* A trace that does not change grows.
LEMMA NoGrowth ==
    ASSUME IInv, Faithful, events' = events
    PROVE  Abstract!Grow
<1>1. next \in Nat /\ DOMAIN events = Roles /\ \A r \in Roles : events[r] \in Seq(Kinds)
  BY DEF IInv, BaseInv, TypeOK
<1>2. \A r \in Roles : r > next - 1 => events[r] = <<>>
  BY <1>1, RunnerAssumption DEF Faithful, Roles
<1> QED
  BY <1>1, <1>2 DEF Abstract!Grow, Abstract!Extends, Abstract!Roles, Roles

LEMMA PollGrows ==
    ASSUME IInv, Faithful, PollLog \/ PollLogRaises \/ PollLogSwallowed
    PROVE  Abstract!Grow
<1>1. cursor \in Active /\ ReadLog(cursor) /\ BaseInv /\ Active \subseteq Roles /\ next \in Nat
  BY RunnerAssumption DEF PollLog, PollLogRaises, PollLogSwallowed, IInv, BaseInv, TypeOK,
     Active, Roles
<1>2. /\ events' \in [Roles -> Seq(Kinds)]
      /\ events'[cursor] = events[cursor] \o Parsed(cursor)
      /\ \A q \in Roles : q # cursor => events'[q] = events[q]
  BY <1>1, ReadLogStep
<1>3. \A q \in Roles : events[q] \in Seq(Kinds)
  BY <1>1 DEF BaseInv, TypeOK
<1>4. Parsed(cursor) \in Seq(Kinds)
  BY <1>1, ParsedFacts
<1>5. ASSUME NEW q \in Roles PROVE Abstract!Extends(events[q], events'[q])
  <2>1. CASE q = cursor
    BY <2>1, <1>2, <1>3, <1>4 DEF Abstract!Extends
  <2>2. CASE q # cursor
    BY <2>2, <1>2, <1>3 DEF Abstract!Extends
  <2> QED
    BY <2>1, <2>2
<1>6. ASSUME NEW q \in Roles, q > next - 1 PROVE events'[q] = <<>>
  <2>1. q >= next /\ q # cursor
    BY <1>1, <1>6, RunnerAssumption DEF Active, Roles
  <2> QED
    BY <2>1, <1>2 DEF Faithful
<1> QED
  BY <1>2, <1>5, <1>6 DEF Abstract!Grow, Abstract!Roles, Roles

LEMMA AbstractInit == ASSUME Init PROVE Abstract!Init
BY RunnerAssumption DEF Init, Abstract!Init, Abstract!Roles, Roles, Status, Terminal

LEMMA AbstractStep == ASSUME TraceInv, TraceInv', [Next]_vars PROVE [Abstract!Next]_(Abstract!vars)
<1> USE DEF Terminal, Stopping, LastPoll, Over, Goto, CallPoll
<1>0. /\ IInv /\ Errors /\ Faithful /\ Drained /\ TypeOK /\ Errors'
  BY DEF TraceInv, IInv, BaseInv
<1>1. ASSUME UNCHANGED <<events, next, Status>> PROVE UNCHANGED Abstract!vars
  BY <1>1 DEF Abstract!vars
<1>2. ASSUME NEW reason \in RunnerErrors, Fail(reason), Abstract!Grow, pc \notin Terminal, error = "none"
      PROVE  Abstract!Diverge
  BY <1>0, <1>2, FailDiverges DEF Fail, AfterError, RunnerErrors
<1>3. CASE RejectRole \/ RejectLaunch \/ PollLogRaises
  <2>1. Abstract!Grow
    BY <1>0, <1>3, NoGrowth, PollGrows DEF RejectRole, RejectLaunch, monitorVars
  <2>2. error = "none" /\ \E reason \in RunnerErrors : Fail(reason)
    BY <1>0, <1>3 DEF RejectRole, RejectLaunch, PollLogRaises, RunnerErrors, Errors
  <2> QED
    BY <1>2, <1>3, <2>1, <2>2 DEF RejectRole, RejectLaunch, PollLogRaises, Abstract!Next
<1>4. CASE CheckSources \/ OffsetDeadline \/ RunDeadline \/ Validate
  <2>1. /\ Abstract!Grow /\ error = "none" /\ pc \notin Terminal
    BY <1>0, <1>4, NoGrowth DEF CheckSources, OffsetDeadline, RunDeadline, Validate, Errors, monitorVars
  <2>2. CASE \E reason \in RunnerErrors : Fail(reason)
    BY <1>2, <2>1, <2>2 DEF Abstract!Next
  <2>3. CASE ~\E reason \in RunnerErrors : Fail(reason)
    <3>1. /\ \A reason \in RunnerErrors : ~Fail(reason)
          /\ {"source exited", "barrier timeout", "deadline", "contract"} \subseteq RunnerErrors
      BY <2>3 DEF RunnerErrors
    <3>2. pc' \notin Terminal /\ error' = error /\ next' = next /\ events' = events
      BY <1>4, <3>1 DEF CheckSources, OffsetDeadline, RunDeadline, Validate, monitorVars
    <3> QED
      BY <1>1, <2>1, <3>2 DEF Status
  <2> QED
    BY <2>2, <2>3
<1>5. CASE NextRole \/ PollReturns \/ MatchBarriers \/ WaitOffset \/ Supervise \/ Terminated
  <2>1. UNCHANGED <<events, next, error>> /\ pc \notin Terminal /\ pc' \notin Terminal
    BY <1>0, <1>5 DEF NextRole, PollReturns, MatchBarriers, WaitOffset, Supervise, AfterSweep,
       Terminated, monitorVars, TypeOK
  <2> QED
    BY <1>1, <2>1 DEF Status
<1>6. CASE PollLog \/ PollLogSwallowed
  <2>1. /\ Abstract!Grow /\ UNCHANGED <<next, error>>
        /\ pc \notin Terminal /\ pc' \notin Terminal
    BY <1>0, <1>6, PollGrows DEF PollLog, PollLogSwallowed
  <2> QED
    BY <2>1 DEF Abstract!Next, Abstract!Observe, Status
<1>7. CASE PopenFails
  <2>1. Abstract!Grow /\ error = "none" /\ error' = "os" /\ pc \notin Terminal /\ pc' \notin Terminal
        /\ next' = next
    BY <1>0, <1>7, NoGrowth DEF PopenFails, monitorVars, Errors
  <2> QED
    BY <1>0, <2>1, FailDiverges DEF Abstract!Next
<1>8. CASE AfterFinally
  <2>1. UNCHANGED <<events, next, error>> /\ pc \notin Terminal
    BY <1>8 DEF AfterFinally, monitorVars
  <2>2. CASE pc' = "raised"
    BY <1>8, <2>1, <2>2 DEF AfterFinally, Status, Abstract!Next, Abstract!Abandon
  <2>3. CASE pc' # "raised"
    BY <1>1, <1>8, <2>1, <2>3 DEF AfterFinally, Status
  <2> QED
    BY <2>2, <2>3
<1>9. CASE Finish
  <2>1. UNCHANGED <<events, next, error, partial>> /\ pc = "finish" /\ pc' = "done" /\ next \in Nat
    BY <1>0, <1>9 DEF Finish, monitorVars, TypeOK
  <2>2. CASE partial
    <3>1. error # "none" /\ next - 1 > 0
      BY <1>0, <2>1, <2>2 DEF Errors
    <3> QED
      BY <2>1, <2>2, <3>1 DEF Status, Abstract!Next, Abstract!Abandon
  <2>3. CASE ~partial
    <3>1. error = "none" /\ next = NumRoles + 1 /\ ContractMet
      BY <1>0, <2>1, <2>3 DEF Errors, Drained, Supervising, Draining, Ending
    <3>2. next - 1 = NumRoles
      BY <3>1, RunnerAssumption
    <3> QED
      BY <2>1, <2>3, <3>1, <3>2
         DEF Status, ContractMet, Abstract!Next, Abstract!Complete, Abstract!Saw, Abstract!Roles, Roles
  <2> QED
    BY <2>2, <2>3
<1>10. CASE Launch
  <2>1. /\ UNCHANGED <<events, error>> /\ error = "none" /\ pc' \notin Terminal /\ pc \notin Terminal
        /\ next' = next + 1 /\ next \in Roles
        /\ \A b \in Barriers[next] : Matched(b)
    BY <1>0, <1>10 DEF Launch, monitorVars, Errors, IInv, BarrierProgress, Cleared
  <2>2. next' - 1 = (next - 1) + 1 /\ next - 1 < NumRoles /\ (next - 1) + 1 = next
    BY <2>1, RunnerAssumption DEF Roles
  <2> QED
    BY <2>1, <2>2 DEF Status, Matched, Abstract!Next, Abstract!Start, Abstract!Saw
<1>11. CASE StopRole \/ ProcessStep \/ Tick \/ UNCHANGED vars
  <2>1. UNCHANGED <<events, next, pc, error, partial>>
    BY <1>11 DEF StopRole, ProcessStep, BeginLine, EndLine, Exit, Tick, vars, monitorVars, runnerVars
  <2> QED
    BY <1>1, <2>1 DEF Status
<1> QED
  BY <1>3, <1>4, <1>5, <1>6, <1>7, <1>8, <1>9, <1>10, <1>11, Steps DEF ControlSteps

\* run_processes keeps the contract of RunContract: roles start one after the
\* other behind events that were seen, the trace only grows, and a run is
\* called complete when every role was launched and every fault was seen.
THEOREM Refinement == Spec => ImplementsContract
<1>1. TraceInv /\ TraceInv' /\ [Next]_vars => [Abstract!Next]_(Abstract!vars)
  BY AbstractStep
<1> QED
  BY AbstractInit, <1>1, TraceInvariant, PTL DEF Spec, ImplementsContract, Abstract!Spec
=============================================================================
