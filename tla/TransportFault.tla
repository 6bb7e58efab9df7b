--------------------------- MODULE TransportFault ----------------------------
(***************************************************************************)
(* The LD_PRELOAD shim of probes/transport_fault: a controller between the *)
(* sendto calls of a role's process and the kernel, that applies the       *)
(* transport.* actions of the role's plan.                                 *)
(*                                                                         *)
(* The threads of the process send concurrently.  The actions are applied  *)
(* by the constructor (the leading ones), then by a thread of the shim, or *)
(* in explicit mode by a thread of the program itself.  One mutex covers   *)
(* what an armed fault hits; events and sends happen outside it.           *)
(* Delays and due times are nondeterministic waits; the at_ms of an action *)
(* only says whether it is due at once.                                    *)
(***************************************************************************)
EXTENDS Integers, Sequences, Functions

CONSTANTS
    Senders,   \* threads of the process that call sendto
    Configs,   \* environments a process may be started in: [plan, caller]
    Nobody,    \* no thread of the program
    MayFail,   \* whether the real sendto may fail
    Width,     \* the counters are unsigned integers modulo Width
    MaxSends   \* bound: sendto calls of one thread

VARIABLES
    config,          \* of this process
    next,            \* the action to apply
    remaining,       \* per fault, what is left (for delay: 1 if delay_ms_ > 0)
    actionOf,        \* per fault, drop_action_, delay_action_, ...
    last,            \* last_
    captured,        \* captured_
    capturedAction,  \* captured_action_
    sender,          \* per thread, its call of send
    replay,          \* the call of replay
    trace            \* datagrams on the wire and events, in order

lockedVars == <<remaining, actionOf, last, captured, capturedAction>>
vars == <<config, next, lockedVars, sender, replay, trace>>

Plan == config.plan       \* the transport actions: [op, count, early (at_ms <= 0)]
Caller == config.caller   \* the thread that applies them, or Nobody: the shim's own
Ids == 1..Len(Plan)       \* an action's id
None == 0               \* the empty action id
Counted == {"drop", "duplicate", "capture"}
Faults == Counted \cup {"delay"}
Datagrams == [from : Senders, n : 1..MaxSends]
Nothing == [from |-> Nobody, n |-> 0]   \* a Datagram whose fd is -1

ASSUME TransportAssumption ==
    /\ Width \in Nat \ {0, 1}
    /\ Nobody \notin Senders
    /\ \A c \in Configs :
        /\ c.plan \in Seq([op : Faults \cup {"replay"}, count : 1..(Width - 1),
                           early : BOOLEAN]) \ {<<>>}
        /\ c.caller \in Senders \cup {Nobody}
    /\ MayFail \in BOOLEAN
    /\ MaxSends \in Nat

Idle(n) == [pc |-> "idle", n |-> n, capture |-> None, drop |-> None,
            delay |-> None, duplicate |-> None, left |-> 0]
NoReplay == [pc |-> "no", data |-> Nothing, source |-> None, left |-> 0, ok |-> TRUE]

Entry(kind, id, data, source) ==
    [kind |-> kind, id |-> id, data |-> data, source |-> source]
Applied == {"captured", "dropped", "delayed", "duplicated", "replayed"}
Entries == [kind : Applied \cup {"armed", "replay failed", "wire"},
            id : Ids \cup {None},
            data : Datagrams \cup {Nothing},
            source : Ids \cup {None}]

TypeOK ==
    /\ config \in Configs
    /\ next \in 1..(Len(Plan) + 1)
    /\ remaining \in [Faults -> 0..(Width - 1)]
    /\ actionOf \in [Faults -> Ids \cup {None}]
    /\ last \in Datagrams \cup {Nothing}
    /\ captured \in Datagrams \cup {Nothing}
    /\ capturedAction \in Ids \cup {None}
    /\ sender \in [Senders -> [pc : {"idle", "capture", "drop", "delay", "send", "copy"},
                               n : 0..MaxSends,
                               capture : Ids \cup {None}, drop : Ids \cup {None},
                               delay : Ids \cup {None}, duplicate : Ids \cup {None},
                               left : 0..(Width - 1)]]
    /\ replay \in [pc : {"no", "wait", "send"}, data : Datagrams \cup {Nothing},
                   source : Ids \cup {None}, left : 0..(Width - 1), ok : BOOLEAN]
    /\ trace \in Seq(Entries)

Init ==
    /\ config \in Configs
    /\ next = 1
    /\ remaining = [f \in Faults |-> 0]
    /\ actionOf = [f \in Faults |-> None]
    /\ last = Nothing /\ captured = Nothing /\ capturedAction = None
    /\ sender = [s \in Senders |-> Idle(0)]
    /\ replay = NoReplay
    /\ trace = <<>>

Log(kind, id, data) == trace' = Append(trace, Entry(kind, id, data, None))

-----------------------------------------------------------------------------
(* Controller::apply and the threads that call it. *)

\* The actions the constructor applies before any call of send gets through.
Leading == {i \in Ids : \A j \in 1..i : Plan[j].early /\ Plan[j].op # "replay"}
Constructed == Caller # Nobody \/ next \notin Leading

\* The thread that applies the plan has nothing else to do.
Ready ==
    /\ next \in Ids
    /\ replay.pc = "no"
    /\ Caller \in Senders => sender[Caller].pc = "idle"

\* drop_next, delay_next, duplicate_next and capture_next, under the mutex.
Arm ==
    /\ Ready
    /\ LET a == Plan[next] IN
        /\ a.op \in Faults
        /\ remaining' = [remaining EXCEPT
                ![a.op] = IF a.op = "delay" THEN 1 ELSE (@ + a.count) % Width]
        /\ actionOf' = [actionOf EXCEPT ![a.op] = next]
    /\ Log("armed", next, Nothing)
    /\ next' = next + 1
    /\ UNCHANGED <<last, captured, capturedAction, sender, replay>>

\* replay_last: announced, then waits for a datagram to resend.
BeginReplay ==
    /\ Ready
    /\ Plan[next].op = "replay"
    /\ Log("armed", next, Nothing)
    /\ replay' = [NoReplay EXCEPT !.pc = "wait"]
    /\ UNCHANGED <<next, lockedVars, sender>>

\* A mutant: the wait ends only when there is something to resend.
ReplayNoTimeout ==
    /\ replay.pc = "wait"
    /\ captured # Nothing \/ last # Nothing
    /\ Log("replay failed", next, Nothing)
    /\ replay' = NoReplay
    /\ next' = next + 1
    /\ UNCHANGED <<lockedVars, sender>>

\* Five seconds went by and nothing was sent.
ReplayTimeout ==
    /\ replay.pc = "wait"
    /\ captured = Nothing /\ last = Nothing
    /\ Log("replay failed", next, Nothing)
    /\ replay' = NoReplay
    /\ next' = next + 1
    /\ UNCHANGED <<lockedVars, sender>>

\* A mutant: the datagram is the last one, the source still the capture.
ReplayTakeLast ==
    /\ replay.pc = "wait"
    /\ last # Nothing
    /\ replay' = [pc |-> "send", data |-> last, source |-> capturedAction,
                  left |-> Plan[next].count, ok |-> TRUE]
    /\ UNCHANGED <<next, lockedVars, sender, trace>>

\* Under the mutex: a captured datagram rather than the last one sent.
ReplayTake ==
    /\ replay.pc = "wait"
    /\ captured # Nothing \/ last # Nothing
    /\ replay' = [pc |-> "send",
                  data |-> IF captured # Nothing THEN captured ELSE last,
                  source |-> IF captured # Nothing THEN capturedAction ELSE None,
                  left |-> Plan[next].count, ok |-> TRUE]
    /\ UNCHANGED <<next, lockedVars, sender, trace>>

\* The first failure ends the sends: succeeded && ... short-circuits.
ReplaySend ==
    /\ replay.pc = "send" /\ replay.left > 0 /\ replay.ok
    /\ \/ /\ trace' = Append(trace, Entry("wire", next, replay.data, replay.source))
          /\ replay' = [replay EXCEPT !.left = @ - 1]
       \/ /\ MayFail
          /\ replay' = [replay EXCEPT !.ok = FALSE]
          /\ UNCHANGED trace
    /\ UNCHANGED <<next, lockedVars, sender>>

ReplayEnd ==
    /\ replay.pc = "send" /\ (replay.left = 0 \/ ~replay.ok)
    /\ trace' = Append(trace, Entry(IF replay.ok THEN "replayed" ELSE "replay failed",
                                    next, replay.data, replay.source))
    /\ replay' = NoReplay
    /\ next' = next + 1
    /\ UNCHANGED <<lockedVars, sender>>

-----------------------------------------------------------------------------
(* Controller::send, on the thread that sends. *)

MayCall(s) ==
    /\ Constructed
    /\ sender[s].pc = "idle" /\ sender[s].n < MaxSends
    /\ s = Caller => replay.pc = "no"

Data(s) == [from |-> s, n |-> sender[s].n]

\* Not a loopback address, or more than a megabyte.
PassThrough(s) ==
    /\ MayCall(s)
    /\ sender' = [sender EXCEPT ![s].n = @ + 1]
    /\ Log("wire", None, [from |-> s, n |-> sender[s].n + 1])
    /\ UNCHANGED <<next, lockedVars, replay>>

\* Where send goes after the mutex and the captured event.
AfterCapture(c) == IF c.drop # None THEN "drop" ELSE IF c.delay # None THEN "delay" ELSE "send"

\* A mutant: a datagram that is dropped no longer counts as captured.
InterceptDropFirst(s) ==
    /\ MayCall(s)
    /\ LET data == [from |-> s, n |-> sender[s].n + 1]
           capture == remaining["capture"] > 0
           drop == remaining["drop"] > 0
           call == [Idle(data.n) EXCEPT
                    !.capture = IF capture THEN actionOf["capture"] ELSE None,
                    !.drop = IF drop THEN actionOf["drop"] ELSE None]
       IN
        /\ sender' = [sender EXCEPT ![s] =
                [call EXCEPT !.pc = IF capture THEN "capture" ELSE AfterCapture(call)]]
        /\ remaining' = [f \in Faults |->
                CASE f = "drop" -> remaining[f] - (IF drop THEN 1 ELSE 0)
                  [] f = "capture" -> remaining[f] - (IF capture /\ ~drop THEN 1 ELSE 0)
                  [] OTHER -> remaining[f]]
        /\ last' = data
        /\ captured' = IF capture THEN data ELSE captured
        /\ capturedAction' = IF capture THEN actionOf["capture"] ELSE capturedAction
    /\ UNCHANGED <<next, actionOf, replay, trace>>

\* The part under the mutex: which faults hit this datagram.
Intercept(s) ==
    /\ MayCall(s)
    /\ LET data == [from |-> s, n |-> sender[s].n + 1]
           Hits(f) == remaining[f] > 0 /\ (f \in {"delay", "duplicate"} => remaining["drop"] = 0)
           Id(f) == IF Hits(f) THEN actionOf[f] ELSE None
           call == [Idle(data.n) EXCEPT
                    !.capture = Id("capture"), !.drop = Id("drop"),
                    !.delay = Id("delay"), !.duplicate = Id("duplicate"),
                    !.left = IF Hits("duplicate") THEN remaining["duplicate"] ELSE 0]
       IN
        /\ sender' = [sender EXCEPT ![s] =
                [call EXCEPT !.pc = IF Hits("capture") THEN "capture" ELSE AfterCapture(call)]]
        /\ remaining' = [f \in Faults |->
                IF ~Hits(f) THEN remaining[f]
                ELSE IF f \in {"capture", "drop"} THEN remaining[f] - 1 ELSE 0]
        /\ last' = data
        /\ captured' = IF Hits("capture") THEN data ELSE captured
        /\ capturedAction' = IF Hits("capture") THEN actionOf["capture"] ELSE capturedAction
    /\ UNCHANGED <<next, actionOf, replay, trace>>

ReportCapture(s) ==
    /\ sender[s].pc = "capture"
    /\ Log("captured", sender[s].capture, Data(s))
    /\ sender' = [sender EXCEPT ![s].pc = AfterCapture(sender[s])]
    /\ UNCHANGED <<next, lockedVars, replay>>

\* A dropped datagram is reported and the call returns as if sent.
Drop(s) ==
    /\ sender[s].pc = "drop"
    /\ Log("dropped", sender[s].drop, Data(s))
    /\ sender' = [sender EXCEPT ![s] = Idle(@.n)]
    /\ UNCHANGED <<next, lockedVars, replay>>

\* The event follows the sleep.
Delay(s) ==
    /\ sender[s].pc = "delay"
    /\ Log("delayed", sender[s].delay, Data(s))
    /\ sender' = [sender EXCEPT ![s].pc = "send"]
    /\ UNCHANGED <<next, lockedVars, replay>>

\* A mutant: the copies are sent, and reported, even if the send failed.
SendIgnoringResult(s) ==
    /\ sender[s].pc = "send"
    /\ sender' = [sender EXCEPT ![s] = IF @.duplicate # None THEN [@ EXCEPT !.pc = "copy"]
                                       ELSE Idle(@.n)]
    /\ \/ Log("wire", None, Data(s))
       \/ MayFail /\ UNCHANGED trace
    /\ UNCHANGED <<next, lockedVars, replay>>

\* The real sendto: a failure gives up the copies and their event.
Send(s) ==
    /\ sender[s].pc = "send"
    /\ \/ /\ Log("wire", None, Data(s))
          /\ sender' = [sender EXCEPT ![s] = IF @.duplicate # None
                                             THEN [@ EXCEPT !.pc = "copy"] ELSE Idle(@.n)]
       \/ /\ MayFail
          /\ sender' = [sender EXCEPT ![s] = Idle(@.n)]
          /\ UNCHANGED trace
    /\ UNCHANGED <<next, lockedVars, replay>>

\* The result of a copy's send is ignored.
Copy(s) ==
    /\ sender[s].pc = "copy" /\ sender[s].left > 0
    /\ sender' = [sender EXCEPT ![s].left = @ - 1]
    /\ \/ Log("wire", sender[s].duplicate, Data(s))
       \/ MayFail /\ UNCHANGED trace
    /\ UNCHANGED <<next, lockedVars, replay>>

ReportCopies(s) ==
    /\ sender[s].pc = "copy" /\ sender[s].left = 0
    /\ Log("duplicated", sender[s].duplicate, Data(s))
    /\ sender' = [sender EXCEPT ![s] = Idle(@.n)]
    /\ UNCHANGED <<next, lockedVars, replay>>

-----------------------------------------------------------------------------
Apply ==
    /\ Arm \/ BeginReplay \/ ReplayTimeout \/ ReplayTake \/ ReplaySend \/ ReplayEnd
    /\ UNCHANGED config

Called(s) ==
    \/ ReportCapture(s) \/ Drop(s) \/ Delay(s)
    \/ Send(s) \/ Copy(s) \/ ReportCopies(s)

Next ==
    \/ Apply
    \/ /\ \E s \in Senders : PassThrough(s) \/ Intercept(s) \/ Called(s)
       /\ UNCHANGED config

Spec == Init /\ [][Next]_vars

\* The thread that applies the plan goes on; nothing makes the program send.
FairSpec == Spec /\ WF_vars(Apply)
=============================================================================
