------------------------- MODULE TransportFaultProofs --------------------------
(***************************************************************************)
(* For every plan, any number of sending threads and whatever fails:       *)
(* copies follow a datagram that left, a replay that names a capture       *)
(* resends what that capture kept, and no request for a drop or a capture  *)
(* is lost or served twice.                                                *)
(***************************************************************************)
EXTENDS TransportFaultProperties, ProofFacts, TLAPS

-----------------------------------------------------------------------------
(* The inductive invariant.                                                *)

\* A thread in send has a datagram; a replay belongs to the action next.
Calling ==
    /\ \A s \in Senders : sender[s].pc # "idle" => sender[s].n > 0
    /\ replay.pc # "no" => next \in Ids /\ Plan[next].op = "replay"

\* The datagram is on the wire.
Sent(data) == \E j \in DOMAIN trace : trace[j] = Entry("wire", None, data, None)
CopiesSent == \A s \in Senders : sender[s].pc = "copy" => Sent(Data(s))

\* The capture has been reported, or the call that made it is about to.
Kept(id, data) ==
    \/ \E j \in DOMAIN trace : trace[j] = Entry("captured", id, data, None)
    \/ \E s \in Senders : /\ sender[s].pc = "capture" /\ sender[s].capture = id
                          /\ Data(s) = data
CapturesKept ==
    /\ capturedAction # None => Kept(capturedAction, captured)
    /\ replay.source # None => Kept(replay.source, replay.data)

IInv ==
    /\ TypeOK
    /\ Calling
    /\ CopiesSent
    /\ CapturesKept
    /\ DuplicatesFollowOriginal
    /\ ReplayNamesItsSource

-----------------------------------------------------------------------------
(* Facts about types.                                                      *)

\* A process keeps its environment, and with it the plan.
LEMMA PlanKept ==
    ASSUME [Next]_vars
    PROVE  /\ config' = config /\ Plan' = Plan /\ Caller' = Caller /\ Ids' = Ids
           /\ Entries' = Entries
<1>1. config' = config
  BY DEF Next, Apply, vars
<1> QED
  BY <1>1 DEF Plan, Caller, Ids, Entries

LEMMA PlanFacts ==
    ASSUME config \in Configs
    PROVE  /\ Len(Plan) \in Nat /\ DOMAIN Plan = Ids /\ Ids \subseteq Nat /\ None \notin Ids
           /\ \A i \in Ids : /\ Plan[i].op \in Faults \cup {"replay"}
                             /\ Plan[i].count \in 1..(Width - 1)
<1> DEFINE Actions == [op : Faults \cup {"replay"}, count : 1..(Width - 1), early : BOOLEAN]
<1>1. Plan \in Seq(Actions)
  BY TransportAssumption DEF Plan
<1>2. \A a \in Actions : a.op \in Faults \cup {"replay"} /\ a.count \in 1..(Width - 1)
  OBVIOUS
<1> HIDE DEF Actions
<1>3. /\ Len(Plan) \in Nat /\ DOMAIN Plan = Ids /\ Ids \subseteq Nat /\ None \notin Ids
  BY <1>1 DEF Ids, None
<1>4. \A i \in 1..Len(Plan) : Plan[i] \in Actions
  BY <1>1
<1> QED
  BY <1>2, <1>3, <1>4 DEF Ids

LEMMA EntryTypes ==
    ASSUME NEW kind \in Applied \cup {"armed", "replay failed", "wire"},
           NEW id \in Ids \cup {None}, NEW data \in Datagrams \cup {Nothing},
           NEW source \in Ids \cup {None}
    PROVE  Entry(kind, id, data, source) \in Entries
  BY DEF Entry, Entries

LEMMA AppendEntry ==
    ASSUME NEW t \in Seq(Entries), NEW e \in Entries
    PROVE  /\ Append(t, e) \in Seq(Entries)
           /\ DOMAIN t = 1..Len(t) /\ Len(t) \in Nat
           /\ DOMAIN Append(t, e) = 1..(Len(t) + 1)
           /\ Append(t, e)[Len(t) + 1] = e
           /\ \A i \in 1..Len(t) : Append(t, e)[i] = t[i]
  OBVIOUS

\* The calls of send.
Calls == [pc : {"idle", "capture", "drop", "delay", "send", "copy"},
          n : 0..MaxSends,
          capture : Ids \cup {None}, drop : Ids \cup {None},
          delay : Ids \cup {None}, duplicate : Ids \cup {None},
          left : 0..(Width - 1)]

LEMMA Numbers == Width \in Nat /\ Width > 1 /\ MaxSends \in Nat /\ 0 \in 0..(Width - 1) /\ 0 \in 0..MaxSends
  BY TransportAssumption

LEMMA CallTypes ==
    ASSUME TypeOK, Calling, NEW s \in Senders
    PROVE  /\ sender \in [Senders -> Calls]
           /\ Idle(sender[s].n) \in Calls
           /\ sender[s].pc # "idle" => Data(s) \in Datagrams
<1>1. sender \in [Senders -> Calls]
  BY DEF TypeOK, Calls
<1>2. sender[s] \in Calls
  BY <1>1
<1>3. Idle(sender[s].n) \in Calls
  BY <1>2, Numbers DEF Idle, Calls
<1>4. sender[s].pc # "idle" => Data(s) \in Datagrams
  BY <1>2, Numbers DEF Calling, Data, Datagrams, Calls
<1> QED
  BY <1>1, <1>3, <1>4

LEMMA InitInvariant == ASSUME Init PROVE IInv
<1>1. config \in Configs /\ Len(Plan) \in Nat
  BY PlanFacts DEF Init
<1>2. TypeOK
  <2>1. sender \in [Senders -> Calls]
    BY Numbers DEF Init, Idle, Calls
  <2>2. replay \in [pc : {"no", "wait", "send"}, data : Datagrams \cup {Nothing},
                    source : Ids \cup {None}, left : 0..(Width - 1), ok : BOOLEAN]
    BY Numbers DEF Init, NoReplay
  <2>3. trace \in Seq(Entries)
    BY DEF Init
  <2> QED
    BY <1>1, <2>1, <2>2, <2>3, Numbers DEF Init, TypeOK, Calls
<1>3. DOMAIN trace = {}
  BY DEF Init
<1> QED
  BY <1>2, <1>3 DEF IInv, Init, Calling, CopiesSent, CapturesKept, DuplicatesFollowOriginal,
     ReplayNamesItsSource, NoReplay, Idle

-----------------------------------------------------------------------------
(* Types.                                                                  *)

Replays == [pc : {"no", "wait", "send"}, data : Datagrams \cup {Nothing},
            source : Ids \cup {None}, left : 0..(Width - 1), ok : BOOLEAN]

\* Every step keeps the trace or adds one entry to it.
LEMMA TypeStep == ASSUME TypeOK, Calling, [Next]_vars PROVE TypeOK' /\ Calling'
<1>1. /\ config' = config /\ Plan' = Plan /\ Caller' = Caller /\ Ids' = Ids /\ Entries' = Entries
  BY PlanKept
<1>2. /\ Len(Plan) \in Nat /\ DOMAIN Plan = Ids /\ Ids = 1..Len(Plan) /\ None \notin Ids
      /\ \A i \in Ids : Plan[i].op \in Faults \cup {"replay"} /\ Plan[i].count \in 1..(Width - 1)
      /\ next \in 1..(Len(Plan) + 1) /\ trace \in Seq(Entries)
  BY PlanFacts DEF TypeOK, Ids
<1>3. /\ sender \in [Senders -> Calls] /\ replay \in Replays
      /\ remaining \in [Faults -> 0..(Width - 1)] /\ actionOf \in [Faults -> Ids \cup {None}]
      /\ last \in Datagrams \cup {Nothing} /\ captured \in Datagrams \cup {Nothing}
      /\ capturedAction \in Ids \cup {None}
      /\ \A s \in Senders : /\ Idle(sender[s].n) \in Calls
                            /\ sender[s].pc # "idle" => Data(s) \in Datagrams
  BY CallTypes DEF TypeOK, Replays
<1>4. NoReplay \in Replays
  BY Numbers DEF NoReplay, Replays
<1>5. ASSUME NEW e \in Entries, trace' = Append(trace, e) PROVE trace' \in Seq(Entries)
  BY <1>2, <1>5, AppendEntry
<1>6. ASSUME sender' \in [Senders -> Calls], replay' \in Replays, trace' \in Seq(Entries),
             next' \in 1..(Len(Plan) + 1), remaining' \in [Faults -> 0..(Width - 1)],
             actionOf' \in [Faults -> Ids \cup {None}],
             last' \in Datagrams \cup {Nothing}, captured' \in Datagrams \cup {Nothing},
             capturedAction' \in Ids \cup {None}
      PROVE  TypeOK'
  BY <1>1, <1>6 DEF TypeOK, Calls, Replays
<1>7. ASSUME Arm PROVE TypeOK' /\ Calling'
  <2>1. next \in Ids /\ next' = next + 1 /\ next' \in 1..(Len(Plan) + 1)
    BY <1>2, <1>7 DEF Arm, Ready
  <2>2. /\ remaining' \in [Faults -> 0..(Width - 1)] /\ actionOf' \in [Faults -> Ids \cup {None}]
        /\ UNCHANGED <<last, captured, capturedAction, sender, replay>>
    <3>1. PICK a \in {Plan[next]} :
              /\ a.op \in Faults
              /\ remaining' = [remaining EXCEPT
                    ![a.op] = IF a.op = "delay" THEN 1 ELSE (@ + a.count) % Width]
              /\ actionOf' = [actionOf EXCEPT ![a.op] = next]
      BY <1>7 DEF Arm
    <3>2. a.count \in Nat /\ remaining[a.op] \in Nat
      BY <1>2, <1>3, <2>1, <3>1, Numbers
    <3>3. 1 \in 0..(Width - 1) /\ (remaining[a.op] + a.count) % Width \in 0..(Width - 1)
      BY <3>2, Numbers
    <3> QED
      BY <1>3, <1>7, <2>1, <3>1, <3>3 DEF Arm
  <2>3. trace' \in Seq(Entries)
    BY <1>5, <1>7, <2>1, EntryTypes DEF Arm, Log, Applied
  <2>4. TypeOK'
    BY <1>3, <1>6, <2>1, <2>2, <2>3
  <2> QED
    BY <1>1, <1>7, <2>2, <2>4 DEF Calling, Arm, Ready
<1>8. ASSUME BeginReplay PROVE TypeOK' /\ Calling'
  <2>1. /\ next \in Ids /\ Plan[next].op = "replay" /\ UNCHANGED <<next, lockedVars, sender>>
        /\ replay' = [NoReplay EXCEPT !.pc = "wait"]
    BY <1>8 DEF BeginReplay, Ready
  <2>2. replay' \in Replays
    BY <1>4, <2>1 DEF Replays
  <2>3. trace' \in Seq(Entries)
    BY <1>5, <1>8, <2>1, EntryTypes DEF BeginReplay, Log, Applied
  <2>4. TypeOK'
    BY <1>2, <1>3, <1>6, <2>1, <2>2, <2>3 DEF lockedVars
  <2> QED
    BY <1>1, <2>1, <2>4 DEF Calling
<1>9. ASSUME ReplayTimeout \/ ReplayEnd PROVE TypeOK' /\ Calling'
  <2>1. /\ next \in Ids /\ next' = next + 1 /\ replay' = NoReplay /\ UNCHANGED <<lockedVars, sender>>
    BY <1>9 DEF ReplayTimeout, ReplayEnd, Calling
  <2>2. next' \in 1..(Len(Plan) + 1)
    BY <1>2, <2>1
  <2>3. replay.data \in Datagrams \cup {Nothing} /\ replay.source \in Ids \cup {None}
    BY <1>3 DEF Replays
  <2>4. \E kind \in {"replayed", "replay failed"}, data \in Datagrams \cup {Nothing}, source \in Ids \cup {None} :
            trace' = Append(trace, Entry(kind, next, data, source))
    BY <1>9, <2>3 DEF ReplayTimeout, ReplayEnd, Log
  <2>5. trace' \in Seq(Entries)
    BY <1>5, <2>1, <2>4, EntryTypes DEF Applied
  <2>6. TypeOK'
    BY <1>3, <1>4, <1>6, <2>1, <2>2, <2>5 DEF lockedVars
  <2> QED
    BY <1>1, <2>1, <2>6 DEF Calling, NoReplay
<1>10. ASSUME ReplayTake PROVE TypeOK' /\ Calling'
  <2>1. next \in Ids /\ replay.pc = "wait" /\ UNCHANGED <<next, lockedVars, sender, trace>>
    BY <1>10 DEF ReplayTake, Calling
  <2>2. Plan[next].count \in 0..(Width - 1)
    BY <1>2, <2>1, Numbers
  <2>3. replay' \in Replays
    BY <1>3, <1>10, <2>2 DEF ReplayTake, Replays
  <2>4. TypeOK'
    BY <1>2, <1>3, <1>6, <2>1, <2>3 DEF lockedVars
  <2> QED
    BY <1>1, <2>1, <2>4 DEF Calling
<1>11. ASSUME ReplaySend PROVE TypeOK' /\ Calling'
  <2>1. next \in Ids /\ replay.pc = "send" /\ replay.left > 0 /\ UNCHANGED <<next, lockedVars, sender>>
    BY <1>11 DEF ReplaySend, Calling
  <2>2. /\ replay' \in Replays
        /\ replay.data \in Datagrams \cup {Nothing} /\ replay.source \in Ids \cup {None}
    <3>1. replay.left - 1 \in 0..(Width - 1)
      BY <1>3, <2>1, Numbers DEF Replays
    <3>2. replay' = [replay EXCEPT !.left = @ - 1] \/ replay' = [replay EXCEPT !.ok = FALSE]
      BY <1>11 DEF ReplaySend
    <3> QED
      BY <1>3, <3>1, <3>2 DEF Replays
  <2>3. trace' \in Seq(Entries)
    BY <1>2, <1>5, <1>11, <2>1, <2>2, EntryTypes DEF ReplaySend, Applied
  <2>4. TypeOK'
    BY <1>2, <1>3, <1>6, <2>1, <2>2, <2>3 DEF lockedVars
  <2> QED
    BY <1>1, <2>1, <2>4 DEF Calling
<1>12. ASSUME NEW s \in Senders, PassThrough(s) PROVE TypeOK' /\ Calling'
  <2>1. /\ sender[s].n \in Nat /\ sender[s].n < MaxSends /\ sender' = [sender EXCEPT ![s].n = @ + 1]
        /\ UNCHANGED <<next, lockedVars, replay>>
    BY <1>3, <1>12, Numbers DEF PassThrough, MayCall, Calls
  <2>2. sender' \in [Senders -> Calls]
    BY <1>3, <2>1, Numbers DEF Calls
  <2>3. [from |-> s, n |-> sender[s].n + 1] \in Datagrams
    BY <2>1, Numbers DEF Datagrams
  <2>4. trace' \in Seq(Entries)
    BY <1>5, <1>12, <2>3, EntryTypes DEF PassThrough, Log, Applied
  <2>5. TypeOK'
    BY <1>2, <1>3, <1>6, <2>1, <2>2, <2>4 DEF lockedVars
  <2> QED
    BY <1>1, <1>3, <2>1, <2>5 DEF Calling, Calls
<1>13. ASSUME NEW s \in Senders, Intercept(s) PROVE TypeOK' /\ Calling'
  <2> DEFINE data == [from |-> s, n |-> sender[s].n + 1]
             Hits(f) == remaining[f] > 0 /\ (f \in {"delay", "duplicate"} => remaining["drop"] = 0)
             Id(f) == IF Hits(f) THEN actionOf[f] ELSE None
             call == [Idle(data.n) EXCEPT
                      !.capture = Id("capture"), !.drop = Id("drop"),
                      !.delay = Id("delay"), !.duplicate = Id("duplicate"),
                      !.left = IF Hits("duplicate") THEN remaining["duplicate"] ELSE 0]
  <2>1. /\ sender[s].n \in Nat /\ sender[s].n < MaxSends
        /\ UNCHANGED <<next, actionOf, replay, trace>>
    BY <1>3, <1>13, Numbers DEF Intercept, MayCall, Calls
  <2>2. data \in Datagrams /\ data.n \in 1..MaxSends
    BY <2>1, Numbers DEF Datagrams
  <2>3. \A f \in Faults : remaining[f] \in 0..(Width - 1) /\ actionOf[f] \in Ids \cup {None}
    BY <1>3
  <2>4. {"capture", "drop", "delay", "duplicate"} \subseteq Faults
    BY DEF Faults, Counted
  <2>5. \A p \in {"capture", "drop", "delay", "send"} : [call EXCEPT !.pc = p] \in Calls
    <3>1. \A f \in {"capture", "drop", "delay", "duplicate"} : Id(f) \in Ids \cup {None}
      BY <2>3, <2>4
    <3>2. (IF Hits("duplicate") THEN remaining["duplicate"] ELSE 0) \in 0..(Width - 1)
      BY <2>3, <2>4, Numbers
    <3>3. data.n \in 0..MaxSends
      BY <2>2, Numbers
    <3> HIDE DEF Id, Hits, data
    <3> QED
      BY <3>1, <3>2, <3>3 DEF Idle, Calls
  <2>6. /\ sender' = [sender EXCEPT ![s] =
                [call EXCEPT !.pc = IF Hits("capture") THEN "capture" ELSE AfterCapture(call)]]
        /\ remaining' = [f \in Faults |->
                IF ~Hits(f) THEN remaining[f]
                ELSE IF f \in {"capture", "drop"} THEN remaining[f] - 1 ELSE 0]
        /\ last' = data
        /\ captured' = IF Hits("capture") THEN data ELSE captured
        /\ capturedAction' = IF Hits("capture") THEN actionOf["capture"] ELSE capturedAction
    BY <1>13 DEF Intercept
  <2>7. \A f \in Faults : remaining'[f] \in 0..(Width - 1)
    BY <2>3, <2>6, Numbers
  <2>8. remaining' \in [Faults -> 0..(Width - 1)]
    BY <2>6, <2>7
  <2>9. AfterCapture(call) \in {"drop", "delay", "send"}
    BY DEF AfterCapture
  <2>10. /\ captured' \in Datagrams \cup {Nothing}
         /\ capturedAction' \in Ids \cup {None}
    BY <1>3, <2>2, <2>3, <2>4, <2>6
  <2> HIDE DEF call, Hits, Id
  <2>11. \E p \in {"capture", "drop", "delay", "send"} : sender' = [sender EXCEPT ![s] = [call EXCEPT !.pc = p]]
    BY <2>6, <2>9
  <2>12. sender' \in [Senders -> Calls]
    BY <1>3, <2>5, <2>11
  <2>13. TypeOK'
    BY <1>2, <1>3, <1>6, <2>1, <2>2, <2>6, <2>8, <2>10, <2>12
  <2>14. sender'[s].n = sender[s].n + 1
    BY <1>3, <2>11 DEF call, Idle
  <2>15. \A r \in Senders : sender'[r].pc # "idle" => sender'[r].n > 0
    BY <1>3, <2>1, <2>11, <2>14 DEF Calling
  <2> QED
    BY <1>1, <2>1, <2>13, <2>15 DEF Calling
<1>14. ASSUME NEW s \in Senders, Called(s) PROVE TypeOK' /\ Calling'
  <2>1. /\ sender[s].pc # "idle" /\ Data(s) \in Datagrams /\ UNCHANGED <<next, lockedVars, replay>>
    BY <1>3, <1>14 DEF Called, ReportCapture, Drop, Delay, Send, Copy, ReportCopies
  <2>2. sender[s] \in Calls /\ Idle(sender[s].n) \in Calls
    BY <1>3
  <2>3. \E call \in Calls : sender' = [sender EXCEPT ![s] = call] /\ call.n = sender[s].n
    <3>1. ASSUME NEW p \in {"drop", "delay", "send"}, sender' = [sender EXCEPT ![s].pc = p]
          PROVE  \E call \in Calls : sender' = [sender EXCEPT ![s] = call] /\ call.n = sender[s].n
      <4> DEFINE call == [sender[s] EXCEPT !.pc = p]
      <4>1. call \in Calls /\ call.n = sender[s].n
        BY <2>2 DEF Calls
      <4>2. sender' = [sender EXCEPT ![s] = call]
        BY <3>1
      <4> QED
        BY <4>1, <4>2
    <3>5. CASE ReportCapture(s) \/ Delay(s)
      <4>1. AfterCapture(sender[s]) \in {"drop", "delay", "send"}
        BY DEF AfterCapture
      <4>2. sender' = [sender EXCEPT ![s].pc = AfterCapture(sender[s])] \/ sender' = [sender EXCEPT ![s].pc = "send"]
        BY <3>5 DEF ReportCapture, Delay
      <4> QED
        BY <3>1, <4>1, <4>2
    <3>2. CASE Drop(s) \/ ReportCopies(s)
      BY <1>3, <2>2, <3>2 DEF Drop, ReportCopies, Idle
    <3>3. CASE Send(s)
      <4>1. \/ sender' = [sender EXCEPT ![s] = [sender[s] EXCEPT !.pc = "copy"]]
            \/ sender' = [sender EXCEPT ![s] = Idle(sender[s].n)]
        BY <1>3, <3>3 DEF Send
      <4> QED
        BY <2>2, <4>1 DEF Calls, Idle
    <3>4. CASE Copy(s)
      <4> DEFINE call == [sender[s] EXCEPT !.left = sender[s].left - 1]
      <4>1. sender[s].left - 1 \in 0..(Width - 1)
        BY <2>2, <3>4, Numbers DEF Calls, Copy
      <4>2. call \in Calls /\ call.n = sender[s].n
        BY <2>2, <4>1 DEF Calls
      <4>3. sender' = [sender EXCEPT ![s] = call]
        BY <3>4 DEF Copy
      <4> QED
        BY <4>2, <4>3
    <3> QED
      BY <1>14, <3>2, <3>3, <3>4, <3>5 DEF Called
  <2>4. \/ UNCHANGED trace
        \/ \E kind \in Applied \cup {"wire"}, id \in Ids \cup {None} :
                trace' = Append(trace, Entry(kind, id, Data(s), None))
    BY <1>14, <2>2 DEF Called, ReportCapture, Drop, Delay, Send, Copy, ReportCopies, Log, Applied, Calls
  <2>5. trace' \in Seq(Entries)
    BY <1>2, <1>5, <2>1, <2>4, EntryTypes
  <2>6. sender' \in [Senders -> Calls]
    BY <1>3, <2>3
  <2>7. TypeOK'
    BY <1>2, <1>3, <1>6, <2>1, <2>5, <2>6 DEF lockedVars
  <2> QED
    BY <1>1, <1>3, <2>1, <2>3, <2>7 DEF Calling
<1>15. CASE UNCHANGED vars
  <2>1. TypeOK'
    BY <1>2, <1>3, <1>6, <1>15 DEF vars, lockedVars
  <2> QED
    BY <1>1, <1>15, <2>1 DEF vars, Calling
<1> QED
  BY <1>7, <1>8, <1>9, <1>10, <1>11, <1>12, <1>13, <1>14, <1>15 DEF Next, Apply

-----------------------------------------------------------------------------
(* What a step adds to the trace.                                          *)

\* An entry that tells of a copy.
Copied(e) ==
    \/ e.kind = "duplicated"
    \/ e.kind = "wire" /\ e.id # None /\ Plan[e.id].op = "duplicate"

\* At most one entry: a copy has been sent, and a source has been kept.
LEMMA EntryStep ==
    ASSUME IInv, [Next]_vars
    PROVE  \/ UNCHANGED trace
           \/ \E e \in Entries : /\ trace' = Append(trace, e)
                                 /\ Copied(e) => Sent(e.data)
                                 /\ e.source # None => Kept(e.source, e.data)
<1> DEFINE Sound(e) == /\ Copied(e) => Sent(e.data)
                       /\ e.source # None => Kept(e.source, e.data)
<1>1. /\ Len(Plan) \in Nat /\ DOMAIN Plan = Ids /\ Ids \subseteq Nat /\ None \notin Ids
      /\ next \in 1..(Len(Plan) + 1) /\ sender \in [Senders -> Calls] /\ replay \in Replays
      /\ \A s \in Senders : sender[s].pc # "idle" => Data(s) \in Datagrams
  BY PlanFacts, CallTypes DEF IInv, TypeOK, Replays
<1>2. ASSUME NEW kind \in (Applied \ {"duplicated"}) \cup {"armed", "replay failed", "wire"},
             NEW id \in Ids \cup {None}, NEW data \in Datagrams \cup {Nothing},
             kind = "wire" => id = None
      PROVE  Entry(kind, id, data, None) \in Entries /\ Sound(Entry(kind, id, data, None))
  BY <1>2, EntryTypes DEF Copied, Entry
<1>3. ASSUME Arm \/ BeginReplay \/ ReplayTimeout
      PROVE  \E e \in Entries : trace' = Append(trace, e) /\ Sound(e)
  <2>1. next \in Ids
    BY <1>3 DEF Arm, BeginReplay, ReplayTimeout, Ready, IInv, Calling
  <2>2. \E kind \in {"armed", "replay failed"} : trace' = Append(trace, Entry(kind, next, Nothing, None))
    BY <1>3 DEF Arm, BeginReplay, ReplayTimeout, Log
  <2> QED
    BY <1>2, <2>1, <2>2
<1>4. ASSUME ReplaySend \/ ReplayEnd
      PROVE  \/ UNCHANGED trace
             \/ \E e \in Entries : trace' = Append(trace, e) /\ Sound(e)
  <2>1. /\ next \in Ids /\ Plan[next].op = "replay" /\ replay.data \in Datagrams \cup {Nothing}
        /\ replay.source \in Ids \cup {None}
    BY <1>1, <1>4 DEF ReplaySend, ReplayEnd, IInv, Calling, Replays
  <2>2. ASSUME NEW kind \in {"replayed", "replay failed", "wire"}
        PROVE  /\ Entry(kind, next, replay.data, replay.source) \in Entries
               /\ Sound(Entry(kind, next, replay.data, replay.source))
    <3>1. Entry(kind, next, replay.data, replay.source) \in Entries
      BY <2>1, EntryTypes DEF Applied
    <3>2. ~Copied(Entry(kind, next, replay.data, replay.source))
      BY <2>1 DEF Copied, Entry
    <3>3. replay.source # None => Kept(replay.source, replay.data)
      BY DEF IInv, CapturesKept
    <3> QED
      BY <3>1, <3>2, <3>3 DEF Entry
  <2>3. \/ UNCHANGED trace
        \/ \E kind \in {"replayed", "replay failed", "wire"} :
                trace' = Append(trace, Entry(kind, next, replay.data, replay.source))
    BY <1>4 DEF ReplaySend, ReplayEnd
  <2> QED
    BY <2>2, <2>3
<1>5. ASSUME NEW s \in Senders, PassThrough(s)
      PROVE  \E e \in Entries : trace' = Append(trace, e) /\ Sound(e)
  <2>1. [from |-> s, n |-> sender[s].n + 1] \in Datagrams
    BY <1>1, <1>5, Numbers DEF PassThrough, MayCall, Calls, Datagrams
  <2> QED
    BY <1>2, <1>5, <2>1 DEF PassThrough, Log
<1>6. ASSUME NEW s \in Senders, ReportCapture(s) \/ Drop(s) \/ Delay(s) \/ Send(s)
      PROVE  \/ UNCHANGED trace
             \/ \E e \in Entries : trace' = Append(trace, e) /\ Sound(e)
  <2>1. sender[s] \in Calls /\ Data(s) \in Datagrams
    BY <1>1, <1>6 DEF ReportCapture, Drop, Delay, Send
  <2>2. \/ UNCHANGED trace
        \/ trace' = Append(trace, Entry("wire", None, Data(s), None))
        \/ \E kind \in {"captured", "dropped", "delayed"}, id \in Ids \cup {None} :
                trace' = Append(trace, Entry(kind, id, Data(s), None))
    BY <1>6, <2>1 DEF ReportCapture, Drop, Delay, Send, Log, Calls
  <2> QED
    BY <1>2, <2>1, <2>2 DEF Applied
<1>7. ASSUME NEW s \in Senders, Copy(s) \/ ReportCopies(s)
      PROVE  \/ UNCHANGED trace
             \/ \E e \in Entries : trace' = Append(trace, e) /\ Sound(e)
  <2>1. /\ sender[s] \in Calls /\ Data(s) \in Datagrams /\ sender[s].duplicate \in Ids \cup {None}
        /\ Sent(Data(s))
    BY <1>1, <1>7 DEF Copy, ReportCopies, Calls, IInv, CopiesSent
  <2>2. ASSUME NEW kind \in {"wire", "duplicated"}
        PROVE  /\ Entry(kind, sender[s].duplicate, Data(s), None) \in Entries
               /\ Sound(Entry(kind, sender[s].duplicate, Data(s), None))
    BY <2>1, EntryTypes DEF Applied, Entry
  <2>3. \/ UNCHANGED trace
        \/ \E kind \in {"wire", "duplicated"} :
                trace' = Append(trace, Entry(kind, sender[s].duplicate, Data(s), None))
    BY <1>7 DEF Copy, ReportCopies, Log
  <2> QED
    BY <2>2, <2>3
<1>8. ASSUME ReplayTake \/ UNCHANGED vars \/ \E s \in Senders : Intercept(s) PROVE UNCHANGED trace
  BY <1>8 DEF ReplayTake, vars, Intercept
<1> QED
  BY <1>3, <1>4, <1>5, <1>6, <1>7, <1>8 DEF Next, Apply, Called

\* What is in the trace stays there.
LEMMA TraceStep ==
    ASSUME IInv, [Next]_vars
    PROVE  /\ \A e : (\E j \in DOMAIN trace : trace[j] = e) => (\E j \in DOMAIN trace' : trace'[j] = e)
           /\ DuplicatesFollowOriginal'
<1>1. trace \in Seq(Entries) /\ Plan' = Plan
  BY PlanKept DEF IInv, TypeOK
<1>2. CASE UNCHANGED trace
  BY <1>1, <1>2 DEF IInv, DuplicatesFollowOriginal
<1>3. ASSUME NEW e \in Entries, trace' = Append(trace, e), Copied(e) => Sent(e.data)
      PROVE  /\ \A d : (\E j \in DOMAIN trace : trace[j] = d) => (\E j \in DOMAIN trace' : trace'[j] = d)
             /\ DuplicatesFollowOriginal'
  <2>1. /\ Len(trace) \in Nat /\ DOMAIN trace = 1..Len(trace) /\ DOMAIN trace' = 1..(Len(trace) + 1)
        /\ trace'[Len(trace) + 1] = e /\ \A i \in 1..Len(trace) : trace'[i] = trace[i]
    BY <1>1, <1>3, AppendEntry
  <2>2. \A d : (\E j \in DOMAIN trace : trace[j] = d) => (\E j \in DOMAIN trace' : trace'[j] = d)
    BY <2>1
  <2>3. ASSUME NEW i \in DOMAIN trace', Copied(trace'[i])
        PROVE  \E j \in 1..(i - 1) : trace'[j] = Entry("wire", None, trace'[i].data, None)
    <3>1. CASE i \in 1..Len(trace)
      <4>1. \E j \in 1..(i - 1) : trace[j] = Entry("wire", None, trace[i].data, None)
        BY <2>1, <2>3, <3>1 DEF IInv, DuplicatesFollowOriginal, Copied
      <4> QED
        BY <2>1, <3>1, <4>1
    <3>2. CASE i = Len(trace) + 1
      <4>1. Sent(e.data)
        BY <1>3, <2>1, <2>3, <3>2
      <4> QED
        BY <2>1, <3>2, <4>1 DEF Sent
    <3> QED
      BY <2>1, <3>1, <3>2
  <2>4. DuplicatesFollowOriginal'
    BY <1>1, <2>3 DEF DuplicatesFollowOriginal, Copied
  <2> QED
    BY <2>2, <2>4
<1> QED
  BY <1>2, <1>3, EntryStep

-----------------------------------------------------------------------------
(* The calls behind the copies and the captures.                           *)

LEMMA CopiesStep ==
    ASSUME IInv, TypeOK', [Next]_vars
    PROVE  CopiesSent'
<1>1. /\ sender \in [Senders -> Calls] /\ trace \in Seq(Entries)
      /\ \A s \in Senders : sender[s].pc # "idle" => Data(s) \in Datagrams
  BY CallTypes DEF IInv, TypeOK
<1>2. SUFFICES ASSUME NEW s \in Senders, sender'[s].pc = "copy"
               PROVE  \E j \in DOMAIN trace' : trace'[j] = Entry("wire", None, Data(s)', None)
  BY DEF CopiesSent, Sent
<1>3. CASE sender[s].pc = "copy" /\ sender'[s].n = sender[s].n
  <2>1. \E j \in DOMAIN trace : trace[j] = Entry("wire", None, Data(s), None)
    BY <1>3 DEF IInv, CopiesSent, Sent
  <2>2. Data(s)' = Data(s)
    BY <1>3 DEF Data
  <2> QED
    BY <2>1, <2>2, TraceStep
<1>4. CASE Send(s)
  <2>1. trace' = Append(trace, Entry("wire", None, Data(s), None)) /\ sender'[s].n = sender[s].n
    BY <1>1, <1>2, <1>4 DEF Send, Idle, Log, Calls
  <2>2. Entry("wire", None, Data(s), None) \in Entries
    BY <1>1, <1>4, EntryTypes DEF Send
  <2>3. Data(s)' = Data(s)
    BY <2>1 DEF Data
  <2>4. /\ Len(trace) + 1 \in DOMAIN trace'
        /\ trace'[Len(trace) + 1] = Entry("wire", None, Data(s), None)
    BY <1>1, <2>1, <2>2, AppendEntry
  <2> QED
    BY <2>3, <2>4
<1>5. Send(s) \/ (sender[s].pc = "copy" /\ sender'[s].n = sender[s].n)
  <2> DEFINE Unless == Send(s) \/ (sender[s].pc = "copy" /\ sender'[s].n = sender[s].n)
  <2>1. ASSUME UNCHANGED sender PROVE Unless
    BY <1>2, <2>1
  <2>2. ASSUME NEW r \in Senders, PassThrough(r) PROVE Unless
    BY <1>1, <1>2, <2>2 DEF PassThrough, MayCall, Calls
  <2>3. ASSUME NEW r \in Senders, Intercept(r) PROVE Unless
    <3>1. sender'[r].pc # "copy"
      BY <1>1, <2>3 DEF Intercept, AfterCapture, Idle
    <3>2. \A q \in Senders : q # r => sender'[q] = sender[q]
      BY <1>1, <2>3 DEF Intercept
    <3> QED
      BY <1>2, <3>1, <3>2
  <2>4. ASSUME NEW r \in Senders, Called(r) PROVE Unless
    <3>1. CASE r # s
      <4>1. sender'[s] = sender[s]
        BY <1>1, <2>4, <3>1 DEF Called, ReportCapture, Drop, Delay, Send, Copy, ReportCopies
      <4> QED
        BY <1>2, <4>1
    <3>2. CASE Send(s)
      BY <3>2
    <3>3. CASE Copy(s)
      <4>1. sender'[s].n = sender[s].n
        BY <1>1, <3>3 DEF Copy, Calls
      <4> QED
        BY <3>3, <4>1 DEF Copy
    <3>4. CASE Drop(s) \/ ReportCopies(s)
      <4>1. sender'[s] = Idle(sender[s].n)
        BY <1>1, <3>4 DEF Drop, ReportCopies
      <4> QED
        BY <1>2, <4>1 DEF Idle
    <3>5. CASE ReportCapture(s) \/ Delay(s)
      <4>1. \E pc \in {"drop", "delay", "send"} : sender' = [sender EXCEPT ![s].pc = pc]
        BY <3>5 DEF ReportCapture, Delay, AfterCapture
      <4>2. sender'[s].pc \in {"drop", "delay", "send"}
        BY <1>1, <4>1 DEF Calls
      <4> QED
        BY <1>2, <4>2
    <3> QED
      BY <2>4, <3>1, <3>2, <3>3, <3>4, <3>5 DEF Called
  <2>5. Apply \/ UNCHANGED vars => UNCHANGED sender
    BY DEF Apply, Arm, BeginReplay, ReplayTimeout, ReplayTake, ReplaySend, ReplayEnd, vars
  <2> QED
    BY <2>1, <2>2, <2>3, <2>4, <2>5 DEF Next
<1> QED
  BY <1>3, <1>4, <1>5

LEMMA KeptStep ==
    ASSUME IInv, TypeOK', [Next]_vars, NEW id, NEW data, Kept(id, data)
    PROVE  Kept(id, data)'
<1>1. /\ sender \in [Senders -> Calls] /\ trace \in Seq(Entries)
      /\ \A s \in Senders : sender[s].pc # "idle" => Data(s) \in Datagrams
  BY CallTypes DEF IInv, TypeOK
<1>2. CASE \E j \in DOMAIN trace : trace[j] = Entry("captured", id, data, None)
  <2>1. \E j \in DOMAIN trace' : trace'[j] = Entry("captured", id, data, None)
    BY <1>2, TraceStep
  <2> QED
    BY <2>1 DEF Kept
<1>3. ASSUME NEW s \in Senders, sender[s].pc = "capture", sender[s].capture = id, Data(s) = data
      PROVE  Kept(id, data)'
  <2>1. CASE ReportCapture(s)
    <3>1. trace' = Append(trace, Entry("captured", id, data, None))
      BY <1>3, <2>1 DEF ReportCapture, Log
    <3>2. Entry("captured", id, data, None) \in Entries
      BY <1>1, <1>3, EntryTypes DEF Applied, Calls
    <3>3. /\ Len(trace) + 1 \in DOMAIN trace'
          /\ trace'[Len(trace) + 1] = Entry("captured", id, data, None)
      BY <1>1, <3>1, <3>2, AppendEntry
    <3> QED
      BY <3>3 DEF Kept
  <2>2. CASE sender'[s] = sender[s]
    <3>1. Data(s)' = Data(s)
      BY <2>2 DEF Data
    <3> QED
      BY <1>3, <2>2, <3>1 DEF Kept
  <2>3. ReportCapture(s) \/ sender'[s] = sender[s]
    <3>1. ASSUME NEW r \in Senders, PassThrough(r) \/ Intercept(r) PROVE sender'[s] = sender[s]
      <4>1. r # s
        BY <1>3, <3>1 DEF PassThrough, Intercept, MayCall
      <4> QED
        BY <1>1, <3>1, <4>1 DEF PassThrough, Intercept
    <3>2. ASSUME NEW r \in Senders, Called(r), ~ReportCapture(s) PROVE sender'[s] = sender[s]
      <4>1. r # s
        BY <1>3, <3>2 DEF Called, Drop, Delay, Send, Copy, ReportCopies
      <4> QED
        BY <1>1, <3>2, <4>1 DEF Called, ReportCapture, Drop, Delay, Send, Copy, ReportCopies
    <3>3. ASSUME Apply \/ UNCHANGED vars PROVE sender'[s] = sender[s]
      BY <3>3 DEF Apply, Arm, BeginReplay, ReplayTimeout, ReplayTake, ReplaySend, ReplayEnd, vars
    <3> QED
      BY <3>1, <3>2, <3>3 DEF Next
  <2> QED
    BY <2>1, <2>2, <2>3
<1> QED
  BY <1>2, <1>3 DEF Kept

LEMMA CapturesStep ==
    ASSUME IInv, TypeOK', [Next]_vars
    PROVE  CapturesKept'
<1>1. /\ sender \in [Senders -> Calls] /\ replay \in Replays
      /\ remaining \in [Faults -> 0..(Width - 1)] /\ actionOf \in [Faults -> Ids \cup {None}]
  BY CallTypes DEF IInv, TypeOK, Replays
<1>2. ASSUME NEW id, NEW data, id = capturedAction, data = captured, id # None PROVE Kept(id, data)'
  BY <1>2, KeptStep DEF IInv, CapturesKept
<1>3. ASSUME NEW id, NEW data, id = replay.source, data = replay.data, id # None PROVE Kept(id, data)'
  BY <1>3, KeptStep DEF IInv, CapturesKept
<1>4. ASSUME NEW id, NEW data, id = capturedAction', data = captured', id # None PROVE Kept(id, data)'
  <2>1. CASE UNCHANGED <<capturedAction, captured>>
    BY <1>2, <1>4, <2>1
  <2>2. ASSUME NEW s \in Senders, Intercept(s), ~UNCHANGED <<capturedAction, captured>> PROVE Kept(id, data)'
    <3>1. /\ remaining["capture"] > 0 /\ capturedAction' = actionOf["capture"]
          /\ captured' = [from |-> s, n |-> sender[s].n + 1]
      BY <2>2 DEF Intercept
    <3>2. "capture" \in Faults
      BY DEF Faults, Counted
    <3>3. /\ sender'[s].pc = "capture" /\ sender'[s].capture = actionOf["capture"]
          /\ sender'[s].n = sender[s].n + 1
      BY <1>1, <2>2, <3>1, <3>2 DEF Intercept, Idle
    <3>4. Data(s)' = data
      BY <1>4, <3>1, <3>3 DEF Data
    <3> QED
      BY <1>4, <3>1, <3>3, <3>4 DEF Kept
  <2>3. UNCHANGED <<capturedAction, captured>> \/ \E s \in Senders : Intercept(s)
    <3>1. Apply \/ UNCHANGED vars => UNCHANGED <<capturedAction, captured>>
      BY DEF Apply, Arm, BeginReplay, ReplayTimeout, ReplayTake, ReplaySend, ReplayEnd, lockedVars, vars
    <3>2. ASSUME NEW s \in Senders, PassThrough(s) \/ Called(s) PROVE UNCHANGED <<capturedAction, captured>>
      BY <3>2 DEF PassThrough, Called, ReportCapture, Drop, Delay, Send, Copy, ReportCopies, lockedVars
    <3> QED
      BY <3>1, <3>2 DEF Next
  <2> QED
    BY <2>1, <2>2, <2>3
<1>5. ASSUME NEW id, NEW data, id = replay'.source, data = replay'.data, id # None PROVE Kept(id, data)'
  <2>1. CASE replay'.source = replay.source /\ replay'.data = replay.data
    BY <1>3, <1>5, <2>1
  <2>2. CASE ReplayTake
    <3>1. replay'.source # None => replay'.source = capturedAction /\ replay'.data = captured
      BY <2>2 DEF ReplayTake
    <3> QED
      BY <1>2, <1>5, <3>1
  <2>3. CASE BeginReplay \/ ReplayTimeout \/ ReplayEnd
    <3>1. replay' = NoReplay \/ replay' = [NoReplay EXCEPT !.pc = "wait"]
      BY <2>3 DEF BeginReplay, ReplayTimeout, ReplayEnd
    <3>2. NoReplay.source = None /\ [NoReplay EXCEPT !.pc = "wait"].source = None
      BY DEF NoReplay
    <3>3. replay'.source = None
      BY <3>1, <3>2
    <3> QED
      BY <1>5, <3>3
  <2>4. CASE ReplaySend
    BY <1>1, <2>1, <2>4 DEF ReplaySend, Replays
  <2>5. \/ ReplayTake \/ ReplaySend \/ BeginReplay \/ ReplayTimeout \/ ReplayEnd
        \/ replay'.source = replay.source /\ replay'.data = replay.data
    BY DEF Next, Apply, Arm, PassThrough, Intercept, Called, ReportCapture, Drop, Delay, Send,
       Copy, ReportCopies, vars
  <2> QED
    BY <2>1, <2>2, <2>3, <2>4, <2>5
<1>6. capturedAction' # None => Kept(capturedAction, captured)'
  BY <1>4 DEF Kept, Data
<1>7. replay'.source # None => Kept(replay.source, replay.data)'
  BY <1>5 DEF Kept, Data
<1> QED
  BY <1>6, <1>7 DEF CapturesKept

\* The replays already in the trace, and the one a step adds.
LEMMA ReplaysStep ==
    ASSUME IInv, TypeOK', [Next]_vars
    PROVE  ReplayNamesItsSource'
<1>1. trace \in Seq(Entries)
  BY DEF IInv, TypeOK
<1>2. ASSUME NEW i \in DOMAIN trace', trace'[i].source # None
      PROVE  Kept(trace'[i].source, trace'[i].data)
  <2>1. ASSUME i \in DOMAIN trace, trace'[i] = trace[i] PROVE Kept(trace'[i].source, trace'[i].data)
    BY <1>2, <2>1 DEF IInv, ReplayNamesItsSource, Kept, Busy
  <2>2. CASE UNCHANGED trace
    BY <1>2, <2>1, <2>2
  <2>3. ASSUME NEW e \in Entries, trace' = Append(trace, e), e.source # None => Kept(e.source, e.data)
        PROVE  Kept(trace'[i].source, trace'[i].data)
    <3>1. /\ Len(trace) \in Nat /\ DOMAIN trace = 1..Len(trace) /\ DOMAIN trace' = 1..(Len(trace) + 1)
          /\ trace'[Len(trace) + 1] = e /\ \A j \in 1..Len(trace) : trace'[j] = trace[j]
      BY <1>1, <2>3, AppendEntry
    <3>2. CASE i = Len(trace) + 1
      BY <1>2, <2>3, <3>1, <3>2
    <3>3. CASE i \in 1..Len(trace)
      BY <2>1, <3>1, <3>3
    <3> QED
      BY <1>2, <3>1, <3>2, <3>3
  <2> QED
    BY <2>2, <2>3, EntryStep
<1>3. ASSUME NEW i \in DOMAIN trace', NEW id, NEW data,
             id = trace'[i].source, data = trace'[i].data, id # None
      PROVE  Kept(id, data)'
  BY <1>2, <1>3, KeptStep
<1>4. ASSUME NEW i \in DOMAIN trace', trace'[i].source # None
      PROVE  \/ \E j \in DOMAIN trace' : trace'[j] = Entry("captured", trace'[i].source, trace'[i].data, None)
             \/ \E s \in Senders : /\ sender'[s].pc = "capture"
                                   /\ sender'[s].capture = trace'[i].source
                                   /\ Data(s)' = trace'[i].data
  BY <1>3, <1>4 DEF Kept
<1> QED
  BY <1>4 DEF ReplayNamesItsSource, Busy

-----------------------------------------------------------------------------
(* The theorems.                                                           *)

LEMMA StepInvariant == ASSUME IInv, [Next]_vars PROVE IInv'
<1>1. TypeOK' /\ Calling'
  BY TypeStep DEF IInv
<1>2. CopiesSent' /\ CapturesKept' /\ ReplayNamesItsSource'
  BY <1>1, CopiesStep, CapturesStep, ReplaysStep
<1>3. DuplicatesFollowOriginal'
  BY TraceStep
<1> QED
  BY <1>1, <1>2, <1>3 DEF IInv

\* The inductive invariant holds in every state of every process that loads
\* the shim, whatever threads send through Controller::send.
THEOREM Invariant == Spec => []IInv
<1>1. Init => IInv
  BY InitInvariant
<1>2. IInv /\ [Next]_vars => IInv'
  BY StepInvariant
<1> QED
  BY <1>1, <1>2, PTL DEF Spec

\* The counters, ids and datagrams of the controller keep their types: no
\* counter leaves its width, and no call runs with a datagram that was not sent.
THEOREM TypeCorrect == Spec => []TypeOK
<1>1. IInv => TypeOK
  BY DEF IInv
<1> QED
  BY <1>1, Invariant, PTL

\* A duplicated event, and every copy on the wire, comes after the datagram
\* itself, also when the real sendto fails and other threads send in between.
THEOREM CopiesFollow == Spec => []DuplicatesFollowOriginal
<1>1. IInv => DuplicatesFollowOriginal
  BY DEF IInv
<1> QED
  BY <1>1, Invariant, PTL

\* The source a replay names is the capture that kept the bytes it resends,
\* whatever is captured while the replay waits or sends.
THEOREM SourceTruthful == Spec => []ReplayNamesItsSource
<1>1. IInv => ReplayNamesItsSource
  BY DEF IInv
<1> QED
  BY <1>1, Invariant, PTL

-----------------------------------------------------------------------------
(* The requests of an armed fault.                                          *)

\* What FaultsAccounted counts of a fault.
Kind(f) == IF f = "drop" THEN "dropped" ELSE "captured"
Reports(f) == {i \in DOMAIN trace : trace[i].kind = Kind(f)}
Due(f) == {s \in Busy : IF f = "drop" THEN /\ sender[s].pc \in {"capture", "drop"}
                                           /\ sender[s].drop # None
                        ELSE sender[s].pc = "capture"}
Accounted(f) ==
    (Cardinality(Reports(f)) + Cardinality(Due(f)) + remaining[f]) % Width = Requested(f) % Width

\* Finitely many threads are in a call; an armed fault has an action, and so has
\* a datagram that is dropped.
Attributed ==
    /\ IsFiniteSet(Busy)
    /\ \A f \in {"drop", "capture"} : remaining[f] > 0 => actionOf[f] # None
    /\ \A s \in Senders : sender[s].pc = "drop" => sender[s].drop # None

AccountInv == Attributed /\ \A f \in {"drop", "capture"} : Accounted(f)

\* Quotient and remainder.
LEMMA DivMod ==
    ASSUME NEW W \in Nat \ {0}, NEW z \in Int
    PROVE  z \div W \in Int /\ z % W \in 0..(W - 1) /\ z = W * (z \div W) + (z % W)
OBVIOUS

\* Less than one multiple apart is no multiple apart.
LEMMA Multiple ==
    ASSUME NEW W \in Nat \ {0}, NEW k \in Int, W * k < W, 0 - W < W * k
    PROVE  k = 0
<1>1. k >= 1 => W * k >= W
  OBVIOUS
<1>2. k <= 0 - 1 => W * k <= 0 - W
  OBVIOUS
<1> QED
  BY <1>1, <1>2

\* There is one remainder.
LEMMA ModUnique ==
    ASSUME NEW W \in Nat \ {0}, NEW k \in Int, NEW q \in Int, NEW r \in 0..(W - 1), NEW t \in 0..(W - 1),
           W * k + r = W * q + t
    PROVE  r = t
<1>1. W * (k - q) = t - r
  <2>1. W * (k - q) = W * k - W * q
    OBVIOUS
  <2>2. W * k \in Int /\ W * q \in Int
    OBVIOUS
  <2> QED
    BY <2>1, <2>2
<1>2. k - q = 0
  BY <1>1, Multiple
<1>3. k = q
  BY <1>2
<1> QED
  BY <1>3

\* A summand may be replaced by its remainder.
LEMMA AddMod ==
    ASSUME NEW W \in Nat \ {0}, NEW x \in Int, NEW y \in Int
    PROVE  (x + (y % W)) % W = (x + y) % W
<1> DEFINE q == y \div W
           r == y % W
           k == (x + r) \div W
           t == (x + r) % W
           l == (x + y) \div W
           u == (x + y) % W
<1>1. q \in Int /\ r \in 0..(W - 1) /\ y = W * q + r
  BY DivMod
<1>2. x + r \in Int /\ x + y \in Int
  BY <1>1
<1>3. k \in Int /\ t \in 0..(W - 1) /\ x + r = W * k + t
  BY <1>2, DivMod
<1>4. l \in Int /\ u \in 0..(W - 1) /\ x + y = W * l + u
  BY <1>2, DivMod
<1> HIDE DEF q, r, k, t, l, u
<1>5. W * (k + q) = W * k + W * q
  BY <1>1, <1>3
<1>6. W * (k + q) + t = W * l + u
  <2>1. W * k \in Int /\ W * q \in Int /\ W * l \in Int
    BY <1>1, <1>3, <1>4
  <2> HIDE DEF q, r
  <2> QED
    BY <1>1, <1>3, <1>4, <1>5, <2>1
<1>7. t = u
  <2>1. k + q \in Int
    BY <1>1, <1>3
  <2> QED
    BY <1>3, <1>4, <1>6, <2>1, ModUnique
<1> QED
  BY <1>7 DEF t, u, r

\* Counters modulo Width are congruences.
LEMMA Congruent ==
    ASSUME NEW W \in Nat \ {0}, NEW a \in Int, NEW b \in Int, NEW c \in Int, a % W = b % W
    PROVE  (a + c) % W = (b + c) % W
<1>1. \A x, y \in Int : (x + (y % W)) % W = (x + y) % W
  BY AddMod
<1>2. (c + (a % W)) % W = (c + a) % W /\ (c + (b % W)) % W = (c + b) % W
  BY <1>1
<1>3. a + c = c + a /\ b + c = c + b
  OBVIOUS
<1> QED
  BY <1>2, <1>3

\* An entry appended to the trace is one report more of its kind.
LEMMA ReportsStep ==
    ASSUME trace \in Seq(Entries), NEW f
    PROVE  /\ IsFiniteSet(Reports(f)) /\ Cardinality(Reports(f)) \in Nat
           /\ \A e \in Entries : trace' = Append(trace, e) =>
                Cardinality(Reports(f)') =
                    IF e.kind = Kind(f) THEN Cardinality(Reports(f)) + 1 ELSE Cardinality(Reports(f))
<1>1. IsFiniteSet(Reports(f)) /\ Cardinality(Reports(f)) \in Nat /\ Reports(f) \subseteq 1..Len(trace)
  <2>1. Reports(f) \subseteq 1..Len(trace) /\ Len(trace) \in Nat
    BY DEF Reports
  <2>2. IsFiniteSet(1..Len(trace))
    BY <2>1, FS_Interval
  <2>3. IsFiniteSet(Reports(f))
    BY <2>1, <2>2, FS_Subset
  <2> QED
    BY <2>1, <2>3, FS_CardinalityType
<1>2. ASSUME NEW e \in Entries, trace' = Append(trace, e)
      PROVE  Cardinality(Reports(f)') =
                IF e.kind = Kind(f) THEN Cardinality(Reports(f)) + 1 ELSE Cardinality(Reports(f))
  <2>1. /\ Len(trace) \in Nat /\ DOMAIN trace = 1..Len(trace) /\ DOMAIN trace' = 1..(Len(trace) + 1)
        /\ trace'[Len(trace) + 1] = e /\ \A i \in 1..Len(trace) : trace'[i] = trace[i]
    BY <1>2, AppendEntry
  <2>2. CASE e.kind = Kind(f)
    <3>1. Reports(f)' = Reports(f) \cup {Len(trace) + 1}
      BY <2>1, <2>2 DEF Reports, Kind
    <3>2. Len(trace) + 1 \notin Reports(f)
      BY <1>1, <2>1
    <3> QED
      BY <1>1, <2>2, <3>1, <3>2, FS_AddElement
  <2>3. CASE e.kind # Kind(f)
    <3>1. Reports(f)' = Reports(f)
      BY <2>1, <2>3 DEF Reports, Kind
    <3> QED
      BY <2>3, <3>1
  <2> QED
    BY <2>2, <2>3
<1> QED
  BY <1>1, <1>2

\* A step past an action of the fault asks for its count.
LEMMA RequestedStep ==
    ASSUME TypeOK, config' = config, NEW f
    PROVE  /\ Requested(f) \in Int
           /\ next' = next => Requested(f)' = Requested(f)
           /\ next \in Ids /\ next' = next + 1 =>
                Requested(f)' = Requested(f) + (IF Plan[next].op = f THEN Plan[next].count ELSE 0)
<1> DEFINE counts == [i \in Ids |-> Plan[i].count]
           S(n) == {i \in Ids : i < n /\ Plan[i].op = f}
<1>1. /\ Ids = 1..Len(Plan) /\ Len(Plan) \in Nat /\ Ids \subseteq Nat
      /\ \A i \in Ids : Plan[i].count \in 1..(Width - 1)
  BY PlanFacts DEF TypeOK, Ids
<1>2. \A i \in Ids : counts[i] = Plan[i].count /\ counts[i] \in Int
  BY <1>1, Numbers
<1>3. Plan' = Plan /\ Ids' = Ids
  BY DEF Plan, Ids
<1>4. Requested(f) = SumFunctionOnSet(counts, S(next)) /\ Requested(f)' = SumFunctionOnSet(counts, S(next'))
  BY <1>3 DEF Requested
<1>5. ASSUME NEW n PROVE IsFiniteSet(S(n))
  <2>1. IsFiniteSet(Ids)
    BY <1>1, FS_Interval
  <2> QED
    BY <2>1, FS_Subset
<1> HIDE DEF counts
<1>6. Requested(f) \in Int
  BY <1>2, <1>4, <1>5, SumType
<1>7. next' = next => Requested(f)' = Requested(f)
  BY <1>4
<1>8. ASSUME next \in Ids, next' = next + 1, Plan[next].op = f
      PROVE  Requested(f)' = Requested(f) + Plan[next].count
  <2>1. next \in S(next') /\ S(next') \ {next} = S(next)
    BY <1>1, <1>8
  <2> HIDE DEF S
  <2>2. SumFunctionOnSet(counts, S(next')) = counts[next] + SumFunctionOnSet(counts, S(next') \ {next})
    <3>1. \A i \in S(next') : counts[i] \in Int
      BY <1>2 DEF S
    <3> QED
      BY <1>5, <2>1, <3>1, SumRemove
  <2>3. Requested(f)' = Plan[next].count + Requested(f)
    BY <1>2, <1>4, <1>8, <2>1, <2>2
  <2>4. Plan[next].count \in Int
    BY <1>1, <1>8, Numbers
  <2> QED
    BY <1>6, <2>3, <2>4
<1>9. ASSUME next \in Ids, next' = next + 1, Plan[next].op # f
      PROVE  Requested(f)' = Requested(f) + 0
  <2>1. S(next') = S(next)
    BY <1>1, <1>9
  <2> HIDE DEF S
  <2> QED
    BY <1>4, <1>6, <2>1
<1> QED
  BY <1>6, <1>7, <1>8, <1>9

\* Which calls a step of a thread leaves due.
LEMMA DueStep ==
    ASSUME TypeOK, Attributed, NEW f \in {"drop", "capture"}, NEW s \in Senders,
           \A r \in Senders : r # s => sender'[r] = sender[r]
    PROVE  /\ IsFiniteSet(Busy') /\ IsFiniteSet(Due(f)) /\ Cardinality(Due(f)) \in Nat
           /\ (s \in Due(f) <=> s \in Due(f)') => Cardinality(Due(f)') = Cardinality(Due(f))
           /\ s \in Due(f) /\ s \notin Due(f)' => Cardinality(Due(f)') = Cardinality(Due(f)) - 1
           /\ s \notin Due(f) /\ s \in Due(f)' => Cardinality(Due(f)') = Cardinality(Due(f)) + 1
<1>1. IsFiniteSet(Busy')
  <2>1. IsFiniteSet(Busy \cup {s})
    BY FS_AddElement DEF Attributed
  <2>2. Busy' \subseteq Busy \cup {s}
    BY DEF Busy
  <2> QED
    BY <2>1, <2>2, FS_Subset
<1>2. Due(f) \ {s} = Due(f)' \ {s}
  BY DEF Due, Busy
<1>3. IsFiniteSet(Due(f)) /\ IsFiniteSet(Due(f)')
  <2>1. Due(f) \subseteq Busy /\ Due(f)' \subseteq Busy'
    BY DEF Due
  <2> QED
    BY <1>1, <2>1, FS_Subset DEF Attributed
<1>4. Cardinality(Due(f)) \in Nat /\ Cardinality(Due(f)') \in Nat
  BY <1>3, FS_CardinalityType
<1>5. (s \in Due(f) <=> s \in Due(f)') => Due(f)' = Due(f)
  BY <1>2
<1>6. s \in Due(f) /\ s \notin Due(f)' => Cardinality(Due(f)') = Cardinality(Due(f)) - 1
  <2>1. s \in Due(f) /\ s \notin Due(f)' => Due(f)' = Due(f) \ {s}
    BY <1>2
  <2>2. s \in Due(f) => Cardinality(Due(f) \ {s}) = Cardinality(Due(f)) - 1
    BY <1>3, FS_RemoveElement
  <2> QED
    BY <2>1, <2>2
<1>7. s \notin Due(f) /\ s \in Due(f)' => Cardinality(Due(f)') = Cardinality(Due(f)) + 1
  <2>1. s \notin Due(f) /\ s \in Due(f)' => Due(f)' = Due(f) \cup {s}
    BY <1>2
  <2>2. s \notin Due(f) => Cardinality(Due(f) \cup {s}) = Cardinality(Due(f)) + 1
    BY <1>3, FS_AddElement
  <2> QED
    BY <2>1, <2>2
<1> QED
  BY <1>1, <1>3, <1>4, <1>5, <1>6, <1>7

\* A step of the thread that applies the plan: it arms what it asks for.
LEMMA ApplyAccounts ==
    ASSUME IInv, AccountInv, Apply, NEW f \in {"drop", "capture"}
    PROVE  Attributed' /\ Accounted(f)'
<1>1. /\ TypeOK /\ Attributed /\ Accounted(f) /\ sender' = sender /\ config' = config
      /\ trace \in Seq(Entries) /\ Width \in Nat \ {0} /\ Plan' = Plan
  BY TransportAssumption
  DEF IInv, TypeOK, AccountInv, Apply, Arm, BeginReplay, ReplayTimeout, ReplayTake, ReplaySend, ReplayEnd, Plan
<1>2. Busy' = Busy /\ Due(f)' = Due(f)
  BY <1>1 DEF Busy, Due
<1>3. IsFiniteSet(Due(f)) /\ Cardinality(Due(f)) \in Nat
  <2>1. Due(f) \subseteq Busy /\ IsFiniteSet(Busy)
    BY <1>1 DEF Due, Attributed
  <2> QED
    BY <2>1, FS_Subset, FS_CardinalityType
<1>4. Cardinality(Reports(f)) \in Nat /\ remaining[f] \in Nat /\ Requested(f) \in Int
  BY <1>1, ReportsStep, RequestedStep DEF TypeOK, Faults, Counted
<1>5. Cardinality(Reports(f)') = Cardinality(Reports(f))
  <2>1. \/ UNCHANGED trace
        \/ \E e \in Entries : trace' = Append(trace, e) /\ e.kind \notin {"dropped", "captured"}
    <3>1. next \in 1..(Len(Plan) + 1) /\ replay \in Replays /\ Nothing \in Datagrams \cup {Nothing}
      BY <1>1 DEF TypeOK, Replays
    <3>2. /\ replay.data \in Datagrams \cup {Nothing} /\ replay.source \in Ids \cup {None}
          /\ None \in Ids \cup {None}
      BY <3>1 DEF Replays
    <3>3. ReplaySend \/ ReplayEnd \/ ReplayTimeout \/ Arm \/ BeginReplay => next \in Ids
      BY DEF IInv, Calling, ReplaySend, ReplayEnd, ReplayTimeout, Arm, BeginReplay, Ready
    <3>4. Arm \/ BeginReplay \/ ReplayTimeout => \E kind \in {"armed", "replay failed"} :
              trace' = Append(trace, Entry(kind, next, Nothing, None))
      BY DEF Arm, BeginReplay, ReplayTimeout, Log
    <3>5. ReplaySend \/ ReplayEnd => \/ UNCHANGED trace
              \/ \E kind \in {"wire", "replayed", "replay failed"} :
                    trace' = Append(trace, Entry(kind, next, replay.data, replay.source))
      BY DEF ReplaySend, ReplayEnd
    <3>6. ReplayTake => UNCHANGED trace
      BY DEF ReplayTake
    <3>7. \A kind \in {"armed", "wire", "replayed", "replay failed"}, id \in Ids,
             data \in Datagrams \cup {Nothing}, source \in Ids \cup {None} :
             /\ Entry(kind, id, data, source) \in Entries
             /\ Entry(kind, id, data, source).kind \notin {"dropped", "captured"}
      BY EntryTypes DEF Entry, Applied
    <3> QED
      BY <3>2, <3>3, <3>4, <3>5, <3>6, <3>7 DEF Apply
  <2>2. UNCHANGED trace => Reports(f)' = Reports(f)
    BY DEF Reports, Kind
  <2>3. ASSUME NEW e \in Entries, trace' = Append(trace, e), e.kind \notin {"dropped", "captured"}
        PROVE  Cardinality(Reports(f)') = Cardinality(Reports(f))
    <3>1. e.kind # Kind(f)
      BY <2>3 DEF Kind
    <3> QED
      BY <1>1, <2>3, <3>1, ReportsStep
  <2> QED
    BY <2>1, <2>2, <2>3
<1>6. CASE Arm
  <2> DEFINE a == Plan[next]
  <2>1. /\ next \in Ids /\ next' = next + 1 /\ a.op \in Faults /\ next # None /\ None = 0
        /\ remaining' = [remaining EXCEPT ![a.op] = IF a.op = "delay" THEN 1 ELSE (@ + a.count) % Width]
        /\ actionOf' = [actionOf EXCEPT ![a.op] = next] /\ a.count \in Int
    <3>1. next \in Ids
      BY <1>6 DEF Arm, Ready
    <3> QED
      BY <1>1, <1>6, <3>1, PlanFacts, Numbers DEF Arm, TypeOK, None
  <2>2. remaining \in [Faults -> 0..(Width - 1)] /\ actionOf \in [Faults -> Ids \cup {None}] /\ f \in Faults
    BY <1>1 DEF TypeOK, Faults, Counted
  <2> HIDE DEF a
  <2>3. Attributed'
    <3>1. ASSUME NEW g \in {"drop", "capture"}, remaining'[g] > 0 PROVE actionOf'[g] # None
      BY <1>1, <2>1, <2>2, <3>1 DEF Attributed, Faults, Counted
    <3> QED
      BY <1>1, <1>2, <3>1 DEF Attributed
  <2> DEFINE n == Cardinality(Reports(f)) + Cardinality(Due(f))
  <2>4. n \in Int
    BY <1>3, <1>4
  <2>5. CASE a.op = f
    <3>1. remaining'[f] = (remaining[f] + a.count) % Width /\ Requested(f)' = Requested(f) + a.count
      BY <1>1, <2>1, <2>2, <2>5, RequestedStep DEF a
    <3>2. (n + remaining[f]) % Width = Requested(f) % Width
      BY <1>1 DEF Accounted
    <3> HIDE DEF n
    <3>3. (n + remaining'[f]) % Width = (n + (remaining[f] + a.count)) % Width
      <4> DEFINE sum == remaining[f] + a.count
      <4>1. sum \in Int
        BY <1>4, <2>1
      <4> HIDE DEF sum
      <4>2. (n + (sum % Width)) % Width = (n + sum) % Width
        BY <1>1, <2>4, <4>1, AddMod
      <4> QED
        BY <3>1, <4>2 DEF sum
    <3>4. n + (remaining[f] + a.count) = (n + remaining[f]) + a.count /\ n + remaining[f] \in Int
      BY <1>4, <2>1, <2>4
    <3>5. ((n + remaining[f]) + a.count) % Width = (Requested(f) + a.count) % Width
      BY <1>1, <1>4, <2>1, <3>2, <3>4, Congruent
    <3>6. (n + remaining'[f]) % Width = Requested(f)' % Width
      BY <3>1, <3>3, <3>4, <3>5
    <3> QED
      BY <1>2, <1>5, <2>3, <3>6 DEF Accounted, n
  <2>6. CASE a.op # f
    <3>1. remaining'[f] = remaining[f] /\ Requested(f)' = Requested(f)
      <4>1. Requested(f)' = Requested(f) + 0
        BY <1>1, <2>1, <2>6, RequestedStep DEF a
      <4> QED
        BY <1>4, <2>1, <2>2, <2>6, <4>1
    <3> QED
      BY <1>1, <1>2, <1>5, <2>3, <3>1 DEF Accounted
  <2> QED
    BY <2>5, <2>6
<1>7. CASE ~Arm
  <2>1. UNCHANGED <<remaining, actionOf>>
    BY <1>7 DEF Apply, BeginReplay, ReplayTimeout, ReplayTake, ReplaySend, ReplayEnd, lockedVars
  <2>2. Requested(f)' = Requested(f)
    <3>1. \/ next' = next
          \/ next \in Ids /\ next' = next + 1 /\ Plan[next].op = "replay"
      BY <1>7 DEF IInv, Calling, Apply, BeginReplay, ReplayTimeout, ReplayTake, ReplaySend, ReplayEnd
    <3>2. next \in Ids /\ next' = next + 1 /\ Plan[next].op = "replay"
              => Requested(f)' = Requested(f) + 0
      BY <1>1, RequestedStep
    <3> QED
      BY <1>1, <1>4, <3>1, <3>2, RequestedStep
  <2>3. Attributed'
    BY <1>1, <1>2, <2>1 DEF Attributed
  <2> QED
    BY <1>1, <1>2, <1>5, <2>1, <2>2, <2>3 DEF Accounted
<1> QED
  BY <1>6, <1>7

\* A step of a call after the mutex: what it reports is no longer due.
LEMMA CallAccounts ==
    ASSUME IInv, AccountInv, NEW s \in Senders, PassThrough(s) \/ Called(s), config' = config,
           NEW f \in {"drop", "capture"}
    PROVE  Attributed' /\ Accounted(f)'
<1>1. /\ TypeOK /\ Attributed /\ Accounted(f) /\ trace \in Seq(Entries)
      /\ sender \in [Senders -> Calls] /\ UNCHANGED <<next, remaining, actionOf>>
      /\ \A r \in Senders : sender[r].pc # "idle" => Data(r) \in Datagrams
  BY CallTypes
  DEF IInv, TypeOK, AccountInv, PassThrough, Called, ReportCapture, Drop, Delay, Send, Copy, ReportCopies,
      lockedVars
<1>2. \A r \in Senders : r # s => sender'[r] = sender[r]
  BY <1>1 DEF PassThrough, Called, ReportCapture, Drop, Delay, Send, Copy, ReportCopies
<1>3. Requested(f)' = Requested(f) /\ Requested(f) \in Int
  BY <1>1, RequestedStep
<1>4. Cardinality(Reports(f)) \in Nat /\ Cardinality(Due(f)) \in Nat /\ IsFiniteSet(Busy')
  BY <1>1, <1>2, ReportsStep, DueStep
<1> DEFINE settled == /\ s \in Due(f) <=> s \in Due(f)'
                      /\ Cardinality(Reports(f)') = Cardinality(Reports(f))
           reported == /\ s \in Due(f) /\ s \notin Due(f)'
                       /\ Cardinality(Reports(f)') = Cardinality(Reports(f)) + 1
<1>5. UNCHANGED trace => Reports(f)' = Reports(f)
  BY DEF Reports, Kind
<1>6. ASSUME NEW kind \in Applied \cup {"wire"}, NEW id \in Ids \cup {None}, NEW data \in Datagrams,
             Log(kind, id, data)
      PROVE  Cardinality(Reports(f)') =
                IF kind = Kind(f) THEN Cardinality(Reports(f)) + 1 ELSE Cardinality(Reports(f))
  <2>1. Entry(kind, id, data, None) \in Entries /\ Entry(kind, id, data, None).kind = kind
    BY EntryTypes DEF Entry
  <2> QED
    BY <1>1, <1>6, <2>1, ReportsStep DEF Log
<1>7. sender[s] \in Calls /\ None \in Ids \cup {None}
  BY <1>1
<1>8. ASSUME PassThrough(s) PROVE settled \/ reported
  <2>1. [from |-> s, n |-> sender[s].n + 1] \in Datagrams
    BY <1>7, <1>8, Numbers DEF PassThrough, MayCall, Calls, Datagrams
  <2>2. Cardinality(Reports(f)') = Cardinality(Reports(f))
    BY <1>6, <1>7, <1>8, <2>1 DEF PassThrough, Kind
  <2>3. sender[s].pc = "idle" /\ sender'[s].pc = "idle"
    BY <1>1, <1>8 DEF PassThrough, MayCall
  <2> QED
    BY <2>2, <2>3 DEF Due, Busy
<1>9. ASSUME ReportCapture(s) PROVE settled \/ reported
  <2>1. Log("captured", sender[s].capture, Data(s)) /\ sender[s].pc = "capture" /\ Data(s) \in Datagrams
    BY <1>1, <1>9 DEF ReportCapture
  <2>2. Cardinality(Reports(f)') =
            IF f = "capture" THEN Cardinality(Reports(f)) + 1 ELSE Cardinality(Reports(f))
    BY <1>6, <1>7, <2>1 DEF Kind, Applied, Calls
  <2>3. /\ sender'[s].pc \in {"drop", "delay", "send"} /\ sender'[s].drop = sender[s].drop
        /\ sender'[s].pc = "drop" <=> sender[s].drop # None
    BY <1>1, <1>9 DEF ReportCapture, AfterCapture
  <2> QED
    BY <2>1, <2>2, <2>3 DEF Due, Busy
<1>10. ASSUME Drop(s) PROVE settled \/ reported
  <2>1. Log("dropped", sender[s].drop, Data(s)) /\ sender[s].pc = "drop" /\ Data(s) \in Datagrams
        /\ sender[s].drop # None
    BY <1>1, <1>10 DEF Drop, Attributed
  <2>2. Cardinality(Reports(f)') =
            IF f = "drop" THEN Cardinality(Reports(f)) + 1 ELSE Cardinality(Reports(f))
    BY <1>6, <1>7, <2>1 DEF Kind, Applied, Calls
  <2>3. sender'[s].pc = "idle"
    BY <1>1, <1>10 DEF Drop, Idle
  <2> QED
    BY <2>1, <2>2, <2>3 DEF Due, Busy
<1>11. ASSUME Delay(s) \/ Send(s) \/ Copy(s) \/ ReportCopies(s) PROVE settled \/ reported
  <2>1. sender[s].pc \in {"delay", "send", "copy"} /\ Data(s) \in Datagrams
    BY <1>1, <1>11 DEF Delay, Send, Copy, ReportCopies
  <2>2. \/ UNCHANGED trace
        \/ \E kind \in {"delayed", "wire", "duplicated"}, id \in Ids \cup {None} : Log(kind, id, Data(s))
    BY <1>7, <1>11 DEF Delay, Send, Copy, ReportCopies, Calls
  <2>3. Cardinality(Reports(f)') = Cardinality(Reports(f))
    BY <1>5, <1>6, <2>1, <2>2 DEF Kind, Applied
  <2>4. sender'[s].pc \in {"idle", "send", "copy"}
    <3>1. sender[s] \in Calls /\ sender \in [Senders -> Calls]
      BY <1>1
    <3>2. Delay(s) => sender'[s].pc = "send"
      BY <3>1 DEF Delay, Calls
    <3>3. Send(s) => sender'[s].pc \in {"idle", "copy"}
      BY <3>1 DEF Send, Calls, Idle
    <3>4. Copy(s) => sender'[s].pc = "copy"
      BY <3>1 DEF Copy, Calls
    <3>5. ReportCopies(s) => sender'[s].pc = "idle"
      BY <3>1 DEF ReportCopies, Idle
    <3> QED
      BY <1>11, <3>2, <3>3, <3>4, <3>5
  <2>5. s \notin Due(f)
    BY <2>1 DEF Due
  <2>6. s \notin Due(f)'
    BY <2>4 DEF Due, Busy
  <2> QED
    BY <2>3, <2>5, <2>6
<1>12. settled \/ reported
  BY <1>8, <1>9, <1>10, <1>11 DEF Called
<1>13. Cardinality(Reports(f)') + Cardinality(Due(f)') = Cardinality(Reports(f)) + Cardinality(Due(f))
  <2>1. settled => Cardinality(Due(f)') = Cardinality(Due(f))
    BY <1>1, <1>2, DueStep
  <2>2. reported => Cardinality(Due(f)') = Cardinality(Due(f)) - 1
    BY <1>1, <1>2, DueStep
  <2> QED
    BY <1>4, <1>12, <2>1, <2>2
<1>14. Attributed'
  <2>1. sender'[s].pc = "drop" => sender'[s].drop # None
    <3>1. sender[s] \in Calls /\ sender \in [Senders -> Calls]
      BY <1>1
    <3>2. PassThrough(s) => sender'[s].pc = "idle"
      BY <3>1 DEF PassThrough, MayCall, Calls
    <3>3. ReportCapture(s) => sender'[s].pc = AfterCapture(sender[s]) /\ sender'[s].drop = sender[s].drop
      BY <3>1 DEF ReportCapture, Calls
    <3>4. Drop(s) \/ ReportCopies(s) => sender'[s].pc = "idle"
      BY <3>1 DEF Drop, ReportCopies, Idle
    <3>5. Delay(s) \/ Send(s) \/ Copy(s) => sender'[s].pc # "drop"
      BY <3>1 DEF Delay, Send, Copy, Idle, Calls
    <3> QED
      BY <3>2, <3>3, <3>4, <3>5 DEF Called, AfterCapture
  <2> QED
    BY <1>1, <1>2, <1>4, <2>1 DEF Attributed
<1> QED
  BY <1>1, <1>3, <1>13, <1>14 DEF Accounted

\* The part under the mutex: a counter goes down for a report that is then due.
LEMMA InterceptAccounts ==
    ASSUME IInv, AccountInv, NEW s \in Senders, Intercept(s), config' = config,
           NEW f \in {"drop", "capture"}
    PROVE  Attributed' /\ Accounted(f)'
<1>1. /\ TypeOK /\ Attributed /\ Accounted(f) /\ trace \in Seq(Entries)
      /\ sender \in [Senders -> Calls] /\ remaining \in [Faults -> 0..(Width - 1)]
      /\ UNCHANGED <<next, trace, actionOf>>
  BY CallTypes DEF IInv, TypeOK, AccountInv, Intercept
<1>2. \A r \in Senders : r # s => sender'[r] = sender[r]
  BY <1>1 DEF Intercept
<1>3. Requested(f)' = Requested(f) /\ Requested(f) \in Int
  BY <1>1, RequestedStep
<1>4. Cardinality(Reports(f)) \in Nat /\ Cardinality(Due(f)) \in Nat /\ IsFiniteSet(Busy')
  BY <1>1, <1>2, ReportsStep, DueStep
<1>5. Reports(f)' = Reports(f)
  BY <1>1 DEF Reports, Kind
<1>6. /\ sender[s].pc = "idle"
      /\ sender'[s].pc \in {"capture", "drop", "delay", "send"}
      /\ sender'[s].pc = "capture" <=> remaining["capture"] > 0
      /\ sender'[s].drop # None <=> remaining["drop"] > 0
      /\ sender'[s].pc = "drop" => sender'[s].drop # None
      /\ remaining["capture"] = 0 /\ sender'[s].drop # None => sender'[s].pc = "drop"
  <2> DEFINE Hits(g) == remaining[g] > 0 /\ (g \in {"delay", "duplicate"} => remaining["drop"] = 0)
             Id(g) == IF Hits(g) THEN actionOf[g] ELSE None
             call == [Idle(sender[s].n + 1) EXCEPT
                      !.capture = Id("capture"), !.drop = Id("drop"),
                      !.delay = Id("delay"), !.duplicate = Id("duplicate"),
                      !.left = IF Hits("duplicate") THEN remaining["duplicate"] ELSE 0]
  <2>1. sender'[s] = [call EXCEPT !.pc = IF Hits("capture") THEN "capture" ELSE AfterCapture(call)]
    BY <1>1 DEF Intercept
  <2>2. /\ call.drop = IF remaining["drop"] > 0 THEN actionOf["drop"] ELSE None
        /\ sender'[s].drop = call.drop
        /\ sender'[s].pc = IF remaining["capture"] > 0 THEN "capture" ELSE AfterCapture(call)
    BY <2>1 DEF Idle
  <2>3. /\ AfterCapture(call) \in {"drop", "delay", "send"}
        /\ AfterCapture(call) = "drop" <=> call.drop # None
    BY DEF AfterCapture
  <2>4. remaining["drop"] > 0 => actionOf["drop"] # None
    BY <1>1 DEF Attributed
  <2>5. remaining["capture"] \in Nat
    BY <1>1 DEF Faults, Counted
  <2>6. sender[s].pc = "idle"
    BY DEF Intercept, MayCall
  <2> HIDE DEF call
  <2> QED
    BY <2>2, <2>3, <2>4, <2>5, <2>6
<1>7. \A g \in {"drop", "capture"} : remaining'[g] = IF remaining[g] > 0 THEN remaining[g] - 1 ELSE remaining[g]
  BY <1>1 DEF Intercept, Faults, Counted
<1>8. \A g \in {"drop", "capture"} : remaining[g] \in Nat
  BY <1>1 DEF Faults, Counted
<1>9. s \notin Due(f) /\ (s \in Due(f)' <=> remaining[f] > 0)
  BY <1>6, <1>8 DEF Due, Busy
<1>10. Cardinality(Due(f)') = IF remaining[f] > 0 THEN Cardinality(Due(f)) + 1 ELSE Cardinality(Due(f))
  BY <1>1, <1>2, <1>9, DueStep
<1>11. Cardinality(Due(f)') + remaining'[f] = Cardinality(Due(f)) + remaining[f]
  BY <1>4, <1>7, <1>8, <1>10
<1>12. Attributed'
  <2>1. \A g \in {"drop", "capture"} : remaining'[g] > 0 => actionOf'[g] # None
    BY <1>1, <1>7, <1>8 DEF Attributed
  <2>2. \A r \in Senders : sender'[r].pc = "drop" => sender'[r].drop # None
    BY <1>1, <1>2, <1>6 DEF Attributed
  <2> QED
    BY <1>4, <2>1, <2>2 DEF Attributed
<1>13. Cardinality(Reports(f)') + Cardinality(Due(f)') + remaining'[f]
          = Cardinality(Reports(f)) + Cardinality(Due(f)) + remaining[f]
  <2>1. Cardinality(Due(f)') \in Int /\ remaining'[f] \in Int /\ remaining[f] \in Int
    BY <1>4, <1>7, <1>8, <1>10
  <2> QED
    BY <1>4, <1>5, <1>11, <2>1
<1> QED
  BY <1>1, <1>3, <1>12, <1>13 DEF Accounted

\* No request for a drop or a capture is lost or served twice, for any number of
\* threads, plans of any length and counters of any width.
THEOREM RequestsAccounted == Spec => []FaultsAccounted
<1>1. Init => AccountInv
  <2> SUFFICES ASSUME Init PROVE AccountInv
    OBVIOUS
  <2>1. /\ trace = <<>> /\ \A s \in Senders : sender[s].pc = "idle"
        /\ \A f \in {"drop", "capture"} : remaining[f] = 0
    BY DEF Init, Idle, Faults, Counted
  <2>2. Busy = {}
    BY <2>1 DEF Busy
  <2>3. Attributed
    BY <2>1, <2>2, FS_EmptySet DEF Attributed
  <2>4. ASSUME NEW f \in {"drop", "capture"} PROVE Accounted(f)
    <3>1. Reports(f) = {} /\ Due(f) = {}
      BY <2>1, <2>2 DEF Reports, Due
    <3>2. Cardinality(Reports(f)) = 0 /\ Cardinality(Due(f)) = 0
      BY <3>1, FS_EmptySet
    <3>3. {i \in Ids : i < next /\ Plan[i].op = f} = {}
      <4>1. next = 1 /\ Ids = 1..Len(Plan) /\ Len(Plan) \in Nat
        BY PlanFacts DEF Init, Ids
      <4> QED
        BY <4>1
    <3>4. Requested(f) = 0
      BY <3>3, FS_EmptySet, SumUnfold DEF Requested
    <3> QED
      BY <2>1, <3>2, <3>4 DEF Accounted
  <2> QED
    BY <2>3, <2>4 DEF AccountInv
<1>2. IInv /\ AccountInv /\ [Next]_vars => AccountInv'
  <2> SUFFICES ASSUME IInv, AccountInv, [Next]_vars PROVE AccountInv'
    OBVIOUS
  <2>1. config' = config
    BY PlanKept
  <2>2. CASE Apply
    BY <2>2, ApplyAccounts DEF AccountInv
  <2>3. ASSUME NEW s \in Senders, PassThrough(s) \/ Called(s) PROVE AccountInv'
    BY <2>1, <2>3, CallAccounts DEF AccountInv
  <2>4. ASSUME NEW s \in Senders, Intercept(s) PROVE AccountInv'
    BY <2>1, <2>4, InterceptAccounts DEF AccountInv
  <2>5. CASE UNCHANGED vars
    BY <2>5 DEF vars, lockedVars, AccountInv, Attributed, Accounted, Busy, Due, Reports, Kind, Requested,
                Plan, Ids
  <2> QED
    BY <2>2, <2>3, <2>4, <2>5 DEF Next
<1>3. AccountInv => FaultsAccounted
  BY DEF AccountInv, Accounted, FaultsAccounted, Reports, Positions, Due, Kind
<1> QED
  BY <1>1, <1>2, <1>3, Invariant, PTL DEF Spec
=============================================================================
