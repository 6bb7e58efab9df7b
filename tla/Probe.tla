-------------------------------- MODULE Probe ---------------------------------
(***************************************************************************)
(* The native probe (main.cpp) as a writer process and a reader process.   *)
(* In each, the main thread performs the steps of a program, a scripted    *)
(* plan or what the other modes amount to, while threads of the middleware *)
(* call the listeners.  A wait is the loop of condition_variable::wait_for *)
(* with a predicate: check it, sleep, check again when woken or too late.  *)
(* WriterListener and ParticipantSecurityListener count under the mutex of *)
(* the wait; ReaderListener counts and notifies without it.                *)
(*                                                                         *)
(* The middleware is external: it matches and unmatches endpoints, loses   *)
(* what is in flight when a match ends, delivers in order otherwise, and   *)
(* lets no callback of an entity run once it has deleted the entity.       *)
(***************************************************************************)
EXTENDS Trajectory

CONSTANTS
    Scenes,         \* what may be run: see Scene
    MaxRevocations  \* bound: unauthorized authentications per participant

Roles == {"writer", "reader"}

\* A schedule made of a base scenario, and the modes and expectations of its
\* roles; samples is the number a plain writer writes and a plain reader awaits.
Scene(base, descriptor, mode, expected, samples) ==
    [base |-> base, descriptor |-> descriptor, schedule |-> Schedule(base, descriptor),
     mode |-> mode, expected |-> expected, samples |-> samples]

VARIABLES
    scene,
    pc,        \* per role: where its main thread is
    step,      \* per role: the step of its program
    held,      \* per role: the objects that exist
    epoch,     \* per role: lifecycle_epoch
    waits,     \* per role: the waits that ended, [operation, reached]
    code,      \* per role: the exit status
    index,     \* sample_index
    matched,   \* matched_count_ of the writer's listener
    received,  \* received_ of the reader's listener
    revoked,   \* per role: revocations_
    callback,  \* on_data_available: "idle", "took", "counted"
    took,      \* indices of the application.sample_received events
    link,      \* the endpoints are matched
    linked,    \* they have been since the writer was created
    wire       \* samples in flight

mainVars == <<pc, step, code>>
countVars == <<matched, received, revoked>>
wireVars == <<link, linked, wire, callback, took>>
vars == <<scene, pc, step, held, epoch, waits, code, index, matched, received,
          revoked, callback, took, link, linked, wire>>

\* A mutant: the owner of the endpoint is declared before the listener.
ObjectsListenerFirst == <<"listener", "endpoint", "participant", "participant listener">>
\* In the order in which they go out of scope.
Objects == <<"endpoint", "listener", "participant", "participant listener">>

EndpointWaits == {"endpoint.wait_match", "sample.wait", "sample.observe"}
Waits == EndpointWaits \cup {"credential.wait_revoked"}

Modes == {"scripted", "writer", "recreate-writer", "reader", "check"}

\* Plans are finite, and every wait is for at least one of what it counts.
ASSUME ProbeAssumption ==
    /\ \A s \in Scenes :
        /\ s.samples \in Nat \ {0}
        /\ \A role \in Roles :
            /\ s.mode[role] \in Modes
            /\ LET plan == RoleOf(s.schedule, role).plan IN
                /\ Len(plan) \in Nat
                /\ \A k \in 1..Len(plan) : plan[k].target \in Nat \ {0}
    /\ MaxRevocations \in Nat

\* What is run is what trajectory.py generates of a base scenario.
ASSUME ScheduleAssumption ==
    \A s \in Scenes :
        /\ Generates(s.base, s.descriptor)
        /\ s.schedule = Schedule(s.base, s.descriptor)

PlainStep(operation, target) == [operation |-> operation, target |-> target]
Epoch1 == <<PlainStep("endpoint.create", 1), PlainStep("endpoint.wait_match", 1)>>

\* What a main thread performs: run_scripted_*, run_writer or run_reader.
Program(role) ==
    LET mode == scene.mode[role]
        write == PlainStep("sample.write", 1)
    IN CASE mode = "scripted" -> RoleOf(scene.schedule, role).plan
         [] mode = "writer" -> Epoch1 \o [i \in 1..scene.samples |-> write]
         [] mode = "recreate-writer" ->
                Epoch1 \o <<write, PlainStep("endpoint.destroy", 1)>> \o Epoch1 \o <<write>>
         [] mode = "reader" ->
                <<PlainStep("endpoint.create", 1), PlainStep("sample.wait", scene.samples)>>
         [] mode = "check" -> <<PlainStep("endpoint.create", 1)>>

More(role) == step[role] <= Len(Program(role))
Current(role) == Program(role)[step[role]]
Performs(role, operations) == More(role) /\ Current(role).operation \in operations
At(role, operation) == pc[role] = "step" /\ Performs(role, {operation})

TypeOK ==
    /\ pc \in [Roles -> {"new", "step", "checked", "asleep", "unwind", "exited"}]
    /\ step \in [Roles -> Nat \ {0}]
    /\ \A role \in Roles : step[role] <= Len(Program(role)) + 1
    /\ waits \in [Roles -> Seq([operation : Waits, reached : BOOLEAN])]
    /\ held \in [Roles -> SUBSET Range(Objects)]
    /\ epoch \in [Roles -> Nat]
    /\ code \in [Roles -> {0, 3, 4}]
    /\ index \in Nat /\ matched \in {0, 1} /\ received \in 0..Len(took)
    /\ revoked \in [Roles -> 0..MaxRevocations]
    /\ callback \in {"idle", "took", "counted"}
    /\ took \in Seq(1..index) /\ wire \in Seq(1..index)
    /\ link \in BOOLEAN /\ linked \in BOOLEAN

Init ==
    /\ scene \in Scenes
    /\ pc = [role \in Roles |-> "new"]
    /\ step = [role \in Roles |-> 1]
    /\ held = [role \in Roles |-> {}]
    /\ epoch = [role \in Roles |-> 0]
    /\ waits = [role \in Roles |-> <<>>]
    /\ code = [role \in Roles |-> 0]
    /\ revoked = [role \in Roles |-> 0]
    /\ index = 0 /\ matched = 0 /\ received = 0
    /\ callback = "idle" /\ took = <<>>
    /\ link = FALSE /\ linked = FALSE /\ wire = <<>>
-----------------------------------------------------------------------------
\* A step of the main thread is done; it returns; it throws.
Proceed(role) ==
    /\ pc' = [pc EXCEPT ![role] = "step"]
    /\ step' = [step EXCEPT ![role] = @ + 1]
    /\ UNCHANGED code
Return(role, status) ==
    /\ pc' = [pc EXCEPT ![role] = "unwind"]
    /\ code' = [code EXCEPT ![role] = status]
    /\ UNCHANGED step
Throw(role) == Return(role, 3)

\* The run starts a role behind those before it and behind its barriers; run
\* creates the participant and what belongs to it, which may fail.
Launch(role) ==
    LET roles == scene.schedule
        place == CHOOSE i \in DOMAIN roles : roles[i].actor = role
    IN
    /\ pc[role] = "new"
    /\ \A i \in 1..(place - 1) : pc[roles[i].actor] # "new"
    /\ \A actor \in roles[place].after : epoch[actor] > 0
    /\ \/ /\ held' = [held EXCEPT ![role] = Range(Objects) \ {"endpoint"}]
          /\ pc' = [pc EXCEPT ![role] = "step"]
          /\ UNCHANGED <<step, code>>
       \/ /\ \E made \in {{}, {"participant"}} :
                held' = [held EXCEPT ![role] = {"participant listener"} \cup made]
          /\ Throw(role)
    /\ UNCHANGED <<scene, epoch, waits, index, countVars, wireVars>>

\* What follows the access decision of an endpoint.
Decided(role, allowed) ==
    LET recreated == scene.mode[role] = "recreate-writer" /\ epoch[role] > 0
    IN IF allowed # scene.expected[role]
       THEN IF recreated THEN Throw(role) ELSE Return(role, 4)
       ELSE IF ~allowed /\ scene.mode[role] # "scripted" THEN Return(role, 0)
       ELSE Proceed(role)

\* A writer starts with no matches; the reader's count goes on.
ListenerReset(role) == matched' = IF role = "writer" THEN 0 ELSE matched

\* endpoint.create: the middleware decides on access.
Create(role) ==
    /\ At(role, "endpoint.create")
    /\ IF "participant" \notin held[role] \/ "endpoint" \in held[role]
       THEN Throw(role) /\ UNCHANGED <<held, epoch, matched, linked>>
       ELSE \E allowed \in BOOLEAN :
                /\ Decided(role, allowed)
                /\ held' = [held EXCEPT ![role] = @ \cup IF allowed THEN {"endpoint"} ELSE {}]
                /\ epoch' = [epoch EXCEPT ![role] =
                                IF allowed /\ step'[role] > step[role] THEN @ + 1 ELSE @]
                /\ ListenerReset(role)
                /\ linked' = (role = "reader" /\ linked)
    /\ UNCHANGED <<scene, waits, index, received, revoked, link, wire, callback, took>>

\* The predicate of the wait the main thread performs.
Reached(role) ==
    LET operation == Current(role).operation IN
    Current(role).target <=
        IF operation = "endpoint.wait_match" THEN matched
        ELSE IF operation = "credential.wait_revoked" THEN revoked[role]
        ELSE received

\* An observation ends either way; another wait that is too long throws.
EndWait(role, reached) ==
    /\ waits' = [waits EXCEPT ![role] =
                    Append(@, [operation |-> Current(role).operation, reached |-> reached])]
    /\ IF reached \/ Current(role).operation = "sample.observe" THEN Proceed(role) ELSE Throw(role)

Check(role) ==
    /\ pc[role] = "step" /\ Performs(role, Waits)
    /\ IF Performs(role, EndpointWaits) /\ "endpoint" \notin held[role]
       THEN Throw(role) /\ UNCHANGED waits
       ELSE IF Reached(role) THEN EndWait(role, TRUE)
       ELSE pc' = [pc EXCEPT ![role] = "checked"] /\ UNCHANGED <<step, code, waits>>
    /\ UNCHANGED <<scene, held, epoch, index, countVars, wireVars>>

\* The mutex is released as the thread goes to sleep.
Sleep(role) ==
    /\ pc[role] = "checked"
    /\ pc' = [pc EXCEPT ![role] = "asleep"]
    /\ UNCHANGED <<scene, step, code, held, epoch, waits, index, countVars, wireVars>>

\* A mutant: who is late is told so without another look.
TimeOutUnchecked(role) ==
    /\ pc[role] = "asleep"
    /\ EndWait(role, FALSE)
    /\ UNCHANGED <<scene, held, epoch, index, countVars, wireVars>>

\* A mutant: a wait for samples has no time-out.
TimeOutObserving(role) ==
    /\ pc[role] = "asleep" /\ ~Performs(role, {"sample.wait"})
    /\ EndWait(role, Reached(role))
    /\ UNCHANGED <<scene, held, epoch, index, countVars, wireVars>>

\* A mutant: the result of the wait is not looked at.
TimeOutIgnored(role) ==
    /\ pc[role] = "asleep"
    /\ waits' = [waits EXCEPT ![role] =
            Append(@, [operation |-> Current(role).operation, reached |-> Reached(role)])]
    /\ Proceed(role)
    /\ UNCHANGED <<scene, held, epoch, index, countVars, wireVars>>

TimeOut(role) ==
    /\ pc[role] = "asleep"
    /\ EndWait(role, Reached(role))
    /\ UNCHANGED <<scene, held, epoch, index, countVars, wireVars>>

\* write_sample; how long acknowledgments are awaited is left open.
Write(role) ==
    /\ At(role, "sample.write")
    /\ IF "endpoint" \notin held[role]
       THEN Throw(role) /\ UNCHANGED <<index, wire>>
       ELSE /\ index' = index + 1
            /\ \/ Proceed(role) /\ wire' = IF link THEN Append(wire, index') ELSE wire
               \/ Throw(role) /\ UNCHANGED wire
    /\ UNCHANGED <<scene, held, epoch, waits, countVars, link, linked, callback, took>>

\* The middleware deletes an endpoint when no callback of it runs.
DeleteEndpoint(role) ==
    /\ role = "reader" => callback = "idle"
    /\ held' = [held EXCEPT ![role] = @ \ {"endpoint"}]
    /\ link' = FALSE
    /\ wire' \in IF role = "reader" THEN {<<>>} ELSE {wire, <<>>}

Destroy(role) ==
    /\ At(role, "endpoint.destroy")
    /\ \/ /\ "endpoint" \in held[role]
          /\ DeleteEndpoint(role)
          /\ Proceed(role)
       \/ /\ "endpoint" \notin held[role]
          /\ Throw(role)
          /\ UNCHANGED <<held, link, wire>>
    /\ UNCHANGED <<scene, epoch, waits, index, countVars, linked, callback, took>>

\* The participant, with its publisher or subscriber, goes and comes back.
Disconnect(role) ==
    /\ At(role, "participant.disconnect")
    /\ IF "participant" \notin held[role] \/ "endpoint" \in held[role]
       THEN Throw(role) /\ UNCHANGED held
       ELSE Proceed(role) /\ held' = [held EXCEPT ![role] = @ \ {"participant"}]
    /\ UNCHANGED <<scene, epoch, waits, index, countVars, wireVars>>

Reconnect(role) ==
    /\ At(role, "participant.reconnect")
    /\ IF "participant" \in held[role] THEN Throw(role) /\ UNCHANGED held
       ELSE \E made \in {{}, {"participant"}} :
                /\ held' = [held EXCEPT ![role] = @ \cup made]
                /\ Throw(role) \/ (made # {} /\ Proceed(role))
    /\ UNCHANGED <<scene, epoch, waits, index, countVars, wireVars>>

\* A transport action is handed to the shim, which may refuse it.
Delegate(role) ==
    /\ At(role, "transport.drop_next")
    /\ Proceed(role) \/ Throw(role)
    /\ UNCHANGED <<scene, held, epoch, waits, index, countVars, wireVars>>

Checkpoint(role) ==
    /\ At(role, "execution.checkpoint")
    /\ Proceed(role)
    /\ UNCHANGED <<scene, held, epoch, waits, index, countVars, wireVars>>

Finish(role) ==
    /\ pc[role] = "step" /\ ~More(role)
    /\ Return(role, 0)
    /\ UNCHANGED <<scene, held, epoch, waits, index, countVars, wireVars>>

\* Owners and listeners go out of scope, then the process exits.
Unwind(role) ==
    /\ pc[role] = "unwind"
    /\ IF held[role] = {}
       THEN pc' = [pc EXCEPT ![role] = "exited"] /\ UNCHANGED <<held, link, wire>>
       ELSE /\ \E i \in DOMAIN Objects :
                /\ Objects[i] \in held[role]
                /\ \A j \in 1..(i - 1) : Objects[j] \notin held[role]
                /\ IF Objects[i] = "endpoint" THEN DeleteEndpoint(role)
                   ELSE /\ held' = [held EXCEPT ![role] = @ \ {Objects[i]}]
                        /\ UNCHANGED <<link, wire>>
            /\ UNCHANGED pc
    /\ UNCHANGED <<scene, step, code, epoch, waits, index, countVars, linked, callback, took>>

MainThread(role) ==
    \/ Create(role) \/ Check(role) \/ Sleep(role) \/ TimeOut(role)
    \/ Destroy(role) \/ Disconnect(role) \/ Reconnect(role)
    \/ Delegate(role) \/ Checkpoint(role) \/ Finish(role) \/ Unwind(role)
    \/ role = "writer" /\ Write(role)
-----------------------------------------------------------------------------
\* notify_all wakes the main thread if it sleeps in one of the waits.
Notified(role, operations) ==
    IF pc[role] = "asleep" /\ Performs(role, operations)
    THEN [pc EXCEPT ![role] = "step"] ELSE pc
\* The main thread has the mutex of the wait.
Locked(role, operation) == pc[role] = "checked" /\ Performs(role, {operation})

Match ==
    /\ \A role \in Roles : "endpoint" \in held[role] /\ revoked[role] = 0
    /\ ~link /\ link' = TRUE /\ linked' = TRUE
    /\ UNCHANGED <<scene, mainVars, held, epoch, waits, index, countVars, wire, callback, took>>

Unmatch ==
    /\ link /\ link' = FALSE
    /\ wire' \in {wire, <<>>}
    /\ UNCHANGED <<scene, mainVars, held, epoch, waits, index, countVars, linked, callback, took>>

\* WriterListener.on_publication_matched
PublicationMatched ==
    LET current == IF link THEN 1 ELSE 0 IN
    /\ "endpoint" \in held["writer"] /\ matched # current
    /\ ~Locked("writer", "endpoint.wait_match")
    /\ matched' = current
    /\ pc' = Notified("writer", {"endpoint.wait_match"})
    /\ UNCHANGED <<scene, step, code, held, epoch, waits, index, received, revoked, wireVars>>

\* ParticipantSecurityListener.onParticipantAuthentication, unauthorized
Revoke(role) ==
    /\ "participant" \in held[role] /\ revoked[role] < MaxRevocations
    /\ ~Locked(role, "credential.wait_revoked")
    /\ revoked' = [revoked EXCEPT ![role] = @ + 1]
    /\ pc' = Notified(role, {"credential.wait_revoked"})
    /\ UNCHANGED <<scene, step, code, held, epoch, waits, index, matched, received, wireVars>>

\* ReaderListener.on_data_available: take and report, count, notify.
Take ==
    /\ "endpoint" \in held["reader"] /\ callback = "idle" /\ wire # <<>>
    /\ callback' = "took"
    /\ took' = Append(took, Head(wire))
    /\ wire' = Tail(wire)
    /\ UNCHANGED <<scene, mainVars, held, epoch, waits, index, countVars, link, linked>>

Count ==
    /\ callback = "took"
    /\ callback' = "counted"
    /\ received' = received + 1
    /\ UNCHANGED <<scene, mainVars, held, epoch, waits, index, matched, revoked, link, linked, wire, took>>

Notify ==
    /\ callback = "counted"
    /\ callback' = "idle"
    /\ pc' = Notified("reader", {"sample.wait", "sample.observe"})
    /\ UNCHANGED <<scene, step, code, held, epoch, waits, index, countVars, link, linked, wire, took>>

Middleware ==
    \/ Match \/ Unmatch \/ PublicationMatched \/ Take \/ Count \/ Notify
    \/ \E role \in Roles : Revoke(role)

Next == Middleware \/ \E role \in Roles : Launch(role) \/ MainThread(role)

Spec == Init /\ [][Next]_vars

\* Threads run; a callback that has begun ends.  Nothing is assumed of matches,
\* deliveries, revocations and launches.
FairSpec ==
    /\ Spec
    /\ \A role \in Roles : WF_vars(MainThread(role))
    /\ WF_vars(Count \/ Notify)
=============================================================================
