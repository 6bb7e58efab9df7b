------------------------------ MODULE ProbeProofs -------------------------------
(***************************************************************************)
(* For every program the roles of the probe may run, every order of its    *)
(* threads' steps and every behaviour of the middleware: no object         *)
(* outlives what it refers to, a wait is answered by what was counted, and *)
(* a clean exit has seen all it waited for.                                *)
(*                                                                         *)
(* And for every scenario and every option of the generator: a schedule is *)
(* accepted by the parser and changes the order it says it changes.        *)
(***************************************************************************)
EXTENDS ProbeProperties, ProofFacts

-----------------------------------------------------------------------------
(* The inductive invariant.                                                *)

Gone == {"unwind", "exited"}

\* Who looked in vain still has the wait to answer.
Waiting == \A role \in Roles : pc[role] \in {"checked", "asleep"} => Performs(role, Waits)

\* A role that runs keeps its listeners, one that has not started has nothing.
Owned ==
    \A role \in Roles :
        /\ pc[role] = "new" => held[role] = {}
        /\ pc[role] \notin Gone \cup {"new"} =>
                {"listener", "participant listener"} \subseteq held[role]

\* What a role that has not failed has seen.
Seen(role) ==
    \A i \in DOMAIN waits[role] :
        waits[role][i].operation # "sample.observe" => waits[role][i].reached
Whole ==
    \A role \in Roles :
        /\ pc[role] \notin Gone => code[role] = 0
        /\ code[role] = 0 => Seen(role)
        /\ pc[role] \in Gone /\ code[role] = 0 /\ More(role) =>
                scene.mode[role] # "scripted" /\ ~scene.expected[role]

\* The callback that runs has reported a sample it has not counted.
Counted == received + (IF callback = "took" THEN 1 ELSE 0) = Len(took)

Linking ==
    /\ link => linked /\ \A role \in Roles : "endpoint" \in held[role]
    /\ matched = 1 => linked

IInv ==
    /\ TypeOK
    /\ scene \in Scenes
    /\ Waiting
    /\ Owned
    /\ Whole
    /\ Counted
    /\ Linking
    /\ NothingDangles

-----------------------------------------------------------------------------
(* Programs.                                                               *)

LEMMA SceneKept ==
    ASSUME [Next]_vars
    PROVE  scene' = scene /\ \A role \in Roles : Program(role)' = Program(role)
<1>1. scene' = scene
  <2>1. CASE Middleware
    BY <2>1 DEF Middleware, Match, Unmatch, PublicationMatched, Take, Count, Notify, Revoke
  <2>2. ASSUME NEW role \in Roles, Launch(role) \/ MainThread(role) PROVE scene' = scene
    BY <2>2 DEF Launch, MainThread, Create, Check, Sleep, TimeOut, Destroy, Disconnect, Reconnect,
       Delegate, Checkpoint, Finish, Unwind, Write
  <2>3. CASE UNCHANGED vars
    BY <2>3 DEF vars
  <2> QED
    BY <2>1, <2>2, <2>3 DEF Next
<1> QED
  BY <1>1 DEF Program

Operations == {"endpoint.create", "endpoint.wait_match", "sample.write", "endpoint.destroy", "sample.wait"}
PlainSteps == [operation : Operations, target : Nat \ {0}]

LEMMA ProgramFacts ==
    ASSUME scene \in Scenes, NEW role \in Roles
    PROVE  /\ Len(Program(role)) \in Nat
           /\ \A k \in 1..Len(Program(role)) : Program(role)[k].target \in Nat \ {0}
<1>1. scene.samples \in Nat \ {0} /\ scene.mode[role] \in Modes
  BY ProbeAssumption
<1>2. CASE scene.mode[role] = "scripted"
  <2>1. Program(role) = RoleOf(scene.schedule, role).plan
    BY <1>2 DEF Program
  <2> QED
    BY <2>1, ProbeAssumption
<1>3. CASE scene.mode[role] # "scripted"
  <2>1. \A o \in Operations, t \in Nat \ {0} : PlainStep(o, t) \in PlainSteps
    BY DEF PlainStep, PlainSteps
  <2> DEFINE write == PlainStep("sample.write", 1)
  <2>2. /\ PlainStep("endpoint.create", 1) \in PlainSteps /\ write \in PlainSteps
        /\ PlainStep("endpoint.wait_match", 1) \in PlainSteps
        /\ PlainStep("endpoint.destroy", 1) \in PlainSteps
        /\ PlainStep("sample.wait", scene.samples) \in PlainSteps
    BY <1>1, <2>1 DEF Operations
  <2>3. Epoch1 \in Seq(PlainSteps)
    BY <2>2 DEF Epoch1
  <2>4. [i \in 1..scene.samples |-> write] \in Seq(PlainSteps)
    BY <1>1, <2>2
  <2>5. /\ <<write, PlainStep("endpoint.destroy", 1)>> \in Seq(PlainSteps)
        /\ <<write>> \in Seq(PlainSteps)
        /\ <<PlainStep("endpoint.create", 1), PlainStep("sample.wait", scene.samples)>> \in Seq(PlainSteps)
        /\ <<PlainStep("endpoint.create", 1)>> \in Seq(PlainSteps)
    BY <2>2
  <2>6. \A s, t \in Seq(PlainSteps) : s \o t \in Seq(PlainSteps)
    OBVIOUS
  <2>7. Program(role) \in Seq(PlainSteps)
    <3> HIDE DEF write
    <3>1. CASE scene.mode[role] = "writer"
      BY <2>3, <2>4, <2>6, <3>1 DEF Program, write
    <3>2. CASE scene.mode[role] = "recreate-writer"
      BY <2>3, <2>5, <2>6, <3>2 DEF Program, write
    <3>3. CASE scene.mode[role] = "reader"
      BY <2>5, <3>3 DEF Program
    <3>4. CASE scene.mode[role] = "check"
      BY <2>5, <3>4 DEF Program
    <3> QED
      BY <1>1, <1>3, <3>1, <3>2, <3>3, <3>4 DEF Modes
  <2>8. \A k \in 1..Len(Program(role)) : Program(role)[k] \in PlainSteps
    BY <2>7
  <2> QED
    BY <2>7, <2>8 DEF PlainSteps
<1> QED
  BY <1>2, <1>3

-----------------------------------------------------------------------------
(* The main threads.                                                       *)

Places == {"new", "step", "checked", "asleep", "unwind", "exited"}
Statuses == {0, 3, 4}

MainTypes ==
    /\ pc \in [Roles -> Places]
    /\ code \in [Roles -> Statuses]
    /\ step \in [Roles -> Nat \ {0}]
    /\ \A role \in Roles : step[role] <= Len(Program(role)) + 1

\* A main thread goes to another place, and only from a step on to the next.
Goes(role, place, status) ==
    /\ pc' = [pc EXCEPT ![role] = place]
    /\ code' = [code EXCEPT ![role] = status]
    /\ \/ UNCHANGED step
       \/ More(role) /\ place = "step" /\ step' = [step EXCEPT ![role] = @ + 1]

LEMMA TypesOfIInv ==
    ASSUME IInv
    PROVE  /\ pc \in [Roles -> Places] /\ code \in [Roles -> Statuses]
           /\ held \in [Roles -> SUBSET Range(Objects)]
           /\ epoch \in [Roles -> Nat] /\ revoked \in [Roles -> 0..MaxRevocations]
           /\ step \in [Roles -> Nat \ {0}]
           /\ waits \in [Roles -> Seq([operation : Waits, reached : BOOLEAN])]
           /\ \A role \in Roles : /\ Len(Program(role)) \in Nat
                                  /\ step[role] <= Len(Program(role)) + 1
           /\ took \in Seq(1..index) /\ wire \in Seq(1..index) /\ index \in Nat
           /\ MaxRevocations \in Nat
<1>1. \A role \in Roles : Len(Program(role)) \in Nat
  BY ProgramFacts DEF IInv
<1>2. MaxRevocations \in Nat
  BY ProbeAssumption
<1>3. pc \in [Roles -> Places] /\ code \in [Roles -> Statuses]
  BY DEF IInv, TypeOK, Places, Statuses
<1>4. /\ held \in [Roles -> SUBSET Range(Objects)]
      /\ epoch \in [Roles -> Nat] /\ revoked \in [Roles -> 0..MaxRevocations]
      /\ took \in Seq(1..index) /\ wire \in Seq(1..index) /\ index \in Nat
  BY DEF IInv, TypeOK
<1>5. /\ step \in [Roles -> Nat \ {0}]
      /\ waits \in [Roles -> Seq([operation : Waits, reached : BOOLEAN])]
  BY DEF IInv, TypeOK
<1>6. \A role \in Roles : step[role] <= Len(Program(role)) + 1
  BY DEF IInv, TypeOK
<1> QED
  BY <1>1, <1>2, <1>3, <1>4, <1>5, <1>6

LEMMA Objectives == Range(Objects) = {"endpoint", "listener", "participant", "participant listener"}
<1>1. DOMAIN Objects = {1, 2, 3, 4}
  BY DEF Objects
<1>2. /\ Objects[1] = "endpoint" /\ Objects[2] = "listener"
      /\ Objects[3] = "participant" /\ Objects[4] = "participant listener"
  BY DEF Objects
<1> QED
  BY <1>1, <1>2 DEF Range

\* Where each step of a main thread leads.
LEMMA MainGoes ==
    ASSUME IInv, NEW role \in Roles, Launch(role) \/ MainThread(role)
    PROVE  \E place \in Places \ {"new"}, status \in Statuses :
                /\ Goes(role, place, status)
                /\ place \in {"checked", "asleep"} => Performs(role, Waits) /\ UNCHANGED step
                /\ place \notin Gone => status = code[role]
<1> DEFINE Leads == \E place \in Places \ {"new"}, status \in Statuses :
                /\ Goes(role, place, status)
                /\ place \in {"checked", "asleep"} => Performs(role, Waits) /\ UNCHANGED step
                /\ place \notin Gone => status = code[role]
<1>1. pc \in [Roles -> Places] /\ code \in [Roles -> Statuses]
  BY TypesOfIInv
<1>2. UNCHANGED code => code' = [code EXCEPT ![role] = code[role]] /\ code[role] \in Statuses
  BY <1>1
<1>3. ASSUME NEW status \in Statuses, Return(role, status) PROVE Leads
  BY <1>3 DEF Return, Goes, Places, Gone
<1>4. ASSUME Throw(role) PROVE Leads
  BY <1>3, <1>4 DEF Throw, Statuses
<1>5. ASSUME Proceed(role), More(role) PROVE Leads
  BY <1>2, <1>5 DEF Proceed, Goes, Places
<1>6. ASSUME NEW place \in {"step", "checked", "asleep"}, pc' = [pc EXCEPT ![role] = place],
             UNCHANGED <<step, code>>, place # "step" => Performs(role, Waits)
      PROVE  Leads
  BY <1>2, <1>6 DEF Goes, Places, Gone
<1>7. CASE Launch(role)
  BY <1>4, <1>6, <1>7 DEF Launch
<1>8. CASE Create(role)
  <2>1. More(role)
    BY <1>8 DEF Create, At, Performs
  <2>2. ASSUME NEW allowed, Decided(role, allowed) PROVE Leads
    BY <1>3, <1>4, <1>5, <2>1, <2>2 DEF Decided, Statuses
  <2> QED
    BY <1>4, <1>8, <2>2 DEF Create
<1>9. CASE Check(role)
  <2>1. More(role) /\ Performs(role, Waits)
    BY <1>9 DEF Check, Performs
  <2> QED
    BY <1>4, <1>5, <1>6, <1>9, <2>1 DEF Check, EndWait
<1>10. CASE Sleep(role)
  BY <1>6, <1>10 DEF Sleep, IInv, Waiting
<1>11. CASE TimeOut(role)
  BY <1>4, <1>5, <1>11 DEF TimeOut, EndWait, IInv, Waiting, Performs
<1>12. CASE Write(role) \/ Destroy(role) \/ Disconnect(role) \/ Reconnect(role) \/ Delegate(role) \/ Checkpoint(role)
  BY <1>4, <1>5, <1>12 DEF Write, Destroy, Disconnect, Reconnect, Delegate, Checkpoint, At, Performs
<1>13. CASE Finish(role)
  BY <1>3, <1>13 DEF Finish, Statuses
<1>14. CASE Unwind(role)
  <2>1. \/ pc' = [pc EXCEPT ![role] = "exited"]
        \/ UNCHANGED pc
    BY <1>14 DEF Unwind
  <2>2. UNCHANGED <<step, code>> /\ pc[role] = "unwind"
    BY <1>14 DEF Unwind
  <2>3. \E place \in Gone : pc' = [pc EXCEPT ![role] = place]
    BY <1>1, <2>1, <2>2 DEF Gone
  <2> QED
    BY <1>2, <2>2, <2>3 DEF Goes, Places, Gone
<1> QED
  BY <1>7, <1>8, <1>9, <1>10, <1>11, <1>12, <1>13, <1>14 DEF MainThread

\* A callback leaves the main threads where they are or wakes one that sleeps.
LEMMA MiddlewareGoes ==
    ASSUME IInv, Middleware
    PROVE  /\ UNCHANGED <<scene, step, code, held, epoch, waits, index>>
           /\ \/ UNCHANGED pc
              \/ \E role \in Roles : pc[role] = "asleep" /\ pc' = [pc EXCEPT ![role] = "step"]
<1>1. \A role \in Roles : \A operations :
        \/ Notified(role, operations) = pc
        \/ /\ pc[role] = "asleep"
           /\ Notified(role, operations) = [pc EXCEPT ![role] = "step"]
  BY DEF Notified
<1> QED
  BY <1>1 DEF Middleware, Match, Unmatch, PublicationMatched, Take, Count, Notify, Revoke, mainVars, Roles

LEMMA MainStep ==
    ASSUME IInv, [Next]_vars
    PROVE  MainTypes' /\ Waiting'
<1>1. /\ scene' = scene /\ \A role \in Roles : Program(role)' = Program(role)
  BY SceneKept
<1>2. /\ pc \in [Roles -> Places] /\ code \in [Roles -> Statuses]
      /\ step \in [Roles -> Nat \ {0}]
      /\ \A role \in Roles : /\ Len(Program(role)) \in Nat
                             /\ step[role] <= Len(Program(role)) + 1
  BY TypesOfIInv
<1>3. \A role \in Roles : step'[role] = step[role] => (Performs(role, Waits))' = Performs(role, Waits)
  BY <1>1 DEF Performs, More, Current
<1>4. ASSUME NEW role \in Roles, Launch(role) \/ MainThread(role) PROVE MainTypes' /\ Waiting'
  <2>1. PICK place \in Places \ {"new"}, status \in Statuses :
                /\ Goes(role, place, status)
                /\ place \in {"checked", "asleep"} => Performs(role, Waits) /\ UNCHANGED step
    BY <1>4, MainGoes
  <2>2. pc' \in [Roles -> Places] /\ code' \in [Roles -> Statuses]
    BY <1>2, <2>1 DEF Goes
  <2>3. /\ step' \in [Roles -> Nat \ {0}]
        /\ \A r \in Roles : step'[r] <= Len(Program(r)) + 1
    <3>1. CASE UNCHANGED step
      BY <1>2, <3>1
    <3>2. CASE step' = [step EXCEPT ![role] = @ + 1] /\ More(role)
      BY <1>2, <3>2 DEF More
    <3> QED
      BY <2>1, <3>1, <3>2 DEF Goes
  <2>4. ASSUME NEW r \in Roles, pc'[r] \in {"checked", "asleep"} PROVE Performs(r, Waits)'
    <3>1. CASE r = role
      <4>1. pc'[r] = place
        BY <1>2, <2>1, <3>1 DEF Goes
      <4>2. Performs(r, Waits) /\ step'[r] = step[r]
        BY <2>1, <2>4, <3>1, <4>1
      <4> QED
        BY <1>3, <4>2
    <3>2. CASE r # role
      <4>1. pc'[r] = pc[r] /\ step'[r] = step[r]
        BY <1>2, <2>1, <3>2 DEF Goes
      <4>2. Performs(r, Waits)
        BY <2>4, <4>1 DEF IInv, Waiting
      <4> QED
        BY <1>3, <4>1, <4>2
    <3> QED
      BY <3>1, <3>2
  <2> QED
    BY <1>1, <2>2, <2>3, <2>4 DEF MainTypes, Waiting
<1>5. ASSUME Middleware \/ UNCHANGED vars PROVE MainTypes' /\ Waiting'
  <2>1. /\ UNCHANGED <<step, code>>
        /\ \/ UNCHANGED pc
           \/ \E role \in Roles : pc[role] = "asleep" /\ pc' = [pc EXCEPT ![role] = "step"]
    BY <1>5, MiddlewareGoes DEF vars
  <2>2. pc' \in [Roles -> Places]
    BY <1>2, <2>1 DEF Places
  <2>3. \A r \in Roles : pc'[r] \in {"checked", "asleep"} => pc'[r] = pc[r]
    BY <1>2, <2>1
  <2>4. ASSUME NEW r \in Roles, pc'[r] \in {"checked", "asleep"} PROVE Performs(r, Waits)'
    BY <1>3, <2>1, <2>3, <2>4 DEF IInv, Waiting
  <2> QED
    BY <1>1, <1>2, <2>1, <2>2, <2>4 DEF MainTypes, Waiting
<1> QED
  BY <1>4, <1>5 DEF Next

-----------------------------------------------------------------------------
(* Objects and matches.                                                    *)

\* A main thread that has not started does nothing, one that is gone unwinds.
LEMMA RunsOn ==
    ASSUME IInv, NEW role \in Roles, MainThread(role)
    PROVE  /\ pc[role] # "new" /\ pc'[role] # "new"
           /\ pc'[role] \notin Gone => pc[role] \notin Gone
           /\ \A r \in Roles : r # role => pc'[r] = pc[r]
<1>1. /\ pc'[role] # "new" /\ pc' \in [Roles -> Places]
      /\ \A r \in Roles : r # role => pc'[r] = pc[r]
  <2>1. PICK place \in Places \ {"new"}, status \in Statuses : Goes(role, place, status)
    BY MainGoes
  <2> QED
    BY <2>1, TypesOfIInv DEF Goes
<1>2. CASE Unwind(role)
  <2>1. pc[role] = "unwind" /\ pc'[role] \in Gone
    BY <1>2, TypesOfIInv DEF Unwind, Gone
  <2> QED
    BY <1>1, <2>1
<1>3. CASE ~Unwind(role)
  <2>1. pc[role] \in {"step", "checked", "asleep"}
    BY <1>3 DEF MainThread, Create, Check, Sleep, TimeOut, Destroy, Disconnect, Reconnect,
       Delegate, Checkpoint, Finish, Write, At
  <2> QED
    BY <1>1, <2>1 DEF Gone
<1> QED
  BY <1>2, <1>3

Names == {"endpoint", "listener", "participant", "participant listener"}

\* What a role holds, in a state: Owned and NothingDangles of it.
Proper(place, objects) ==
    /\ place = "new" => objects = {}
    /\ place \notin Gone \cup {"new"} => {"listener", "participant listener"} \subseteq objects
    /\ "endpoint" \in objects => {"listener", "participant"} \subseteq objects
    /\ "participant" \in objects => "participant listener" \in objects

LEMMA ProperAll ==
    /\ IInv => \A role \in Roles : Proper(pc[role], held[role])
    /\ (callback # "idle" => "endpoint" \in held["reader"])
       /\ (\A role \in Roles : Proper(pc[role], held[role])) => Owned /\ NothingDangles
<1>1. "reader" \in Roles
  BY DEF Roles
<1> QED
  BY <1>1 DEF Proper, IInv, Owned, NothingDangles

Objective ==
    /\ held \in [Roles -> SUBSET Names]
    /\ callback \in {"idle", "took", "counted"} /\ link \in BOOLEAN /\ linked \in BOOLEAN
    /\ matched \in {0, 1}
    /\ Owned /\ NothingDangles /\ Linking

LEMMA ObjectiveNow == ASSUME IInv PROVE Objective
  BY Objectives DEF IInv, TypeOK, Objective, Names

\* One role's objects change, properly.
LEMMA HolderStep ==
    ASSUME IInv, NEW role \in Roles, Launch(role) \/ MainThread(role), NEW objects \in SUBSET Names,
           held' = [held EXCEPT ![role] = objects], Proper(pc'[role], objects),
           UNCHANGED callback,
           role = "reader" /\ callback # "idle" => "endpoint" \in objects,
           link' \in BOOLEAN, linked' \in BOOLEAN, matched' \in {0, 1},
           link' => link /\ ("endpoint" \in held[role] => "endpoint" \in objects),
           (link' \/ matched' = 1) => linked'
    PROVE  Objective'
<1>1. Objective
  BY ObjectiveNow
<1>2. held' \in [Roles -> SUBSET Names]
  BY <1>1 DEF Objective
<1>3. \A r \in Roles : r # role => pc'[r] = pc[r] /\ held'[r] = held[r]
  BY <1>1, MainGoes, TypesOfIInv DEF Objective, Goes
<1>4. held'[role] = objects
  BY <1>1 DEF Objective
<1>5. \A r \in Roles : Proper(pc'[r], held'[r])
  BY <1>3, <1>4, ProperAll
<1>6. callback' # "idle" => "endpoint" \in held'["reader"]
  <2>1. callback # "idle" => "endpoint" \in held["reader"]
    BY <1>1 DEF Objective, NothingDangles
  <2>2. "reader" \in Roles
    BY DEF Roles
  <2> QED
    BY <1>3, <1>4, <2>1, <2>2
<1>7. Linking'
  <2>1. link' => \A r \in Roles : "endpoint" \in held'[r]
    BY <1>1, <1>3, <1>4 DEF Objective, Linking
  <2> QED
    BY <2>1 DEF Linking
<1>8. Owned' /\ NothingDangles'
  <2>1. "reader" \in Roles
    BY DEF Roles
  <2> QED
    BY <1>5, <1>6, <2>1 DEF Owned, NothingDangles, Proper
<1> QED
  BY <1>1, <1>2, <1>7, <1>8 DEF Objective

LEMMA MainObjective ==
    ASSUME IInv, NEW role \in Roles, Launch(role) \/ MainThread(role)
    PROVE  Objective'
<1>1. Objective /\ Proper(pc[role], held[role]) /\ pc \in [Roles -> Places]
  BY ObjectiveNow, ProperAll, TypesOfIInv
<1>2. /\ held[role] \in SUBSET Names /\ matched \in {0, 1} /\ link \in BOOLEAN /\ linked \in BOOLEAN
      /\ (link \/ matched = 1) => linked
      /\ role = "reader" /\ callback # "idle" => "endpoint" \in held[role]
      /\ link => "endpoint" \in held[role]
  BY <1>1 DEF Objective, Linking, NothingDangles
<1>3. ASSUME MainThread(role)
      PROVE  /\ pc[role] # "new" /\ pc'[role] # "new"
             /\ pc'[role] \notin Gone => pc[role] \notin Gone
  BY <1>3, RunsOn
<1>4. ASSUME MainThread(role), UNCHANGED <<held, callback, link, linked, matched>> PROVE Objective'
  <2>1. Proper(pc'[role], held[role])
    BY <1>1, <1>3, <1>4 DEF Proper
  <2>2. held' = [held EXCEPT ![role] = held[role]]
    BY <1>1, <1>4 DEF Objective
  <2> QED
    BY <1>2, <1>4, <2>1, <2>2, HolderStep
<1>5. ASSUME MainThread(role), DeleteEndpoint(role), "endpoint" \in held[role],
             UNCHANGED <<callback, linked, matched>>
      PROVE  Objective'
  <2> DEFINE objects == held[role] \ {"endpoint"}
  <2>1. /\ held' = [held EXCEPT ![role] = objects] /\ link' = FALSE
        /\ ~(role = "reader" /\ callback # "idle") /\ objects \in SUBSET Names
    BY <1>2, <1>5 DEF DeleteEndpoint
  <2>2. Proper(pc'[role], objects)
    BY <1>1, <1>3, <1>5 DEF Proper
  <2> HIDE DEF objects
  <2> QED
    BY <1>2, <1>5, <2>1, <2>2, HolderStep
<1>6. CASE Launch(role)
  <2>1. /\ pc[role] = "new" /\ held[role] = {} /\ UNCHANGED <<callback, link, linked, matched>>
    BY <1>1, <1>6 DEF Launch, Proper, countVars, wireVars
  <2>2. PICK objects \in SUBSET Names : held' = [held EXCEPT ![role] = objects] /\ Proper(pc'[role], objects)
    <3>1. CASE /\ held' = [held EXCEPT ![role] = Range(Objects) \ {"endpoint"}]
               /\ pc' = [pc EXCEPT ![role] = "step"]
      BY <1>1, <3>1, Objectives DEF Proper, Names
    <3>2. ASSUME NEW made \in {{}, {"participant"}},
                 held' = [held EXCEPT ![role] = {"participant listener"} \cup made], Throw(role)
          PROVE  \E objects \in SUBSET Names : held' = [held EXCEPT ![role] = objects] /\ Proper(pc'[role], objects)
      <4>1. pc'[role] = "unwind"
        BY <1>1, <3>2 DEF Throw, Return
      <4> QED
        BY <3>2, <4>1 DEF Proper, Gone, Names
    <3> QED
      BY <1>6, <3>1, <3>2 DEF Launch
  <2> QED
    BY <1>2, <1>6, <2>1, <2>2, HolderStep
<1>7. CASE Create(role)
  <2>1. MainThread(role) /\ UNCHANGED <<callback, link>>
    BY <1>7 DEF Create, MainThread
  <2>2. CASE UNCHANGED <<held, matched, linked>>
    BY <1>4, <2>1, <2>2
  <2>3. ASSUME NEW allowed \in BOOLEAN, "participant" \in held[role], "endpoint" \notin held[role],
               held' = [held EXCEPT ![role] = @ \cup IF allowed THEN {"endpoint"} ELSE {}],
               ListenerReset(role), linked' = (role = "reader" /\ linked)
        PROVE  Objective'
    <3> DEFINE objects == held[role] \cup IF allowed THEN {"endpoint"} ELSE {}
    <3>1. /\ objects \in SUBSET Names /\ held[role] \subseteq objects
          /\ objects \subseteq held[role] \cup {"endpoint"}
      BY <1>2 DEF Names
    <3>2. held' = [held EXCEPT ![role] = objects]
      BY <2>3
    <3>3. "listener" \in held[role]
      BY <1>1, <1>7 DEF Proper, Create, At, Gone
    <3>4. Proper(pc'[role], objects)
      <4> HIDE DEF objects
      <4> QED
        BY <1>1, <1>3, <2>1, <2>3, <3>1, <3>3 DEF Proper
    <3>5. ~link
      BY <1>2, <2>3
    <3>6. /\ matched' \in {0, 1} /\ linked' \in BOOLEAN
          /\ matched' = 1 => linked'
      <4>1. CASE role = "writer"
        BY <2>3, <4>1 DEF ListenerReset
      <4>2. CASE role = "reader"
        BY <1>2, <2>3, <4>2 DEF ListenerReset
      <4> QED
        BY <4>1, <4>2 DEF Roles
    <3> HIDE DEF objects
    <3> QED
      BY <1>2, <2>1, <3>1, <3>2, <3>4, <3>5, <3>6, HolderStep
  <2> QED
    BY <1>7, <2>2, <2>3 DEF Create
<1>8. CASE Check(role) \/ Sleep(role) \/ TimeOut(role) \/ Delegate(role) \/ Checkpoint(role) \/ Finish(role)
  BY <1>4, <1>8 DEF MainThread, Check, Sleep, TimeOut, Delegate, Checkpoint, Finish, countVars, wireVars
<1>9. CASE Destroy(role)
  BY <1>4, <1>5, <1>9 DEF MainThread, Destroy, countVars
<1>10. CASE Disconnect(role) \/ Reconnect(role)
  <2>1. MainThread(role) /\ UNCHANGED <<callback, link, linked, matched>>
    BY <1>10 DEF MainThread, Disconnect, Reconnect, countVars, wireVars
  <2>2. /\ "participant listener" \in held[role]
        /\ "endpoint" \notin held[role] \/ UNCHANGED held
    <3>1. "participant listener" \in held[role]
      BY <1>1, <1>10 DEF Proper, Disconnect, Reconnect, At, Gone
    <3>2. "endpoint" \notin held[role] \/ UNCHANGED held
      BY <1>1, <1>10 DEF Disconnect, Reconnect, Proper
    <3> QED
      BY <3>1, <3>2
  <2>3. CASE UNCHANGED held
    BY <1>4, <2>1, <2>3
  <2>4. ASSUME NEW objects, objects = held[role] \cup {"participant"} \/ objects = held[role] \ {"participant"},
               held' = [held EXCEPT ![role] = objects], ~UNCHANGED held
        PROVE  Objective'
    <3>1. Proper(pc'[role], objects) /\ objects \in SUBSET Names
      BY <1>1, <1>2, <1>3, <2>1, <2>2, <2>4 DEF Proper, Names
    <3> QED
      BY <1>2, <2>1, <2>2, <2>4, <3>1, HolderStep
  <2>5. \/ UNCHANGED held
        \/ \E objects : /\ objects = held[role] \cup {"participant"} \/ objects = held[role] \ {"participant"}
                        /\ held' = [held EXCEPT ![role] = objects]
    <3>1. CASE Disconnect(role)
      BY <3>1 DEF Disconnect
    <3>2. ASSUME NEW made \in {{}, {"participant"}}, held' = [held EXCEPT ![role] = @ \cup made]
          PROVE  UNCHANGED held \/ held' = [held EXCEPT ![role] = held[role] \cup {"participant"}]
      <4>1. CASE made = {}
        BY <1>1, <3>2, <4>1 DEF Objective
      <4> QED
        BY <3>2, <4>1
    <3>3. CASE Reconnect(role)
      BY <3>2, <3>3 DEF Reconnect
    <3> QED
      BY <1>10, <3>1, <3>3
  <2> QED
    BY <2>3, <2>4, <2>5
<1>11. CASE role = "writer" /\ Write(role)
  BY <1>4, <1>11 DEF MainThread, Write, countVars
<1>12. CASE Unwind(role)
  <2>1. MainThread(role) /\ pc[role] = "unwind" /\ UNCHANGED <<callback, linked, matched>>
    BY <1>12 DEF MainThread, Unwind, countVars
  <2>2. CASE UNCHANGED <<held, link>>
    BY <1>4, <2>1, <2>2
  <2>3. ASSUME NEW i \in DOMAIN Objects, Objects[i] \in held[role],
               \A j \in 1..(i - 1) : Objects[j] \notin held[role],
               Objects[i] # "endpoint",
               held' = [held EXCEPT ![role] = @ \ {Objects[i]}], UNCHANGED link
        PROVE  Objective'
    <3> DEFINE objects == held[role] \ {Objects[i]}
    <3>1. /\ DOMAIN Objects = 1..4
          /\ Objects[1] = "endpoint" /\ Objects[2] = "listener"
          /\ Objects[3] = "participant" /\ Objects[4] = "participant listener"
      BY DEF Objects
    <3>11. i \in 1..4
      BY <3>1
    <3>2. i \in 2..4
      <4>1. i # 1
        BY <2>3, <3>1
      <4> QED
        BY <3>11, <4>1
    <3>10. "endpoint" \notin held[role]
      <4>1. 1 \in 1..(i - 1)
        BY <3>2
      <4>2. Objects[1] \notin held[role]
        BY <2>3, <4>1
      <4> QED
        BY <3>1, <4>2
    <3>3. "participant" \in objects => "participant listener" \in objects
      <4>1. CASE i = 4
        <5>1. 3 \in 1..(i - 1)
          BY <4>1
        <5>2. Objects[3] \notin held[role]
          BY <2>3, <5>1
        <5> QED
          BY <3>1, <5>2
      <4>2. CASE i # 4
        <5>1. Objects[i] # "participant listener"
          <6>1. i = 2 \/ i = 3
            BY <3>2, <4>2
          <6> QED
            BY <3>1, <6>1
        <5>2. "participant" \in held[role] => "participant listener" \in held[role]
          BY <1>1 DEF Proper
        <5> QED
          BY <5>1, <5>2
      <4> QED
        BY <4>1, <4>2
    <3>4. pc'[role] \in Gone
      <4>1. pc' = [pc EXCEPT ![role] = "exited"] \/ UNCHANGED pc
        BY <1>12 DEF Unwind
      <4> QED
        BY <1>1, <2>1, <4>1 DEF Gone
    <3>5. Proper(pc'[role], objects)
      <4>1. pc'[role] # "new" /\ "endpoint" \notin objects
        BY <3>10, <3>4 DEF Gone
      <4> QED
        BY <3>3, <3>4, <4>1 DEF Proper
    <3>7. objects \in SUBSET Names
      BY <1>2
    <3>6. held' = [held EXCEPT ![role] = objects]
      BY <2>3
    <3> HIDE DEF objects
    <3> QED
      BY <1>2, <2>1, <2>3, <3>10, <3>5, <3>6, <3>7, HolderStep
  <2>4. CASE "endpoint" \in held[role] /\ DeleteEndpoint(role)
    BY <1>5, <2>1, <2>4
  <2> QED
    BY <1>12, <2>2, <2>3, <2>4 DEF Unwind
<1> QED
  BY <1>6, <1>7, <1>8, <1>9, <1>10, <1>11, <1>12 DEF MainThread

LEMMA MiddlewareObjective ==
    ASSUME IInv, Middleware
    PROVE  Objective'
<1>1. Objective /\ (\A role \in Roles : Proper(pc[role], held[role])) /\ pc \in [Roles -> Places]
  BY ObjectiveNow, ProperAll, TypesOfIInv
<1>2. /\ UNCHANGED held
      /\ UNCHANGED pc \/ \E role \in Roles : pc[role] = "asleep" /\ pc' = [pc EXCEPT ![role] = "step"]
  BY MiddlewareGoes
<1>3. \A role \in Roles : Proper(pc'[role], held'[role])
  BY <1>1, <1>2 DEF Proper, Gone
<1>4. /\ callback' \in {"idle", "took", "counted"}
      /\ callback' # "idle" => "endpoint" \in held'["reader"]
  <2>1. callback \in {"idle", "took", "counted"} /\ (callback # "idle" => "endpoint" \in held["reader"])
    BY <1>1 DEF Objective, NothingDangles
  <2> QED
    BY <1>2, <2>1 DEF Middleware, Match, Unmatch, PublicationMatched, Take, Count, Notify, Revoke, wireVars
<1>5. Owned' /\ NothingDangles'
  <2>1. "reader" \in Roles
    BY DEF Roles
  <2> QED
    BY <1>3, <1>4, <2>1 DEF Owned, NothingDangles, Proper
<1>6. /\ link' \in BOOLEAN /\ linked' \in BOOLEAN /\ matched' \in {0, 1}
      /\ Linking'
  <2>1. /\ link \in BOOLEAN /\ linked \in BOOLEAN /\ matched \in {0, 1}
        /\ link => linked /\ \A role \in Roles : "endpoint" \in held[role]
        /\ matched = 1 => linked
    BY <1>1 DEF Objective, Linking
  <2>2. CASE Match
    BY <1>2, <2>1, <2>2 DEF Match, countVars, Linking
  <2>3. CASE Unmatch
    BY <1>2, <2>1, <2>3 DEF Unmatch, countVars, Linking
  <2>4. CASE PublicationMatched
    BY <1>2, <2>1, <2>4 DEF PublicationMatched, wireVars, Linking
  <2>5. CASE Take \/ Count \/ Notify \/ \E role \in Roles : Revoke(role)
    BY <1>2, <2>1, <2>5 DEF Take, Count, Notify, Revoke, countVars, wireVars, Linking
  <2> QED
    BY <2>2, <2>3, <2>4, <2>5 DEF Middleware
<1> QED
  BY <1>1, <1>2, <1>4, <1>5, <1>6 DEF Objective

LEMMA ObjectiveStep == ASSUME IInv, [Next]_vars PROVE Objective'
<1>1. CASE UNCHANGED vars
  <2>1. Objective
    BY ObjectiveNow
  <2> QED
    BY <1>1, <2>1 DEF vars, Objective, Owned, NothingDangles, Linking
<1> QED
  BY <1>1, MainObjective, MiddlewareObjective DEF Next

-----------------------------------------------------------------------------
(* Waits and exits.                                                        *)

Answers == [operation : Waits, reached : BOOLEAN]

\* The answers a role has got are the same, or there is one more and its wait
\* was reached, was an observation, or the role has thrown.
LEMMA AnswerStep ==
    ASSUME IInv, NEW role \in Roles, Launch(role) \/ MainThread(role)
    PROVE  \/ UNCHANGED waits
           \/ \E answer \in Answers :
                /\ waits' = [waits EXCEPT ![role] = Append(@, answer)]
                /\ answer.operation # "sample.observe" /\ ~answer.reached => Throw(role)
<1> DEFINE Got == \E answer \in Answers :
                /\ waits' = [waits EXCEPT ![role] = Append(@, answer)]
                /\ answer.operation # "sample.observe" /\ ~answer.reached => Throw(role)
<1>1. ASSUME NEW reached \in BOOLEAN, EndWait(role, reached), Performs(role, Waits) PROVE Got
  <2> DEFINE answer == [operation |-> Current(role).operation, reached |-> reached]
  <2>1. answer \in Answers
    BY <1>1 DEF Performs, Answers
  <2>2. answer.operation # "sample.observe" /\ ~answer.reached => Throw(role)
    BY <1>1 DEF EndWait
  <2>3. waits' = [waits EXCEPT ![role] = Append(@, answer)]
    BY <1>1 DEF EndWait
  <2> QED
    BY <2>1, <2>2, <2>3
<1>2. Reached(role) \in BOOLEAN
  BY DEF Reached
<1>3. CASE Check(role)
  <2>1. Performs(role, Waits) /\ (UNCHANGED waits \/ EndWait(role, TRUE))
    BY <1>3 DEF Check
  <2> QED
    BY <1>1, <2>1
<1>4. CASE TimeOut(role)
  <2>1. Performs(role, Waits) /\ EndWait(role, Reached(role))
    BY <1>4 DEF TimeOut, IInv, Waiting
  <2> QED
    BY <1>1, <1>2, <2>1
<1>5. CASE ~Check(role) /\ ~TimeOut(role)
  BY <1>5 DEF Launch, MainThread, Create, Sleep, Destroy, Disconnect, Reconnect, Delegate, Checkpoint,
     Finish, Unwind, Write
<1> QED
  BY <1>3, <1>4, <1>5

\* Without more to do, or denied as expected, where a role returns 0.
LEMMA ReturnZero ==
    ASSUME IInv, NEW role \in Roles, Launch(role) \/ MainThread(role),
           pc[role] \notin Gone, pc'[role] \in Gone, code'[role] = 0
    PROVE  ~More(role) \/ (scene.mode[role] # "scripted" /\ ~scene.expected[role])
<1>1. pc \in [Roles -> Places] /\ code \in [Roles -> Statuses]
  BY TypesOfIInv
<1>2. ASSUME NEW status, Return(role, status) PROVE status = 0
  BY <1>1, <1>2, code'[role] = 0 DEF Return
<1>3. ~Throw(role)
  BY <1>2 DEF Throw
<1>4. ~Proceed(role)
  BY <1>1, pc'[role] \in Gone DEF Proceed, Gone
<1>5. \A p : p \notin Gone => pc' # [pc EXCEPT ![role] = p]
  BY <1>1, pc'[role] \in Gone
<1>6. CASE Create(role)
  <2>1. PICK allowed \in BOOLEAN : Decided(role, allowed)
    BY <1>3, <1>6 DEF Create
  <2> QED
    BY <1>2, <1>3, <1>4, <2>1 DEF Decided
<1>7. CASE Finish(role)
  BY <1>7 DEF Finish
<1>8. ~Launch(role) /\ ~Check(role) /\ ~Sleep(role) /\ ~TimeOut(role)
  BY <1>3, <1>4, <1>5 DEF Launch, Check, Sleep, TimeOut, EndWait, Gone
<1>9. /\ ~Write(role) /\ ~Destroy(role) /\ ~Disconnect(role) /\ ~Reconnect(role)
      /\ ~Delegate(role) /\ ~Checkpoint(role)
  BY <1>3, <1>4 DEF Write, Destroy, Disconnect, Reconnect, Delegate, Checkpoint
<1>10. ~Unwind(role)
  BY pc[role] \notin Gone DEF Unwind, Gone
<1> QED
  BY <1>6, <1>7, <1>8, <1>9, <1>10 DEF MainThread

LEMMA EpochStep ==
    ASSUME IInv, [Next]_vars
    PROVE  epoch' \in [Roles -> Nat]
<1>1. epoch \in [Roles -> Nat]
  BY TypesOfIInv
<1>2. ASSUME NEW role \in Roles, Create(role) PROVE epoch' \in [Roles -> Nat]
  <2>1. \/ UNCHANGED epoch
        \/ \E e \in {epoch[role], epoch[role] + 1} : epoch' = [epoch EXCEPT ![role] = e]
    BY <1>2 DEF Create
  <2> QED
    BY <1>1, <2>1
<1>3. ASSUME NEW role \in Roles, Launch(role) \/ MainThread(role), ~Create(role) PROVE UNCHANGED epoch
  BY <1>3 DEF Launch, MainThread, Check, Sleep, TimeOut, Destroy, Disconnect, Reconnect, Delegate,
     Checkpoint, Finish, Unwind, Write
<1>4. Middleware \/ UNCHANGED vars => UNCHANGED epoch
  BY MiddlewareGoes DEF vars
<1> QED
  BY <1>1, <1>2, <1>3, <1>4 DEF Next

LEMMA WholeStep ==
    ASSUME IInv, [Next]_vars
    PROVE  waits' \in [Roles -> Seq(Answers)] /\ Whole'
<1>1. scene' = scene /\ \A r \in Roles : Program(r)' = Program(r)
  BY SceneKept
<1>2. /\ pc \in [Roles -> Places] /\ code \in [Roles -> Statuses] /\ waits \in [Roles -> Seq(Answers)]
      /\ step \in [Roles -> Nat \ {0}]
  BY TypesOfIInv DEF Answers
<1>3. \A r \in Roles : step'[r] = step[r] => More(r)' = More(r)
  BY <1>1 DEF More
<1>4. ASSUME NEW r \in Roles, pc'[r] = pc[r] \/ (pc[r] \notin Gone /\ pc'[r] \notin Gone),
             code'[r] = code[r], waits'[r] = waits[r], pc'[r] \in Gone => step'[r] = step[r]
      PROVE  /\ pc'[r] \notin Gone => code'[r] = 0
             /\ code'[r] = 0 => Seen(r)'
             /\ pc'[r] \in Gone /\ code'[r] = 0 /\ More(r)' =>
                    scene'.mode[r] # "scripted" /\ ~scene'.expected[r]
  BY <1>1, <1>3, <1>4 DEF IInv, Whole, Seen
<1>5. ASSUME NEW role \in Roles, Launch(role) \/ MainThread(role)
      PROVE  waits' \in [Roles -> Seq(Answers)] /\ Whole'
  <2>1. PICK place \in Places \ {"new"}, status \in Statuses :
                Goes(role, place, status) /\ (place \notin Gone => status = code[role])
    BY <1>5, MainGoes
  <2>2. /\ pc'[role] = place /\ code'[role] = status
        /\ \A r \in Roles : r # role => pc'[r] = pc[r] /\ code'[r] = code[r] /\ step'[r] = step[r]
        /\ place # "step" => UNCHANGED step
    BY <1>2, <2>1 DEF Goes
  <2>3. CASE UNCHANGED waits
    <3>1. waits'[role] = waits[role] /\ waits' \in [Roles -> Seq(Answers)]
      BY <1>2, <2>3
    <3>2. pc[role] \in Gone => UNCHANGED code /\ pc'[role] \in Gone
      <4>1. pc[role] \in Gone => Unwind(role)
        BY <1>5 DEF Launch, MainThread, Create, Check, Sleep, TimeOut, Destroy, Disconnect, Reconnect,
           Delegate, Checkpoint, Finish, Write, At, Gone
      <4>2. Unwind(role) => UNCHANGED code /\ (pc' = [pc EXCEPT ![role] = "exited"] \/ UNCHANGED pc)
        BY DEF Unwind
      <4> QED
        BY <1>2, <4>1, <4>2 DEF Gone
    <3>3. /\ pc'[role] \notin Gone => code'[role] = 0
          /\ code'[role] = 0 => code[role] = 0
      BY <2>1, <2>2, <3>2 DEF IInv, Whole
    <3>4. code'[role] = 0 => Seen(role)'
      BY <3>1, <3>3 DEF IInv, Whole, Seen
    <3>5. ASSUME pc'[role] \in Gone, code'[role] = 0, More(role)'
          PROVE  scene'.mode[role] # "scripted" /\ ~scene'.expected[role]
      <4>1. More(role)
        BY <1>3, <2>2, <3>5 DEF Gone
      <4>2. CASE pc[role] \in Gone
        BY <1>1, <3>3, <3>5, <4>1, <4>2 DEF IInv, Whole
      <4>3. CASE pc[role] \notin Gone
        BY <1>1, <1>5, <3>5, <4>1, <4>3, ReturnZero
      <4> QED
        BY <4>2, <4>3
    <3>6. \A r \in Roles : r # role => waits'[r] = waits[r]
      BY <2>3
    <3> QED
      BY <1>4, <2>2, <3>1, <3>3, <3>4, <3>5, <3>6 DEF Whole
  <2>4. ASSUME NEW answer \in Answers,
               waits' = [waits EXCEPT ![role] = Append(@, answer)],
               answer.operation # "sample.observe" /\ ~answer.reached => Throw(role)
        PROVE  waits' \in [Roles -> Seq(Answers)] /\ Whole'
    <3>1. /\ waits' \in [Roles -> Seq(Answers)]
          /\ waits'[role] = Append(waits[role], answer)
          /\ \A r \in Roles : r # role => waits'[r] = waits[r]
      BY <1>2, <2>4
    <3>2. ~UNCHANGED waits
      <4>1. waits[role] \in Seq(Answers)
        BY <1>2
      <4>2. Len(Append(waits[role], answer)) = Len(waits[role]) + 1 /\ Len(waits[role]) \in Nat
        BY <4>1
      <4> QED
        BY <3>1, <4>2
    <3>3. Check(role) \/ TimeOut(role)
      BY <1>5, <3>2 DEF Launch, MainThread, Create, Sleep, Destroy, Disconnect, Reconnect, Delegate, Checkpoint,
         Finish, Unwind, Write
    <3>4. /\ pc[role] \notin Gone
          /\ Throw(role) \/ Proceed(role)
      <4>1. CASE Check(role)
        BY <3>2, <4>1 DEF Check, EndWait, Gone
      <4>2. CASE TimeOut(role)
        BY <4>2 DEF TimeOut, EndWait, Gone
      <4> QED
        BY <3>3, <4>1, <4>2
    <3>5. code[role] = 0 /\ Seen(role)
      BY <3>4 DEF IInv, Whole
    <3>6. CASE Throw(role)
      <4>1. pc'[role] \in Gone /\ code'[role] # 0
        BY <1>2, <3>6 DEF Throw, Return, Gone
      <4> QED
        BY <1>4, <2>2, <3>1, <4>1 DEF Whole
    <3>7. CASE Proceed(role) /\ ~Throw(role)
      <4>1. pc'[role] \notin Gone /\ code'[role] = 0
        BY <1>2, <3>5, <3>7 DEF Proceed, Gone
      <4>2. answer.operation # "sample.observe" => answer.reached
        BY <2>4, <3>7
      <4>3. waits[role] \in Seq(Answers)
        BY <1>2
      <4>4. /\ DOMAIN Append(waits[role], answer) = 1..(Len(waits[role]) + 1)
            /\ DOMAIN waits[role] = 1..Len(waits[role]) /\ Len(waits[role]) \in Nat
            /\ Append(waits[role], answer)[Len(waits[role]) + 1] = answer
            /\ \A i \in 1..Len(waits[role]) : Append(waits[role], answer)[i] = waits[role][i]
        BY <4>3
      <4>5. ASSUME NEW i \in DOMAIN waits'[role], waits'[role][i].operation # "sample.observe"
            PROVE  waits'[role][i].reached
        <5>1. CASE i = Len(waits[role]) + 1
          BY <3>1, <4>2, <4>4, <4>5, <5>1
        <5>2. CASE i \in 1..Len(waits[role])
          BY <3>1, <3>5, <4>4, <4>5, <5>2 DEF Seen
        <5> QED
          BY <3>1, <4>4, <5>1, <5>2
      <4>6. Seen(role)'
        BY <4>5 DEF Seen
      <4> QED
        BY <1>4, <2>2, <3>1, <4>1, <4>6 DEF Whole
    <3> QED
      BY <3>4, <3>6, <3>7
  <2> QED
    BY <1>5, <2>3, <2>4, AnswerStep
<1>6. ASSUME Middleware \/ UNCHANGED vars PROVE waits' \in [Roles -> Seq(Answers)] /\ Whole'
  <2>1. /\ UNCHANGED <<step, code, waits>>
        /\ \/ UNCHANGED pc
           \/ \E role \in Roles : pc[role] = "asleep" /\ pc' = [pc EXCEPT ![role] = "step"]
    BY <1>6, MiddlewareGoes DEF vars
  <2>2. \A r \in Roles : pc'[r] = pc[r] \/ (pc[r] \notin Gone /\ pc'[r] \notin Gone)
    BY <1>2, <2>1 DEF Gone
  <2> QED
    BY <1>2, <1>4, <2>1, <2>2 DEF Whole
<1> QED
  BY <1>5, <1>6 DEF Next

-----------------------------------------------------------------------------
(* Samples and counters.                                                   *)

Sampled ==
    /\ index \in Nat /\ received \in 0..Len(took)
    /\ revoked \in [Roles -> 0..MaxRevocations]
    /\ took \in Seq(1..index) /\ wire \in Seq(1..index)

LEMMA SequenceFacts ==
    ASSUME NEW A, NEW B, A \subseteq B, NEW s \in Seq(A)
    PROVE  /\ s \in Seq(B) /\ <<>> \in Seq(A)
           /\ s # <<>> => Head(s) \in A /\ Tail(s) \in Seq(A)
           /\ \A b \in B : Append(s, b) \in Seq(B) /\ Len(Append(s, b)) = Len(s) + 1
<1>1. s \in Seq(B)
  <2>1. Len(s) \in Nat /\ s \in [1..Len(s) -> A]
    OBVIOUS
  <2>2. s \in [1..Len(s) -> B]
    BY <2>1
  <2> QED
    BY <2>1, <2>2
<1>2. s # <<>> => Head(s) \in A /\ Tail(s) \in Seq(A)
  OBVIOUS
<1> QED
  BY <1>1, <1>2

LEMMA CountStep ==
    ASSUME IInv, [Next]_vars
    PROVE  Sampled' /\ Counted'
<1>1. /\ Sampled /\ Counted /\ callback \in {"idle", "took", "counted"} /\ MaxRevocations \in Nat
      /\ Len(took) \in Nat /\ received \in Nat
  <2>1. Sampled /\ Counted /\ callback \in {"idle", "took", "counted"}
    BY DEF IInv, TypeOK, Sampled
  <2>2. Len(took) \in Nat
    BY <2>1 DEF Sampled
  <2>3. received \in Nat
    BY <2>1, <2>2 DEF Sampled
  <2> QED
    BY <2>1, <2>2, <2>3, ProbeAssumption
<1>2. ASSUME UNCHANGED <<received, callback, took>>, UNCHANGED revoked \/ revoked' \in [Roles -> 0..MaxRevocations],
             UNCHANGED <<index, wire>> \/ (UNCHANGED index /\ wire' = <<>>)
      PROVE  Sampled' /\ Counted'
  <2>1. index' = index /\ (wire' = wire \/ wire' = <<>>) /\ received' = received /\ took' = took /\ callback' = callback
    BY <1>2
  <2>2. wire' \in Seq(1..index) /\ revoked' \in [Roles -> 0..MaxRevocations]
    <3>1. wire \in Seq(1..index) /\ <<>> \in Seq(1..index)
      BY <1>1, SequenceFacts DEF Sampled
    <3> QED
      BY <1>1, <1>2, <2>1, <3>1 DEF Sampled
  <2> QED
    BY <1>1, <2>1, <2>2 DEF Sampled, Counted
<1>3. ASSUME NEW role \in Roles, Launch(role) \/ MainThread(role), ~Write(role)
      PROVE  Sampled' /\ Counted'
  <2>1. UNCHANGED <<received, callback, took, revoked, index>>
    BY <1>3 DEF Launch, MainThread, Create, Check, Sleep, TimeOut, Destroy, Disconnect, Reconnect, Delegate,
       Checkpoint, Finish, Unwind, countVars, wireVars
  <2>2. UNCHANGED wire \/ wire' = <<>>
    BY <1>3 DEF Launch, MainThread, Create, Check, Sleep, TimeOut, Destroy, Disconnect, Reconnect, Delegate,
       Checkpoint, Finish, Unwind, countVars, wireVars, DeleteEndpoint
  <2> QED
    BY <1>2, <2>1, <2>2
<1>4. ASSUME NEW role \in Roles, Write(role) PROVE Sampled' /\ Counted'
  <2>1. /\ UNCHANGED <<received, revoked, callback, took>>
        /\ index' = index + 1 \/ UNCHANGED index
        /\ \/ UNCHANGED wire
           \/ index' = index + 1 /\ wire' = Append(wire, index')
    BY <1>4 DEF Write, countVars
  <2>2. index' \in Nat /\ 1..index \subseteq 1..index' /\ (index' = index + 1 => index' \in 1..index')
    BY <1>1, <2>1 DEF Sampled
  <2>3. \A s \in Seq(1..index) : s \in Seq(1..index')
    BY <2>2, SequenceFacts
  <2>4. took \in Seq(1..index') /\ wire \in Seq(1..index')
    BY <1>1, <2>3 DEF Sampled
  <2>5. index' \in 1..index' => Append(wire, index') \in Seq(1..index')
    BY <2>4
  <2>6. wire' \in Seq(1..index')
    BY <2>1, <2>2, <2>4, <2>5
  <2> QED
    BY <1>1, <2>1, <2>2, <2>4, <2>6 DEF Sampled, Counted
<1>5. CASE Match \/ Unmatch \/ PublicationMatched
  BY <1>2, <1>5 DEF Match, Unmatch, PublicationMatched, countVars, wireVars
<1>6. ASSUME NEW role \in Roles, Revoke(role) PROVE Sampled' /\ Counted'
  <2>1. revoked' \in [Roles -> 0..MaxRevocations]
    BY <1>1, <1>6 DEF Revoke, Sampled
  <2>2. UNCHANGED <<index, received, callback, took, wire>>
    BY <1>6 DEF Revoke, wireVars
  <2> QED
    BY <1>2, <2>1, <2>2
<1>7. CASE Take
  <2>1. /\ wire \in Seq(1..index) /\ wire # <<>> /\ took \in Seq(1..index) /\ callback = "idle"
        /\ took' = Append(took, Head(wire)) /\ wire' = Tail(wire) /\ callback' = "took"
        /\ UNCHANGED <<index, received, revoked>>
    BY <1>1, <1>7 DEF Take, Sampled, countVars
  <2>2. Head(wire) \in 1..index /\ Tail(wire) \in Seq(1..index)
    BY <2>1, SequenceFacts
  <2>3. took' \in Seq(1..index) /\ Len(took') = Len(took) + 1
    BY <2>1, <2>2
  <2>4. received = Len(took)
    BY <1>1, <2>1 DEF Counted
  <2> QED
    BY <1>1, <2>1, <2>2, <2>3, <2>4 DEF Sampled, Counted
<1>8. CASE Count \/ Notify
  BY <1>1, <1>8 DEF Count, Notify, Sampled, Counted, countVars
<1>9. CASE UNCHANGED vars
  BY <1>2, <1>9 DEF vars
<1> QED
  BY <1>3, <1>4, <1>5, <1>6, <1>7, <1>8, <1>9 DEF Next, Middleware

-----------------------------------------------------------------------------
(* The theorems.                                                           *)

LEMMA InitInvariant == ASSUME Init PROVE IInv
<1>1. scene \in Scenes /\ \A role \in Roles : Len(Program(role)) \in Nat
  BY ProgramFacts DEF Init
<1>2. TypeOK
  <2>1. /\ pc \in [Roles -> Places] /\ code \in [Roles -> Statuses]
        /\ step \in [Roles -> Nat \ {0}] /\ \A role \in Roles : step[role] <= Len(Program(role)) + 1
    BY <1>1 DEF Init, Places, Statuses
  <2>2. /\ waits \in [Roles -> Seq(Answers)]
        /\ held \in [Roles -> SUBSET Range(Objects)] /\ epoch \in [Roles -> Nat]
    BY DEF Init
  <2>3. Sampled /\ matched \in {0, 1}
    BY ProbeAssumption DEF Init, Sampled
  <2> QED
    BY <2>1, <2>2, <2>3 DEF Init, TypeOK, Places, Statuses, Answers, Sampled
<1> QED
  BY <1>1, <1>2 DEF Init, IInv, Waiting, Owned, Whole, Seen, Gone, Counted, Linking, NothingDangles, Roles

LEMMA StepInvariant == ASSUME IInv, [Next]_vars PROVE IInv'
<1>1. scene' = scene /\ scene \in Scenes
  BY SceneKept DEF IInv
<1>2. MainTypes' /\ Waiting'
  BY MainStep
<1>3. Objective'
  BY ObjectiveStep
<1>4. epoch' \in [Roles -> Nat] /\ waits' \in [Roles -> Seq(Answers)] /\ Whole'
  BY EpochStep, WholeStep
<1>5. Sampled' /\ Counted'
  BY CountStep
<1>6. TypeOK'
  BY <1>2, <1>3, <1>4, <1>5, Objectives
     DEF TypeOK, MainTypes, Places, Statuses, Objective, Names, Answers, Sampled
<1> QED
  BY <1>1, <1>2, <1>3, <1>4, <1>5, <1>6 DEF IInv, Objective

\* The inductive invariant holds whatever the roles run and the middleware does.
THEOREM Invariant == Spec => []IInv
<1>1. Init => IInv
  BY InitInvariant
<1>2. IInv /\ [Next]_vars => IInv'
  BY StepInvariant
<1> QED
  BY <1>1, <1>2, PTL DEF Spec

\* The state of the probe keeps its types: counts never exceed what was reported.
THEOREM TypeCorrect == Spec => []TypeOK
<1>1. IInv => TypeOK
  BY DEF IInv
<1> QED
  BY <1>1, Invariant, PTL

\* Nothing outlives what it refers to, on every path out of the probe.
THEOREM OrderOfDestruction == Spec => []NothingDangles
<1>1. IInv => NothingDangles
  BY DEF IInv
<1> QED
  BY <1>1, Invariant, PTL

\* A probe that exits with 0 has seen what it waited for.
THEOREM CleanExit == Spec => []CleanExitIsWhole
<1>1. IInv => CleanExitIsWhole
  BY DEF IInv, Whole, Seen, Gone, CleanExitIsWhole
<1> QED
  BY <1>1, Invariant, PTL

-----------------------------------------------------------------------------
(* Answers.                                                                *)

LEMMA LastOfAppend ==
    ASSUME NEW s \in Seq(Answers), NEW answer \in Answers
    PROVE  Last(Append(s, answer)) = answer
<1>1. Len(Append(s, answer)) = Len(s) + 1 /\ Append(s, answer)[Len(s) + 1] = answer
  OBVIOUS
<1> QED
  BY <1>1 DEF Last

\* The answer to a wait is whether its predicate holds as it ends.
LEMMA AnswerTold ==
    ASSUME IInv, [Next]_vars, NEW role \in Roles, Ended(role)
    PROVE  /\ Performs(role, Waits)
           /\ Answer(role).operation = Current(role).operation
           /\ Answer(role).reached = Reached(role)
<1>1. waits \in [Roles -> Seq(Answers)]
  BY TypesOfIInv DEF Answers
<1>2. ~UNCHANGED waits
  <2>1. Len(waits[role]) \in Nat
    BY <1>1
  <2> QED
    BY <2>1 DEF Ended
<1>3. PICK r \in Roles : Launch(r) \/ MainThread(r)
  BY <1>2, MiddlewareGoes DEF Next, vars
<1>4. Check(r) \/ TimeOut(r)
  BY <1>2, <1>3 DEF Launch, MainThread, Create, Sleep, Destroy, Disconnect, Reconnect, Delegate,
     Checkpoint, Finish, Unwind, Write
<1>5. Performs(r, Waits)
  BY <1>4 DEF Check, TimeOut, IInv, Waiting
<1>6. PICK reached \in BOOLEAN : EndWait(r, reached) /\ reached = Reached(r)
  <2>1. Reached(r) \in BOOLEAN
    BY DEF Reached
  <2>2. CASE Check(r)
    BY <1>2, <2>1, <2>2 DEF Check
  <2>3. CASE TimeOut(r)
    BY <2>1, <2>3 DEF TimeOut
  <2> QED
    BY <1>4, <2>2, <2>3
<1> DEFINE answer == [operation |-> Current(r).operation, reached |-> reached]
<1>7. answer \in Answers
  BY <1>5 DEF Performs, Answers
<1>8. waits' = [waits EXCEPT ![r] = Append(@, answer)]
  BY <1>6 DEF EndWait
<1>9. answer.operation = Current(r).operation /\ answer.reached = Reached(r)
  BY <1>6
<1> HIDE DEF answer
<1>10. r = role
  <2>1. Len(waits[role]) \in Nat
    BY <1>1
  <2>2. CASE r # role
    BY <1>1, <1>8, <2>1, <2>2 DEF Ended
  <2> QED
    BY <2>2
<1>11. Answer(role) = answer
  BY <1>1, <1>7, <1>8, <1>10, LastOfAppend DEF Answer
<1> QED
  BY <1>5, <1>9, <1>10, <1>11

LEMMA ToldByReader ==
    ASSUME IInv, [Next]_vars, Ended("reader"), Answer("reader").operation \in {"sample.wait", "sample.observe"}
    PROVE  Answer("reader").reached =
                (Len(took) - (IF callback = "took" THEN 1 ELSE 0) >= Current("reader").target)
<1>1. "reader" \in Roles
  BY DEF Roles
<1>2. /\ Current("reader").operation \in {"sample.wait", "sample.observe"}
      /\ Answer("reader").reached = Reached("reader")
      /\ Performs("reader", Waits)
  BY <1>1, AnswerTold
<1>3. Reached("reader") = (Current("reader").target <= received)
  BY <1>2 DEF Reached
<1>4. Current("reader").target \in Nat
  <2>1. step["reader"] \in 1..Len(Program("reader"))
    BY <1>1, <1>2, TypesOfIInv DEF Performs, More
  <2> QED
    BY <1>1, <2>1, ProgramFacts DEF Current, IInv
<1>5. received = Len(took) - (IF callback = "took" THEN 1 ELSE 0) /\ received \in Nat
  <2>1. Len(took) \in Nat /\ received \in 0..Len(took)
    BY DEF IInv, TypeOK
  <2> QED
    BY <2>1 DEF IInv, Counted
<1>6. (Current("reader").target <= received) = (received >= Current("reader").target)
  BY <1>4, <1>5
<1> QED
  BY <1>2, <1>3, <1>5, <1>6

LEMMA ToldByWriter ==
    ASSUME IInv, [Next]_vars, Ended("writer"), Answer("writer").operation = "endpoint.wait_match",
           Answer("writer").reached
    PROVE  linked
<1>1. "writer" \in Roles
  BY DEF Roles
<1>2. Current("writer").operation = "endpoint.wait_match" /\ Reached("writer") /\ Performs("writer", Waits)
  BY <1>1, AnswerTold
<1>3. Current("writer").target <= matched
  BY <1>2 DEF Reached
<1>4. Current("writer").target \in Nat \ {0}
  <2>1. step["writer"] \in 1..Len(Program("writer"))
    BY <1>1, <1>2, TypesOfIInv DEF Performs, More
  <2> QED
    BY <1>1, <2>1, ProgramFacts DEF Current, IInv
<1>5. matched = 1
  BY <1>3, <1>4 DEF IInv, TypeOK
<1> QED
  BY <1>5 DEF IInv, Linking

\* Waits are answered by what was counted, whoever is woken, missed or late.
THEOREM WaitsTruthful == Spec => WaitsTellTheTruth
<1> DEFINE Told ==
        /\ Ended("reader") /\ Answer("reader").operation \in {"sample.wait", "sample.observe"}
           => Answer("reader").reached =
                 (Len(took) - (IF callback = "took" THEN 1 ELSE 0) >= Current("reader").target)
        /\ Ended("writer") /\ Answer("writer").operation = "endpoint.wait_match"
           /\ Answer("writer").reached => linked
<1>1. IInv /\ [Next]_vars => [Told]_vars
  BY ToldByReader, ToldByWriter
<1>2. Spec => [][Told]_vars
  BY <1>1, Invariant, PTL DEF Spec
<1> QED
  BY <1>2 DEF WaitsTellTheTruth

-----------------------------------------------------------------------------
(* Roles of schedules.                                                     *)

\* A role of a schedule is the role of that actor, launched by its rank.
LEMMA RoleFound ==
    ASSUME NEW base, NEW actor \in Actors(base)
    PROVE  /\ RoleOf(base, actor).actor = actor
           /\ \E i \in DOMAIN base : RoleOf(base, actor) = base[i]
<1>1. \E role \in Range(base) : role.actor = actor
  BY DEF Actors, Range
<1>2. RoleOf(base, actor) \in Range(base) /\ RoleOf(base, actor).actor = actor
  BY <1>1 DEF RoleOf
<1> QED
  BY <1>2 DEF Range

Planned(role, d) ==
    IF d.crossing # NoCrossing /\ d.crossing.actor = role.actor
    THEN Crossed(Delayed(role.plan, d), d.crossing.slot) ELSE Delayed(role.plan, d)

LEMMA ScheduleFields ==
    ASSUME NEW base \in Seq(RoleCommand), NEW d, NEW rank \in DOMAIN d.order, d.order[rank] \in Actors(base)
    PROVE  LET role == RoleOf(base, d.order[rank])
               scheduled == Schedule(base, d)[rank]
           IN /\ role \in RoleCommand
              /\ scheduled.actor = role.actor
              /\ scheduled.offset = (rank - 1) * d.spacing
              /\ scheduled.after = IF d.barriers = "relaxed" THEN {} ELSE role.after
              /\ scheduled.plan = Planned(role, d)
<1> DEFINE role == RoleOf(base, d.order[rank])
<1>1. role \in RoleCommand
  <2>1. \E i \in DOMAIN base : role = base[i]
    BY RoleFound
  <2> QED
    BY <2>1
<1>2. Schedule(base, d)[rank] =
        [role EXCEPT !.offset = (rank - 1) * d.spacing,
                     !.after = IF d.barriers = "relaxed" THEN {} ELSE @,
                     !.plan = Planned(role, d)]
  BY DEF Schedule, Planned
<1> HIDE DEF role
<1>3. Schedule(base, d)[rank].plan = Planned(role, d)
  BY <1>1, <1>2 DEF RoleCommand
<1>4. Schedule(base, d)[rank].after = IF d.barriers = "relaxed" THEN {} ELSE role.after
  BY <1>1, <1>2 DEF RoleCommand
<1>5. Schedule(base, d)[rank].offset = (rank - 1) * d.spacing /\ Schedule(base, d)[rank].actor = role.actor
  BY <1>1, <1>2 DEF RoleCommand
<1> QED
  BY <1>1, <1>3, <1>4, <1>5 DEF role

\* What the control says of the scenario it is the control of.
OneRoleEach(base) == \A i, j \in DOMAIN base : base[i].actor = base[j].actor => i = j
PlanParses(plan) ==
    /\ \A j, k \in DOMAIN plan : plan[j].id = plan[k].id => j = k
    /\ \A k \in DOMAIN plan :
        /\ plan[k].at >= 0
        /\ k > 1 => plan[k - 1].at <= plan[k].at
Earlier(base, i) == \A actor \in base[i].after : \E j \in 1..(i - 1) : base[j].actor = actor

LEMMA ParsesParts ==
    ASSUME NEW scenario
    PROVE  Parses(scenario) <=>
              /\ OneRoleEach(scenario)
              /\ \A i \in DOMAIN scenario :
                    Earlier(scenario, i) /\ scenario[i].offset >= 0 /\ PlanParses(scenario[i].plan)
BY Zenon DEF Parses, OneRoleEach, PlanParses, Earlier

LEMMA ScheduledActors ==
    ASSUME NEW base \in Seq(RoleCommand), NEW d, NEW rank \in DOMAIN d.order, d.order[rank] \in Actors(base)
    PROVE  Schedule(base, d)[rank].actor = d.order[rank]
BY RoleFound, ScheduleFields

LEMMA OwnRole ==
    ASSUME NEW base, OneRoleEach(base), NEW i \in DOMAIN base
    PROVE  RoleOf(base, base[i].actor) = base[i]
<1>1. base[i].actor \in Actors(base)
  BY DEF Actors
<1>2. PICK j \in DOMAIN base : RoleOf(base, base[i].actor) = base[j]
  BY <1>1, RoleFound
<1>3. base[j].actor = base[i].actor
  BY <1>1, <1>2, RoleFound
<1> QED
  BY <1>2, <1>3 DEF OneRoleEach

LEMMA ControlTells ==
    ASSUME NEW base \in Seq(RoleCommand), Parses(Schedule(base, Control(base)))
    PROVE  /\ OneRoleEach(base)
           /\ \A i \in DOMAIN base : Earlier(base, i) /\ PlanParses(base[i].plan)
<1> DEFINE c == Control(base)
           control == Schedule(base, c)
<1>1. /\ c.order = Order(base) /\ c.spacing = 0 /\ c.barriers = "preserve"
      /\ c.jitter = 0 /\ c.boundary = 0 /\ c.crossing = NoCrossing
  BY DEF Control, Descriptor
<1>2. DOMAIN c.order = DOMAIN base /\ \A i \in DOMAIN base : c.order[i] = base[i].actor /\ c.order[i] \in Actors(base)
  BY <1>1 DEF Order, Actors
<1>3. DOMAIN control = DOMAIN base
  BY <1>2 DEF Schedule
<1>4. \A i \in DOMAIN base : control[i].actor = base[i].actor
  <2> HIDE DEF c
  <2> QED
    BY <1>2, ScheduledActors
<1>5. OneRoleEach(control) /\ \A i \in DOMAIN control : Earlier(control, i) /\ PlanParses(control[i].plan)
  BY ParsesParts
<1>6. OneRoleEach(base)
  BY <1>3, <1>4, <1>5 DEF OneRoleEach
<1>7. ASSUME NEW i \in DOMAIN base
      PROVE  control[i].after = base[i].after /\ control[i].plan = base[i].plan
  <2>1. RoleOf(base, c.order[i]) = base[i]
    BY <1>2, <1>6, OwnRole
  <2>2. control[i].after = base[i].after /\ control[i].plan = Planned(base[i], c)
    <3> HIDE DEF c
    <3> QED
      BY <1>1, <1>2, <2>1, ScheduleFields
  <2>3. Planned(base[i], c) = base[i].plan
    BY <1>1 DEF Planned, Delayed
  <2> QED
    BY <2>2, <2>3
<1>8. ASSUME NEW i \in DOMAIN base
      PROVE  Earlier(base, i) /\ PlanParses(base[i].plan)
  <2>1. i \in Nat /\ DOMAIN base = 1..Len(base) /\ Len(base) \in Nat
    OBVIOUS
  <2>2. 1..(i - 1) \subseteq DOMAIN base
    BY <2>1
  <2>3. Earlier(control, i)
    BY <1>3, <1>5
  <2>4. Earlier(base, i)
    <3> HIDE DEF control
    <3> QED
      BY <1>4, <1>7, <2>2, <2>3 DEF Earlier
  <2>5. PlanParses(control[i].plan)
    BY <1>3, <1>5
  <2> QED
    BY <1>7, <2>4, <2>5
<1> QED
  BY <1>6, <1>8

-----------------------------------------------------------------------------
(* Descriptors.                                                            *)

Ranked(order, base) ==
    /\ \A r \in DOMAIN order : order[r] \in Actors(base)
    /\ \A q, r \in DOMAIN order : order[q] = order[r] => q = r
    /\ \A actor \in Actors(base) : \E r \in DOMAIN order : order[r] = actor
    /\ DOMAIN order \subseteq Nat \ {0}

\* A permutation of the actors ranks each of them once.
LEMMA PermutationsRank ==
    ASSUME NEW base \in Seq(RoleCommand), NEW order \in SetToSeqs(Actors(base))
    PROVE  Ranked(order, base)
<1> DEFINE n == Cardinality(Actors(base))
<1>1. IsFiniteSet(Actors(base)) /\ n \in Nat
  <2> DEFINE f == [i \in 1..Len(base) |-> base[i].actor]
  <2>1. Len(base) \in Nat /\ DOMAIN base = 1..Len(base)
    OBVIOUS
  <2>2. f \in Surjection(1..Len(base), Actors(base))
    BY <2>1 DEF Surjection, Actors
  <2>3. IsFiniteSet(1..Len(base))
    BY <2>1, FS_Interval
  <2>4. IsFiniteSet(Actors(base))
    <3> HIDE DEF f
    <3> QED
      BY <2>2, <2>3, FS_Surjection
  <2> QED
    BY <2>4, FS_CardinalityType
<1>2. order \in [1..n -> Actors(base)] /\ \A i, j \in 1..n : i # j => order[i] # order[j]
  BY Zenon DEF SetToSeqs
<1>3. order \in Injection(1..n, Actors(base))
  BY <1>2 DEF Injection, IsInjective
<1>4. Cardinality(1..n) = n
  <2>1. n \in Int /\ 1 \in Int
    BY <1>1
  <2> HIDE DEF n
  <2>2. Cardinality(1..n) = IF 1 > n THEN 0 ELSE n - 1 + 1
    BY <2>1, FS_Interval
  <2> QED
    BY <1>1, <2>2
<1>5. order \in Surjection(1..n, Actors(base))
  BY <1>1, <1>3, <1>4, FS_Injection
<1> HIDE DEF n
<1>6. \A actor \in Actors(base) : \E r \in 1..n : order[r] = actor
  BY <1>5 DEF Surjection
<1>7. DOMAIN order = 1..n /\ 1..n \subseteq Nat \ {0}
  BY <1>1, <1>2
<1> QED
  BY <1>2, <1>6, <1>7 DEF Ranked

LEMMA OrderRanks ==
    ASSUME NEW base \in Seq(RoleCommand), OneRoleEach(base)
    PROVE  Ranked(Order(base), base)
<1>1. DOMAIN Order(base) = DOMAIN base /\ \A i \in DOMAIN base : Order(base)[i] = base[i].actor
  BY DEF Order
<1>2. DOMAIN base \subseteq Nat \ {0}
  <2>1. Len(base) \in Nat /\ DOMAIN base = 1..Len(base)
    OBVIOUS
  <2> QED
    BY <2>1
<1>3. \A q, r \in DOMAIN base : base[q].actor = base[r].actor => q = r
  BY DEF OneRoleEach
<1> QED
  BY <1>1, <1>2, <1>3 DEF Ranked, Actors

\* A schedule keeps the order of the roles or relaxes their barriers, and one
\* that crosses two actions does nothing else.
LEMMA DescriptorKinds ==
    ASSUME NEW base, NEW options, NEW d \in Descriptors(base, options)
    PROVE  /\ d.order = Order(base) \/ (d.barriers = "relaxed" /\ d.order \in SetToSeqs(Actors(base)))
           /\ d.crossing # NoCrossing =>
                d.crossing \in Crossings(base) /\ d.order = Order(base) /\ d.jitter = 0 /\ d.boundary = 0
<1>1. \/ d = Control(base)
      \/ d \in Grid({Order(base)}, "preserve", options)
      \/ d \in Grid(SetToSeqs(Actors(base)), "relaxed", options)
      \/ \E c \in Crossings(base) : d = [Control(base) EXCEPT !.crossing = c]
  BY DEF Descriptors
<1>2. CASE d = Control(base)
  BY <1>2 DEF Control, Descriptor
<1>3. CASE d \in Grid({Order(base)}, "preserve", options)
  <2>1. PICK spacing, jitter, boundary : d = Descriptor(Order(base), spacing, "preserve", jitter, boundary, NoCrossing)
    BY <1>3 DEF Grid
  <2> QED
    BY <2>1 DEF Descriptor
<1>4. CASE d \in Grid(SetToSeqs(Actors(base)), "relaxed", options)
  <2>1. PICK order \in SetToSeqs(Actors(base)) :
            \E spacing, jitter, boundary : d = Descriptor(order, spacing, "relaxed", jitter, boundary, NoCrossing)
    BY <1>4 DEF Grid
  <2>2. d.order = order /\ d.barriers = "relaxed" /\ d.crossing = NoCrossing
    BY <2>1 DEF Descriptor
  <2> QED
    BY <2>1, <2>2
<1>5. CASE \E c \in Crossings(base) : d = [Control(base) EXCEPT !.crossing = c]
  <2>1. PICK c \in Crossings(base) : d = [Control(base) EXCEPT !.crossing = c]
    BY <1>5
  <2>2. d.order = Order(base) /\ d.jitter = 0 /\ d.boundary = 0 /\ d.crossing = c
    BY <2>1 DEF Control, Descriptor
  <2> QED
    BY <2>1, <2>2
<1> QED
  BY <1>1, <1>2, <1>3, <1>4, <1>5

LEMMA CrossingsCross ==
    ASSUME NEW base, OneRoleEach(base), NEW c \in Crossings(base)
    PROVE  /\ c.actor \in Actors(base)
           /\ LET plan == RoleOf(base, c.actor).plan IN
              /\ c.slot \in 1..(Len(plan) - 1)
              /\ \E k \in {c.slot, c.slot + 1} : plan[k].operation \in CausalBoundary
<1>1. PICK i \in DOMAIN base :
        \E s \in 1..(Len(base[i].plan) - 1) :
            /\ c = [actor |-> base[i].actor, slot |-> s]
            /\ {base[i].plan[s].operation, base[i].plan[s + 1].operation} \cap CausalBoundary # {}
  BY DEF Crossings
<1>2. c.actor = base[i].actor /\ c.slot \in 1..(Len(base[i].plan) - 1)
      /\ {base[i].plan[c.slot].operation, base[i].plan[c.slot + 1].operation} \cap CausalBoundary # {}
  BY <1>1
<1>3. RoleOf(base, c.actor) = base[i]
  BY <1>2, OwnRole
<1> QED
  BY <1>2, <1>3 DEF Actors

-----------------------------------------------------------------------------
(* Plans.                                                                  *)

\* A role's times, each at least the one before.
Accumulates(plan, d, n, at) ==
    at = [k \in 0..n |-> IF k = 0 THEN 0 ELSE AtLeast(at[k - 1], Moved(plan[k], d))]

LEMMA AccumulationExists ==
    ASSUME NEW plan, NEW d, NEW n \in Nat
    PROVE  \E at : Accumulates(plan, d, n, at)
<1> DEFINE Missing == {k \in Nat : ~ \E at : Accumulates(plan, d, k, at)}
<1>1. \E at : Accumulates(plan, d, 0, at)
  <2> DEFINE at == [k \in 0..0 |-> 0]
  <2>1. at = [k \in 0..0 |-> IF k = 0 THEN 0 ELSE AtLeast(at[k - 1], Moved(plan[k], d))]
    OBVIOUS
  <2> QED
    BY <2>1 DEF Accumulates
<1>2. ASSUME NEW k \in Nat, NEW at, Accumulates(plan, d, k, at)
      PROVE  \E longer : Accumulates(plan, d, k + 1, longer)
  <2> DEFINE longer == [j \in 0..(k + 1) |->
                            IF j = k + 1 THEN AtLeast(at[k], Moved(plan[k + 1], d)) ELSE at[j]]
  <2>1. \A j \in 0..k : at[j] = IF j = 0 THEN 0 ELSE AtLeast(at[j - 1], Moved(plan[j], d))
    <3>1. at = [j \in 0..k |-> IF j = 0 THEN 0 ELSE AtLeast(at[j - 1], Moved(plan[j], d))]
      BY <1>2 DEF Accumulates
    <3> QED
      BY <3>1
  <2>2. ASSUME NEW j \in 0..(k + 1)
        PROVE  longer[j] = IF j = 0 THEN 0 ELSE AtLeast(longer[j - 1], Moved(plan[j], d))
    <3>1. CASE j = k + 1
      <4>1. j # 0 /\ j - 1 = k /\ k \in 0..(k + 1) /\ k # k + 1
        BY <3>1
      <4>2. longer[j] = AtLeast(at[k], Moved(plan[j], d)) /\ longer[k] = at[k]
        BY <3>1, <4>1
      <4> HIDE DEF longer
      <4> QED
        BY <4>1, <4>2
    <3>2. CASE j # k + 1
      <4>1. j \in 0..k
        BY <3>2
      <4>2. j # 0 => j - 1 \in 0..k
        BY <4>1
      <4>3. longer[j] = at[j] /\ (j # 0 => longer[j - 1] = at[j - 1])
        BY <4>1, <4>2
      <4> HIDE DEF longer
      <4> QED
        BY <2>1, <4>1, <4>3
    <3> QED
      BY <3>1, <3>2
  <2>3. longer = [j \in 0..(k + 1) |-> longer[j]]
    OBVIOUS
  <2> HIDE DEF longer
  <2>4. longer = [j \in 0..(k + 1) |-> IF j = 0 THEN 0 ELSE AtLeast(longer[j - 1], Moved(plan[j], d))]
    BY <2>2, <2>3
  <2> QED
    BY <2>4 DEF Accumulates
<1>3. Missing = {}
  <2> SUFFICES ASSUME Missing # {} PROVE FALSE
    OBVIOUS
  <2>1. PICK k \in Missing : \A j \in Missing : k <= j
    <3>1. Missing \subseteq Nat
      OBVIOUS
    <3> HIDE DEF Missing
    <3> QED
      BY <3>1, LeastMember
  <2>2. k # 0 /\ k \in Nat
    BY <1>1, <2>1
  <2>3. k - 1 \in Nat /\ ~(k <= k - 1)
    BY <2>2
  <2>4. k - 1 \notin Missing
    BY <2>1, <2>3
  <2>5. PICK at : Accumulates(plan, d, k - 1, at)
    BY <2>3, <2>4
  <2>6. (k - 1) + 1 = k
    BY <2>2
  <2>7. \E longer : Accumulates(plan, d, k, longer)
    BY <1>2, <2>3, <2>5, <2>6
  <2> QED
    BY <2>1, <2>7
<1> QED
  BY <1>3

SamePlaces(plan, timed) ==
    /\ timed \in Seq(RoleAction) /\ DOMAIN timed = DOMAIN plan
    /\ \A k \in DOMAIN plan : timed[k].id = plan[k].id /\ timed[k].operation = plan[k].operation

LEMMA FunctionIsSequence ==
    ASSUME NEW S, NEW n \in Nat, NEW s \in [1..n -> S]
    PROVE  s \in Seq(S)
OBVIOUS

\* Delays keep the places of actions, and their times in order.
LEMMA DelaysParse ==
    ASSUME NEW plan \in Seq(RoleAction), NEW d, d.jitter \in Nat, d.boundary \in Int, PlanParses(plan)
    PROVE  SamePlaces(plan, Delayed(plan, d)) /\ PlanParses(Delayed(plan, d))
<1>0. Len(plan) \in Nat /\ DOMAIN plan = 1..Len(plan) /\ \A k \in 1..Len(plan) : plan[k] \in RoleAction
  OBVIOUS
<1>1. CASE d.jitter = 0 /\ d.boundary = 0
  BY <1>1 DEF Delayed, SamePlaces
<1>2. CASE ~(d.jitter = 0 /\ d.boundary = 0)
  <2> DEFINE at == CHOOSE f : Accumulates(plan, d, Len(plan), f)
  <2>1. Delayed(plan, d) = [k \in DOMAIN plan |-> [plan[k] EXCEPT !.at = at[k]]]
    BY <1>2 DEF Delayed, Accumulates
  <2>2. Accumulates(plan, d, Len(plan), at)
    BY <1>0, AccumulationExists
  <2> HIDE DEF at
  <2>3. \A k \in 0..Len(plan) : at[k] = IF k = 0 THEN 0 ELSE AtLeast(at[k - 1], Moved(plan[k], d))
    <3>1. at = [k \in 0..Len(plan) |-> IF k = 0 THEN 0 ELSE AtLeast(at[k - 1], Moved(plan[k], d))]
      BY <2>2 DEF Accumulates
    <3> QED
      BY <3>1
  <2>4. \A k \in 1..Len(plan) : Moved(plan[k], d) \in Int /\ Moved(plan[k], d) >= 0
    <3> SUFFICES ASSUME NEW k \in 1..Len(plan) PROVE Moved(plan[k], d) \in Int /\ Moved(plan[k], d) >= 0
      OBVIOUS
    <3>1. plan[k].at \in Int /\ plan[k].direction \in {-1, 0, 1}
      BY <1>0 DEF RoleAction
    <3>2. plan[k].direction * d.jitter \in Int
      BY <3>1
    <3> DEFINE boundary == IF plan[k].operation \in Boundary THEN d.boundary ELSE 0
    <3>3. boundary \in Int
      OBVIOUS
    <3>4. Moved(plan[k], d) = AtLeast(0, plan[k].at + plan[k].direction * d.jitter + boundary)
      BY DEF Moved
    <3> HIDE DEF boundary
    <3> QED
      BY <3>1, <3>2, <3>3, <3>4 DEF AtLeast
  <2>5. \A k \in 0..Len(plan) : at[k] \in Nat
    <3> DEFINE Wrong == {k \in Nat : k \in 0..Len(plan) /\ at[k] \notin Nat}
    <3> SUFFICES ASSUME Wrong # {} PROVE FALSE
      BY <1>0
    <3>1. PICK k \in Wrong : \A j \in Wrong : k <= j
      <4>1. Wrong \subseteq Nat
        OBVIOUS
      <4> HIDE DEF Wrong
      <4> QED
        BY <4>1, LeastMember
    <3>2. k # 0 /\ k \in 0..Len(plan)
      BY <2>3, <3>1
    <3>3. k - 1 \in Nat /\ ~(k <= k - 1) /\ k - 1 \in 0..Len(plan) /\ k \in 1..Len(plan)
      BY <1>0, <3>2
    <3>4. at[k - 1] \in Nat
      BY <3>1, <3>3
    <3>5. at[k] = AtLeast(at[k - 1], Moved(plan[k], d))
      BY <2>3, <3>2
    <3>6. at[k] \in Nat
      BY <2>4, <3>3, <3>4, <3>5 DEF AtLeast
    <3> QED
      BY <3>1, <3>6
  <2>6. \A k \in 1..Len(plan) : at[k] \in Nat /\ at[k - 1] \in Nat /\ at[k - 1] <= at[k]
    <3> SUFFICES ASSUME NEW k \in 1..Len(plan) PROVE at[k] \in Nat /\ at[k - 1] \in Nat /\ at[k - 1] <= at[k]
      OBVIOUS
    <3>1. k \in 0..Len(plan) /\ k - 1 \in 0..Len(plan) /\ k # 0
      BY <1>0
    <3>2. at[k] = AtLeast(at[k - 1], Moved(plan[k], d)) /\ at[k] \in Nat /\ at[k - 1] \in Nat
      BY <2>3, <2>5, <3>1
    <3> QED
      BY <2>4, <3>2 DEF AtLeast
  <2>7. ASSUME NEW k \in 1..Len(plan)
        PROVE  /\ Delayed(plan, d)[k] \in RoleAction
               /\ Delayed(plan, d)[k].at = at[k]
               /\ Delayed(plan, d)[k].id = plan[k].id /\ Delayed(plan, d)[k].operation = plan[k].operation
    <3>1. Delayed(plan, d)[k] = [plan[k] EXCEPT !.at = at[k]]
      BY <1>0, <2>1
    <3>2. plan[k] \in RoleAction /\ at[k] \in Int
      BY <1>0, <2>6
    <3> QED
      BY <3>1, <3>2 DEF RoleAction
  <2> DEFINE timed == Delayed(plan, d)
  <2>8. timed \in [1..Len(plan) -> RoleAction]
    BY <1>0, <2>1, <2>7
  <2>9. timed \in Seq(RoleAction) /\ DOMAIN timed = DOMAIN plan
    BY <1>0, <2>8, FunctionIsSequence
  <2>10. SamePlaces(plan, timed)
    BY <1>0, <2>7, <2>9 DEF SamePlaces
  <2>11. PlanParses(timed)
    <3> HIDE DEF timed
    <3>1. \A k \in 1..Len(plan) : timed[k].id = plan[k].id /\ timed[k].at = at[k]
      BY <2>7 DEF timed
    <3>2. \A j, k \in DOMAIN plan : plan[j].id = plan[k].id => j = k
      BY DEF PlanParses
    <3>3. \A k \in 1..Len(plan) : k > 1 => k - 1 \in 1..Len(plan)
      BY <1>0
    <3>4. \A k \in 1..Len(plan) : timed[k].at >= 0 /\ (k > 1 => timed[k - 1].at <= timed[k].at)
      BY <1>0, <2>6, <3>1, <3>3
    <3> QED
      BY <1>0, <2>9, <3>1, <3>2, <3>4 DEF PlanParses
  <2> QED
    BY <2>10, <2>11
<1> QED
  BY <1>1, <1>2

Swap(s, k) == IF k = s THEN s + 1 ELSE IF k = s + 1 THEN s ELSE k

\* A crossing exchanges two adjacent actions and leaves the times in their slots.
LEMMA CrossedPlaces ==
    ASSUME NEW plan \in Seq(RoleAction), NEW s \in 1..(Len(plan) - 1)
    PROVE  /\ Crossed(plan, s) \in Seq(RoleAction) /\ DOMAIN Crossed(plan, s) = DOMAIN plan
           /\ \A k \in DOMAIN plan :
                /\ Swap(s, k) \in DOMAIN plan
                /\ Crossed(plan, s)[k].at = plan[k].at
                /\ Crossed(plan, s)[k].id = plan[Swap(s, k)].id
<1>1. Len(plan) \in Nat /\ DOMAIN plan = 1..Len(plan) /\ \A k \in 1..Len(plan) : plan[k] \in RoleAction
  OBVIOUS
<1>2. \A k \in 1..Len(plan) : Swap(s, k) \in 1..Len(plan)
  BY <1>1 DEF Swap
<1>3. Crossed(plan, s) = [k \in DOMAIN plan |-> [plan[Swap(s, k)] EXCEPT !.at = plan[k].at]]
  BY DEF Crossed, Swap
<1>4. ASSUME NEW k \in 1..Len(plan)
      PROVE  /\ Crossed(plan, s)[k] \in RoleAction
             /\ Crossed(plan, s)[k].at = plan[k].at
             /\ Crossed(plan, s)[k].id = plan[Swap(s, k)].id
  <2>1. Crossed(plan, s)[k] = [plan[Swap(s, k)] EXCEPT !.at = plan[k].at]
    BY <1>1, <1>3
  <2>2. plan[Swap(s, k)] \in RoleAction /\ plan[k].at \in Int
    BY <1>1, <1>2 DEF RoleAction
  <2> QED
    BY <2>1, <2>2 DEF RoleAction
<1>5. Crossed(plan, s) \in [1..Len(plan) -> RoleAction]
  BY <1>1, <1>3, <1>4
<1>6. Crossed(plan, s) \in Seq(RoleAction) /\ DOMAIN Crossed(plan, s) = 1..Len(plan)
  BY <1>1, <1>5, FunctionIsSequence
<1> QED
  BY <1>1, <1>2, <1>4, <1>6

LEMMA CrossedParses ==
    ASSUME NEW plan \in Seq(RoleAction), NEW s \in 1..(Len(plan) - 1), PlanParses(plan)
    PROVE  PlanParses(Crossed(plan, s))
<1> DEFINE crossed == Crossed(plan, s)
<1>1. Len(plan) \in Nat /\ DOMAIN plan = 1..Len(plan)
  OBVIOUS
<1>2. /\ DOMAIN crossed = 1..Len(plan)
      /\ \A k \in 1..Len(plan) :
            Swap(s, k) \in 1..Len(plan) /\ crossed[k].at = plan[k].at /\ crossed[k].id = plan[Swap(s, k)].id
  BY <1>1, CrossedPlaces
<1> HIDE DEF crossed
<1>3. \A j, k \in 1..Len(plan) : Swap(s, j) = Swap(s, k) => j = k
  BY <1>1 DEF Swap
<1>4. \A j, k \in 1..Len(plan) : plan[j].id = plan[k].id => j = k
  BY <1>1 DEF PlanParses
<1>5. \A k \in 1..Len(plan) : plan[k].at >= 0 /\ (k > 1 => plan[k - 1].at <= plan[k].at /\ k - 1 \in 1..Len(plan))
  BY <1>1 DEF PlanParses
<1>6. ASSUME NEW j \in 1..Len(plan), NEW k \in 1..Len(plan), crossed[j].id = crossed[k].id
      PROVE  j = k
  <2>1. plan[Swap(s, j)].id = plan[Swap(s, k)].id /\ Swap(s, j) \in 1..Len(plan) /\ Swap(s, k) \in 1..Len(plan)
    BY <1>2, <1>6
  <2>2. Swap(s, j) = Swap(s, k)
    BY <1>4, <2>1
  <2> QED
    BY <1>3, <2>2
<1>7. \A k \in 1..Len(plan) : crossed[k].at >= 0 /\ (k > 1 => crossed[k - 1].at <= crossed[k].at)
  BY <1>2, <1>5
<1> QED
  BY <1>2, <1>6, <1>7 DEF PlanParses, crossed

-----------------------------------------------------------------------------
(* Schedules.                                                              *)

\* What a base and a descriptor of it are, once the control has been parsed.
Sound(base, d) ==
    /\ base \in Seq(RoleCommand) /\ OneRoleEach(base)
    /\ \A i \in DOMAIN base : Earlier(base, i) /\ PlanParses(base[i].plan)
    /\ d.spacing \in Nat /\ d.jitter \in Nat /\ d.boundary \in Int
    /\ Ranked(d.order, base)
    /\ d.order = Order(base) \/ d.barriers = "relaxed"
    /\ d.crossing # NoCrossing =>
        d.crossing \in Crossings(base) /\ d.order = Order(base) /\ d.jitter = 0 /\ d.boundary = 0

LEMMA GeneratedSound ==
    ASSUME NEW base, NEW d, Generates(base, d)
    PROVE  Sound(base, d)
<1>1. base \in Seq(RoleCommand) /\ Parses(Schedule(base, Control(base)))
      /\ d.spacing \in Nat /\ d.jitter \in Nat /\ d.boundary \in Int
  BY DEF Generates
<1>2. PICK options : d \in Descriptors(base, options)
  BY DEF Generates
<1>3. OneRoleEach(base) /\ \A i \in DOMAIN base : Earlier(base, i) /\ PlanParses(base[i].plan)
  BY <1>1, ControlTells
<1>4. /\ d.order = Order(base) \/ (d.barriers = "relaxed" /\ d.order \in SetToSeqs(Actors(base)))
      /\ d.crossing # NoCrossing =>
            d.crossing \in Crossings(base) /\ d.order = Order(base) /\ d.jitter = 0 /\ d.boundary = 0
  BY <1>2, DescriptorKinds
<1>5. Ranked(d.order, base)
  BY <1>1, <1>3, <1>4, OrderRanks, PermutationsRank
<1> QED
  BY <1>1, <1>3, <1>4, <1>5 DEF Sound

LEMMA ScheduledRoles ==
    ASSUME NEW base, NEW d, Sound(base, d)
    PROVE  LET schedule == Schedule(base, d) IN
           /\ DOMAIN schedule = DOMAIN d.order
           /\ \A r \in DOMAIN schedule :
                d.order[r] \in Actors(base) /\ schedule[r].actor = d.order[r]
           /\ OneRoleEach(schedule)
           /\ Actors(schedule) = Actors(base)
<1> DEFINE schedule == Schedule(base, d)
<1>1. base \in Seq(RoleCommand) /\ Ranked(d.order, base)
  BY DEF Sound
<1>2. DOMAIN schedule = DOMAIN d.order
  BY DEF Schedule
<1>3. \A r \in DOMAIN schedule : d.order[r] \in Actors(base) /\ schedule[r].actor = d.order[r]
  BY <1>1, <1>2, ScheduledActors DEF Ranked
<1> HIDE DEF schedule
<1>4. OneRoleEach(schedule)
  BY <1>1, <1>2, <1>3 DEF OneRoleEach, Ranked
<1>5. Actors(schedule) = Actors(base)
  <2>1. Actors(schedule) = {d.order[r] : r \in DOMAIN d.order}
    BY <1>2, <1>3 DEF Actors
  <2>2. {d.order[r] : r \in DOMAIN d.order} = Actors(base)
    BY <1>1 DEF Ranked
  <2> QED
    BY <2>1, <2>2
<1> QED
  BY <1>2, <1>3, <1>4, <1>5 DEF schedule

LEMMA PlanOf ==
    ASSUME NEW base, NEW d, Sound(base, d), NEW actor \in Actors(base)
    PROVE  LET role == RoleOf(base, actor) IN
           /\ role.actor = actor
           /\ role.plan \in Seq(RoleAction) /\ PlanParses(role.plan)
           /\ RoleOf(Schedule(base, d), actor).plan = Planned(role, d)
<1> DEFINE schedule == Schedule(base, d)
<1>1. base \in Seq(RoleCommand) /\ Ranked(d.order, base)
  BY DEF Sound
<1>2. PICK i \in DOMAIN base : RoleOf(base, actor) = base[i]
  BY RoleFound
<1>3. RoleOf(base, actor).actor = actor
  BY RoleFound
<1>4. base[i] \in RoleCommand /\ base[i].plan \in Seq(RoleAction) /\ PlanParses(base[i].plan)
  <2>1. base[i] \in RoleCommand
    BY <1>1
  <2>2. base[i].plan \in Seq(RoleAction)
    BY <2>1 DEF RoleCommand
  <2> QED
    BY <2>1, <2>2 DEF Sound
<1>5. PICK r \in DOMAIN d.order : d.order[r] = actor
  BY <1>1 DEF Ranked
<1>6. OneRoleEach(schedule) /\ r \in DOMAIN schedule /\ schedule[r].actor = actor
  BY <1>5, ScheduledRoles
<1>7. RoleOf(schedule, actor) = schedule[r]
  <2> HIDE DEF schedule
  <2> QED
    BY <1>6, OwnRole
<1>8. schedule[r].plan = Planned(RoleOf(base, actor), d)
  BY <1>1, <1>5, ScheduleFields
<1> QED
  BY <1>2, <1>3, <1>4, <1>7, <1>8

LEMMA PlannedParses ==
    ASSUME NEW base, NEW d, Sound(base, d), NEW actor \in Actors(base)
    PROVE  PlanParses(Planned(RoleOf(base, actor), d))
<1> DEFINE role == RoleOf(base, actor)
<1>1. role.actor = actor /\ role.plan \in Seq(RoleAction) /\ PlanParses(role.plan)
  BY PlanOf
<1>2. SamePlaces(role.plan, Delayed(role.plan, d)) /\ PlanParses(Delayed(role.plan, d))
  BY <1>1, DelaysParse DEF Sound
<1> HIDE DEF role
<1>3. CASE d.crossing # NoCrossing /\ d.crossing.actor = role.actor
  <2>1. d.crossing \in Crossings(base) /\ OneRoleEach(base) /\ d.jitter = 0 /\ d.boundary = 0
    BY <1>3 DEF Sound
  <2>2. d.crossing.slot \in 1..(Len(role.plan) - 1)
    BY <1>1, <1>3, <2>1, CrossingsCross DEF role
  <2>3. Planned(role, d) = Crossed(role.plan, d.crossing.slot)
    BY <1>3, <2>1 DEF Planned, Delayed
  <2> QED
    BY <1>1, <2>2, <2>3, CrossedParses DEF role
<1>4. CASE ~(d.crossing # NoCrossing /\ d.crossing.actor = role.actor)
  BY <1>2, <1>4 DEF Planned, role
<1> QED
  BY <1>3, <1>4

\* The parser accepts what is generated.
LEMMA SchedulesParse ==
    ASSUME NEW base, NEW d, Sound(base, d)
    PROVE  Parses(Schedule(base, d))
<1> DEFINE schedule == Schedule(base, d)
<1>1. base \in Seq(RoleCommand) /\ Ranked(d.order, base) /\ OneRoleEach(base) /\ d.spacing \in Nat
  BY DEF Sound
<1>2. DOMAIN schedule = DOMAIN d.order /\ OneRoleEach(schedule)
      /\ \A r \in DOMAIN schedule : d.order[r] \in Actors(base) /\ schedule[r].actor = d.order[r]
  BY ScheduledRoles
<1>3. ASSUME NEW r \in DOMAIN schedule
      PROVE  /\ schedule[r].offset = (r - 1) * d.spacing
             /\ schedule[r].after = IF d.barriers = "relaxed" THEN {} ELSE RoleOf(base, d.order[r]).after
             /\ schedule[r].plan = Planned(RoleOf(base, d.order[r]), d)
  <2>1. r \in DOMAIN d.order /\ d.order[r] \in Actors(base)
    BY <1>2, <1>3
  <2> QED
    BY <1>1, <2>1, ScheduleFields
<1> HIDE DEF schedule
<1>4. ASSUME NEW r \in DOMAIN schedule
      PROVE  schedule[r].offset >= 0
  <2>1. r - 1 \in Nat
    BY <1>1, <1>2, <1>4 DEF Ranked
  <2>2. (r - 1) * d.spacing >= 0
    BY <1>1, <2>1
  <2> QED
    BY <1>3, <2>2
<1>5. ASSUME NEW r \in DOMAIN schedule
      PROVE  PlanParses(schedule[r].plan)
  BY <1>2, <1>3, <1>5, PlannedParses
<1>6. ASSUME NEW r \in DOMAIN schedule
      PROVE  Earlier(schedule, r)
  <2>1. CASE d.barriers = "relaxed"
    BY <1>3, <2>1 DEF Earlier
  <2>2. CASE d.barriers # "relaxed"
    <3>1. d.order = Order(base)
      BY <2>2 DEF Sound
    <3>2. DOMAIN schedule = DOMAIN base /\ \A i \in DOMAIN base : schedule[i].actor = base[i].actor
      BY <1>2, <3>1 DEF Order
    <3>3. RoleOf(base, d.order[r]) = base[r]
      BY <1>1, <3>1, <3>2, OwnRole DEF Order
    <3>4. schedule[r].after = base[r].after
      BY <1>3, <2>2, <3>3
    <3>5. Earlier(base, r)
      BY <3>2 DEF Sound
    <3>6. 1..(r - 1) \subseteq DOMAIN base
      <4>1. DOMAIN base = 1..Len(base) /\ Len(base) \in Nat /\ r \in 1..Len(base)
        BY <1>1, <3>2
      <4> QED
        BY <4>1
    <3> QED
      BY <3>2, <3>4, <3>5, <3>6 DEF Earlier
  <2> QED
    BY <2>1, <2>2
<1> QED
  BY <1>2, <1>4, <1>5, <1>6, ParsesParts DEF schedule

LEMMA PlaceFound ==
    ASSUME NEW plan, PlanParses(plan), NEW k \in DOMAIN plan
    PROVE  Place(plan, plan[k].id) = k
BY DEF Place, PlanParses

LEMMA DelaysInvertNothing ==
    ASSUME NEW plan \in Seq(RoleAction), NEW timed, SamePlaces(plan, timed), PlanParses(timed)
    PROVE  Inversions(plan, timed) = {}
<1>1. ASSUME NEW k \in DOMAIN plan
      PROVE  Place(timed, plan[k].id) = k
  BY PlaceFound DEF SamePlaces
<1>2. DOMAIN plan \subseteq Int
  BY LenProperties
<1>3. ASSUME NEW p \in (DOMAIN plan) \X (DOMAIN plan), p[1] < p[2]
      PROVE  ~(Place(timed, plan[p[1]].id) > Place(timed, plan[p[2]].id))
  BY <1>1, <1>2, <1>3
<1> QED
  BY <1>3 DEF Inversions

LEMMA CrossingInvertsOnePair ==
    ASSUME NEW plan \in Seq(RoleAction), NEW s \in 1..(Len(plan) - 1), PlanParses(plan)
    PROVE  Inversions(plan, Crossed(plan, s)) = {<<s, s + 1>>}
<1> DEFINE crossed == Crossed(plan, s)
<1>1. Len(plan) \in Nat /\ DOMAIN plan = 1..Len(plan) /\ s \in Int /\ s \in 1..Len(plan) /\ s + 1 \in 1..Len(plan)
  BY LenProperties
<1>2. /\ DOMAIN crossed = 1..Len(plan) /\ PlanParses(crossed)
      /\ \A k \in 1..Len(plan) : Swap(s, k) \in 1..Len(plan) /\ crossed[k].id = plan[Swap(s, k)].id
  BY <1>1, CrossedPlaces, CrossedParses
<1> HIDE DEF crossed
<1>3. ASSUME NEW k \in 1..Len(plan)
      PROVE  Place(crossed, plan[k].id) = Swap(s, k)
  <2>1. Swap(s, k) \in 1..Len(plan)
    BY <1>2
  <2>2. Swap(s, Swap(s, k)) = k
    BY <1>1 DEF Swap
  <2>3. crossed[Swap(s, k)].id = plan[k].id
    BY <1>2, <2>1, <2>2
  <2>4. Place(crossed, crossed[Swap(s, k)].id) = Swap(s, k)
    BY <1>2, <2>1, PlaceFound
  <2> QED
    BY <2>3, <2>4
<1>4. \A j, k \in 1..Len(plan) : j < k /\ Swap(s, j) > Swap(s, k) <=> j = s /\ k = s + 1
  BY <1>1 DEF Swap
<1>5. ASSUME NEW j \in 1..Len(plan), NEW k \in 1..Len(plan)
      PROVE  <<j, k>> \in Inversions(plan, crossed) <=> j = s /\ k = s + 1
  <2>1. <<j, k>> \in Inversions(plan, crossed)
            <=> j < k /\ Place(crossed, plan[j].id) > Place(crossed, plan[k].id)
    BY <1>1 DEF Inversions
  <2>2. Place(crossed, plan[j].id) = Swap(s, j) /\ Place(crossed, plan[k].id) = Swap(s, k)
    BY <1>3
  <2> QED
    BY <1>4, <2>1, <2>2
<1>6. Inversions(plan, crossed) \subseteq (1..Len(plan)) \X (1..Len(plan))
  BY <1>1 DEF Inversions
<1>7. Inversions(plan, crossed) = {<<s, s + 1>>}
  <2>1. <<s, s + 1>> \in Inversions(plan, crossed)
    BY <1>1, <1>5
  <2>2. ASSUME NEW p \in Inversions(plan, crossed) PROVE p = <<s, s + 1>>
    <3>1. p \in (1..Len(plan)) \X (1..Len(plan)) /\ p = <<p[1], p[2]>>
      BY <1>6
    <3>2. p[1] = s /\ p[2] = s + 1
      BY <1>5, <3>1
    <3> QED
      BY <3>1, <3>2
  <2> QED
    BY <2>1, <2>2
<1> QED
  BY <1>7 DEF crossed

\* What a schedule changes of the order of actions, and of their times.
LEMMA NothingInverted ==
    ASSUME NEW base, NEW d, Sound(base, d), NEW actor \in Actors(base),
           ~(d.crossing # NoCrossing /\ d.crossing.actor = actor)
    PROVE  Inversions(RoleOf(base, actor).plan, RoleOf(Schedule(base, d), actor).plan) = {}
<1> DEFINE role == RoleOf(base, actor)
<1>1. /\ role.actor = actor /\ role.plan \in Seq(RoleAction) /\ PlanParses(role.plan)
      /\ RoleOf(Schedule(base, d), actor).plan = Planned(role, d)
  BY PlanOf
<1> HIDE DEF role
<1>2. Planned(role, d) = Delayed(role.plan, d)
  BY <1>1 DEF Planned
<1>3. SamePlaces(role.plan, Delayed(role.plan, d)) /\ PlanParses(Delayed(role.plan, d))
  BY <1>1, DelaysParse DEF Sound
<1> QED
  BY <1>1, <1>2, <1>3, DelaysInvertNothing DEF role

LEMMA OnePairInverted ==
    ASSUME NEW base, NEW d, Sound(base, d), d.crossing # NoCrossing
    PROVE  LET c == d.crossing
               plan == RoleOf(base, c.actor).plan
               mutated == RoleOf(Schedule(base, d), c.actor).plan
           IN /\ c.actor \in Actors(base)
              /\ Inversions(plan, mutated) = {<<c.slot, c.slot + 1>>}
              /\ \E k \in {c.slot, c.slot + 1} : plan[k].operation \in CausalBoundary
              /\ DOMAIN mutated = DOMAIN plan /\ \A k \in DOMAIN plan : mutated[k].at = plan[k].at
<1> DEFINE c == d.crossing
           role == RoleOf(base, c.actor)
<1>1. c \in Crossings(base) /\ OneRoleEach(base) /\ d.jitter = 0 /\ d.boundary = 0
  BY DEF Sound
<1>2. c.actor \in Actors(base) /\ c.slot \in 1..(Len(role.plan) - 1)
      /\ \E k \in {c.slot, c.slot + 1} : role.plan[k].operation \in CausalBoundary
  BY <1>1, CrossingsCross
<1>3. /\ role.actor = c.actor /\ role.plan \in Seq(RoleAction) /\ PlanParses(role.plan)
      /\ RoleOf(Schedule(base, d), c.actor).plan = Planned(role, d)
  BY <1>2, PlanOf
<1>4. Planned(role, d) = Crossed(role.plan, c.slot)
  BY <1>1, <1>3 DEF Planned, Delayed
<1> HIDE DEF role
<1>5. /\ DOMAIN Crossed(role.plan, c.slot) = DOMAIN role.plan
      /\ \A k \in DOMAIN role.plan : Crossed(role.plan, c.slot)[k].at = role.plan[k].at
  BY <1>2, <1>3, CrossedPlaces
<1>6. Inversions(role.plan, Crossed(role.plan, c.slot)) = {<<c.slot, c.slot + 1>>}
  BY <1>2, <1>3, CrossingInvertsOnePair
<1> QED
  BY <1>2, <1>3, <1>4, <1>5, <1>6 DEF role

\* Every generated schedule is accepted by the parser, and changes the order of
\* actions by exactly the pair its descriptor names, or not at all.
THEOREM SchedulesAttribute == Spec => []SchedulesAttributable
<1>1. ASSUME scene \in Scenes
      PROVE  SchedulesAttributable
  <2> DEFINE base == scene.base
             d == scene.descriptor
             inversions(actor) == Inversions(RoleOf(base, actor).plan, RoleOf(Schedule(base, d), actor).plan)
             times(scenario) == [i \in DOMAIN RoleOf(scenario, d.crossing.actor).plan |->
                                    RoleOf(scenario, d.crossing.actor).plan[i].at]
  <2>1. Generates(base, d) /\ scene.schedule = Schedule(base, d)
    BY <1>1, ScheduleAssumption
  <2>2. Sound(base, d)
    BY <2>1, GeneratedSound
  <2>3. Parses(scene.schedule)
    BY <2>1, <2>2, SchedulesParse
  <2>4. Inverted(base, scene.schedule) =
            UNION {{<<actor, p[1], p[2]>> : p \in inversions(actor)} : actor \in Actors(base)}
    BY <2>1 DEF Inverted
  <2>5. \A actor \in Actors(base) :
            ~(d.crossing # NoCrossing /\ d.crossing.actor = actor) => inversions(actor) = {}
    BY <2>2, NothingInverted
  <2>6. d.crossing # NoCrossing =>
            /\ d.crossing.actor \in Actors(base)
            /\ inversions(d.crossing.actor) = {<<d.crossing.slot, d.crossing.slot + 1>>}
            /\ \E k \in {d.crossing.slot, d.crossing.slot + 1} :
                    RoleOf(base, d.crossing.actor).plan[k].operation \in CausalBoundary
            /\ times(base) = times(scene.schedule)
    BY <2>1, <2>2, OnePairInverted
  <2>7. d.crossing = NoCrossing => Inverted(base, scene.schedule) = {}
    <3> HIDE DEF inversions
    <3> QED
      BY <2>4, <2>5
  <2>8. d.crossing # NoCrossing =>
            Inverted(base, scene.schedule) = {<<d.crossing.actor, d.crossing.slot, d.crossing.slot + 1>>}
    <3> SUFFICES ASSUME d.crossing # NoCrossing
                 PROVE  Inverted(base, scene.schedule) =
                            {<<d.crossing.actor, d.crossing.slot, d.crossing.slot + 1>>}
      OBVIOUS
    <3> DEFINE triples(actor) == {<<actor, p[1], p[2]>> : p \in inversions(actor)}
               a == d.crossing.actor
               s == d.crossing.slot
    <3>1. inversions(a) = {<<s, s + 1>>} /\ a \in Actors(base)
      BY <2>6
    <3>2. \A actor \in Actors(base) : actor # a => inversions(actor) = {}
      BY <2>5
    <3>3. Inverted(base, scene.schedule) = UNION {triples(actor) : actor \in Actors(base)}
      BY <2>4
    <3> HIDE DEF inversions, s, a
    <3>4. triples(a) = {<<a, s, s + 1>>}
      BY <3>1
    <3>5. \A actor \in Actors(base) : actor # a => triples(actor) = {}
      BY <3>2
    <3> HIDE DEF triples
    <3>6. UNION {triples(actor) : actor \in Actors(base)} = triples(a)
      BY <3>1, <3>5
    <3> QED
      BY <3>3, <3>4, <3>6 DEF a, s
  <2>9. /\ d.crossing = NoCrossing => Inverted(scene.base, scene.schedule) = {}
        /\ d.crossing # NoCrossing =>
            /\ Inverted(scene.base, scene.schedule) = {<<d.crossing.actor, d.crossing.slot, d.crossing.slot + 1>>}
            /\ \E k \in {d.crossing.slot, d.crossing.slot + 1} :
                    RoleOf(scene.base, d.crossing.actor).plan[k].operation \in CausalBoundary
            /\ times(scene.base) = times(scene.schedule)
    BY <2>6, <2>7, <2>8
  <2> QED
    BY Zenon, <2>3, <2>9 DEF SchedulesAttributable
<1>2. IInv => SchedulesAttributable
  BY <1>1 DEF IInv
<1> QED
  BY <1>2, Invariant, PTL
=============================================================================
