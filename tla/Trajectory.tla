----------------------------- MODULE Trajectory ------------------------------
(***************************************************************************)
(* The schedules trajectory.py derives from a scenario: role orders,       *)
(* spacings, relaxed barriers, jitter, offsets of boundary actions, and    *)
(* crossings, which move one boundary action across one adjacent action.   *)
(*                                                                         *)
(* A scenario is the sequence of its roles: the actors a role's barriers   *)
(* name, its launch offset, and the plan of its actions.                   *)
(***************************************************************************)
EXTENDS Integers, Sequences, FiniteSets, SequencesExt

Boundary == {"participant.disconnect", "participant.reconnect",
             "endpoint.destroy", "transport.drop_next"}
CausalBoundary == Boundary \cup {"credential.wait_revoked"}

\* The fields of models.py that matter here; direction is what the hash of an
\* action's name makes of a jitter.
RoleAction ==
    [id : STRING, operation : STRING, target : Nat, at : Int, direction : {-1, 0, 1}]
RoleCommand == [actor : STRING, after : SUBSET STRING, offset : Int, plan : Seq(RoleAction)]

Actors(scenario) == {scenario[i].actor : i \in DOMAIN scenario}
Order(scenario) == [i \in DOMAIN scenario |-> scenario[i].actor]
RoleOf(scenario, actor) == CHOOSE role \in Range(scenario) : role.actor = actor

NoCrossing == [actor |-> "none", slot |-> 0]

\* _causal_action_mutations: the two actions that are exchanged, at slot and the
\* one behind it.  Moving either across the other is the same schedule.
Crossings(scenario) ==
    UNION {LET plan == scenario[i].plan IN
           {[actor |-> scenario[i].actor, slot |-> s] :
               s \in {s \in 1..(Len(plan) - 1) :
                        {plan[s].operation, plan[s + 1].operation} \cap CausalBoundary # {}}}
           : i \in DOMAIN scenario}

Descriptor(order, spacing, barriers, jitter, boundary, crossing) ==
    [order |-> order, spacing |-> spacing, barriers |-> barriers, jitter |-> jitter,
     boundary |-> boundary, crossing |-> crossing]
Control(scenario) == Descriptor(Order(scenario), 0, "preserve", 0, 0, NoCrossing)

\* The timing grid of some role orders.
Grid(orders, barriers, options) ==
    {Descriptor(order, spacing, barriers, jitter, boundary, NoCrossing) :
        order \in orders, spacing \in options.spacings,
        jitter \in options.jitters, boundary \in options.boundaries}

\* _schedule_descriptors: one control, the grid with barriers as they are or, in
\* any order, without, and the crossings each on its own.
Descriptors(scenario, options) ==
    {Control(scenario)}
    \cup Grid({Order(scenario)}, "preserve", options)
    \cup Grid(SetToSeqs(Actors(scenario)), "relaxed", options)
    \cup {[Control(scenario) EXCEPT !.crossing = c] : c \in Crossings(scenario)}

AtLeast(a, b) == IF a >= b THEN a ELSE b

\* The time an action is moved to, before its place in the plan is kept.
Moved(action, d) ==
    AtLeast(0, action.at + action.direction * d.jitter
               + IF action.operation \in Boundary THEN d.boundary ELSE 0)

\* Jitter and offset, if there are any; no action before the one that precedes it.
Delayed(plan, d) ==
    LET at[k \in 0..Len(plan)] ==
            IF k = 0 THEN 0 ELSE AtLeast(at[k - 1], Moved(plan[k], d))
    IN IF d.jitter = 0 /\ d.boundary = 0 THEN plan
       ELSE [k \in DOMAIN plan |-> [plan[k] EXCEPT !.at = at[k]]]

\* A mutant: the place to insert at is looked up before the action is taken out.
CrossedFar(plan, s) ==
    [k \in DOMAIN plan |->
        LET last == IF s + 2 <= Len(plan) THEN s + 2 ELSE s + 1
            from == IF k = last THEN s ELSE IF k \in s..(last - 1) THEN k + 1 ELSE k
        IN [plan[from] EXCEPT !.at = plan[k].at]]

\* _apply_causal_action_mutation: actions change owners, time slots stay.
Crossed(plan, s) ==
    [k \in DOMAIN plan |->
        LET from == IF k = s THEN s + 1 ELSE IF k = s + 1 THEN s ELSE k
        IN [plan[from] EXCEPT !.at = plan[k].at]]

\* _apply_schedule
Schedule(scenario, d) ==
    [rank \in DOMAIN d.order |->
        LET role == RoleOf(scenario, d.order[rank])
            timed == Delayed(role.plan, d)
        IN [role EXCEPT
                !.offset = (rank - 1) * d.spacing,
                !.after = IF d.barriers = "relaxed" THEN {} ELSE @,
                !.plan = IF d.crossing # NoCrossing /\ d.crossing.actor = role.actor
                         THEN Crossed(timed, d.crossing.slot) ELSE timed]]

\* What parse_scenario requires of actors, barriers, offsets and plans.
Parses(scenario) ==
    /\ \A i, j \in DOMAIN scenario : scenario[i].actor = scenario[j].actor => i = j
    /\ \A i \in DOMAIN scenario :
        LET plan == scenario[i].plan IN
        /\ \A actor \in scenario[i].after : \E j \in 1..(i - 1) : scenario[j].actor = actor
        /\ scenario[i].offset >= 0
        /\ \A j, k \in DOMAIN plan : plan[j].id = plan[k].id => j = k
        /\ \A k \in DOMAIN plan :
            /\ plan[k].at >= 0
            /\ k > 1 => plan[k - 1].at <= plan[k].at

\* generate_trajectories derives d from a scenario for some legal options: the
\* scenario itself is not parsed, the control is.
Generates(scenario, d) ==
    /\ scenario \in Seq(RoleCommand)
    /\ Parses(Schedule(scenario, Control(scenario)))
    /\ d.spacing \in Nat /\ d.jitter \in Nat /\ d.boundary \in Int
    /\ d \in Descriptors(scenario, [spacings |-> {d.spacing}, jitters |-> {d.jitter},
                                    boundaries |-> {d.boundary}])

\* The pairs of actions of an actor that change their order from one scenario
\* to the other.
Place(plan, id) == CHOOSE k \in DOMAIN plan : plan[k].id = id
Inversions(plan, mutated) ==
    {p \in (DOMAIN plan) \X (DOMAIN plan) :
        p[1] < p[2] /\ Place(mutated, plan[p[1]].id) > Place(mutated, plan[p[2]].id)}
Inverted(scenario, other) ==
    UNION {{<<actor, p[1], p[2]>> :
                p \in Inversions(RoleOf(scenario, actor).plan, RoleOf(other, actor).plan)} :
           actor \in Actors(scenario)}
=============================================================================
