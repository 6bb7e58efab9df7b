------------------------------- MODULE Reduction ------------------------------
(***************************************************************************)
(* minimize_action_plan of reduction.py: delta debugging of the roles'     *)
(* action plans, with an execution behind every step.  Whether the target  *)
(* artifact reappears in an execution is nondeterministic, so the executor *)
(* may be flaky: the same plan may show the artifact once and not again.   *)
(***************************************************************************)
EXTENDS Integers, Sequences, FiniteSets

CONSTANTS
    NumActions,   \* the scenario's actions, in the order of _action_keys
    NumRoles,
    RoleOf,       \* per action
    At,           \* per action, at_ms of the scenario
    Offset,       \* per role, start_offset_ms of the scenario
    MaxTrials     \* max_trials

Actions == 1..NumActions
Roles == 1..NumRoles

\* The raw scenario, as far as the reduction changes it.
Plans == [kept : SUBSET Actions, at : [Actions -> Nat], offset : [Roles -> Nat]]
Original == [kept |-> Actions, at |-> At, offset |-> Offset]

\* parse_scenario: the actions of a role are ordered by at_ms.
Valid(plan) ==
    \A a, b \in plan.kept : RoleOf[a] = RoleOf[b] /\ a < b => plan.at[a] <= plan.at[b]

ASSUME ReductionAssumption ==
    /\ NumActions \in Nat /\ NumRoles \in Nat
    /\ RoleOf \in [Actions -> Roles]
    /\ At \in [Actions -> Nat] /\ Offset \in [Roles -> Nat]
    /\ Valid(Original)
    /\ MaxTrials \in Nat \ {0}

VARIABLES
    pc,
    current,      \* the smallest plan that showed the artifact
    granularity,
    start,        \* the chunk begins after that many remaining actions
    scan,         \* the roles the second loop iterates over, as they were
    role,         \* the role it is at
    left,         \* the actions of that role it has not come to
    previous,     \* at_ms of the action before them
    trials,
    preserved,
    tests         \* history: the executed plans and whether they showed it

searchVars == <<granularity, start>>
timingVars == <<scan, role, left, previous>>
vars == <<pc, current, searchVars, timingVars, trials, preserved, tests>>

\* Among the types: no more executions than max_trials allows.
TypeOK ==
    /\ pc \in {"first", "search", "offset", "delay", "raised", "done"}
    /\ current \in Plans
    /\ granularity \in Nat \ {0} /\ start \in Nat
    /\ scan \in Plans /\ role \in Nat /\ left \subseteq Actions /\ previous \in Nat
    /\ trials \in 0..MaxTrials
    /\ preserved \in BOOLEAN
    /\ tests \in Seq([plan : Plans, hit : BOOLEAN])

Init ==
    /\ pc = "first"
    /\ current = Original
    /\ granularity = 2 /\ start = 0
    /\ scan = Original /\ role = 1 /\ left = {} /\ previous = 0
    /\ trials = 0 /\ preserved = FALSE
    /\ tests = <<>>

\* An execution of a plan, and whether the artifact is among what it shows.
Execute(plan, hit) ==
    /\ trials' = trials + 1
    /\ tests' = Append(tests, [plan |-> plan, hit |-> hit])

\* A mutant: the candidate is kept whatever the execution shows.
AcceptAlways(candidate, hit) == current' = candidate

Accept(candidate, hit) == current' = IF hit THEN candidate ELSE current

\* The scenario itself has to show the artifact.
First ==
    /\ pc = "first"
    /\ \E hit \in BOOLEAN :
        /\ Execute(current, hit)
        /\ preserved' = hit
        /\ pc' = IF hit THEN "search" ELSE "done"
    /\ UNCHANGED <<current, searchVars, timingVars>>

-----------------------------------------------------------------------------
(* The first loop: whole chunks of the remaining actions are removed.      *)

Remaining == Cardinality(current.kept)
Ceiling(n, d) == (n + d - 1) \div d

ChunkSize == LET size == Ceiling(Remaining, granularity) IN IF size > 1 THEN size ELSE 1

Position(a) == Cardinality({b \in current.kept : b <= a})
Chunk == {a \in current.kept : start < Position(a) /\ Position(a) <= start + ChunkSize}

\* A candidate parse_scenario refuses ends the reduction with its error.
TryChunk ==
    /\ pc = "search" /\ trials < MaxTrials /\ start < Remaining
    /\ LET candidate == [current EXCEPT !.kept = @ \ Chunk] IN
        IF Valid(candidate)
        THEN \E hit \in BOOLEAN :
                /\ Execute(candidate, hit)
                /\ Accept(candidate, hit)
                /\ start' = IF hit THEN 0 ELSE start + ChunkSize
                /\ granularity' = IF hit /\ granularity > 2 THEN granularity - 1
                                  ELSE granularity
                /\ pc' = pc
        ELSE /\ pc' = "raised"
             /\ UNCHANGED <<current, searchVars, trials, tests>>
    /\ UNCHANGED <<timingVars, preserved>>

\* A mutant: the search ends before its chunks are single actions.
ExhaustedEarly == 2 * granularity >= Remaining

Exhausted == granularity >= Remaining

\* No chunk could be removed: smaller chunks.
Refine ==
    /\ pc = "search" /\ trials < MaxTrials
    /\ Remaining # 0 /\ start >= Remaining /\ ~Exhausted
    /\ granularity' = IF 2 * granularity < Remaining THEN 2 * granularity ELSE Remaining
    /\ start' = 0
    /\ UNCHANGED <<pc, current, timingVars, trials, preserved, tests>>

\* The search is over: nothing remains, no budget, or every single action was
\* tried.  The second loop iterates over the roles as they are now.
EndSearch ==
    /\ pc = "search"
    /\ Remaining = 0 \/ trials >= MaxTrials \/ (start >= Remaining /\ Exhausted)
    /\ pc' = "offset"
    /\ scan' = current /\ role' = 1
    /\ UNCHANGED <<current, searchVars, left, previous, trials, preserved, tests>>

-----------------------------------------------------------------------------
(* The second loop: offsets become zero, delays the one of the action before. *)

\* A mutant: the copy is taken of the iterated plan, not of the current one.
BaseIterated == scan

\* What a candidate of this loop is a copy of.
Base == current

\* Zero is tried if there is an offset.
TryOffset ==
    /\ pc = "offset" /\ role \in Roles /\ trials < MaxTrials
    /\ LET candidate == [Base EXCEPT !.offset[role] = 0] IN
        IF scan.offset[role] > 0
        THEN \E hit \in BOOLEAN : Execute(candidate, hit) /\ Accept(candidate, hit)
        ELSE UNCHANGED <<current, trials, tests>>
    /\ pc' = "delay"
    /\ left' = {a \in scan.kept : RoleOf[a] = role}
    /\ previous' = 0
    /\ UNCHANGED <<searchVars, scan, role, preserved>>

\* A mutant: a delay becomes zero, not the one of the action before.
LowerToZero(a) == 0

Lower(a) == previous

\* The wait before an action becomes that of the action before it.
TryDelay(a) ==
    /\ pc = "delay" /\ trials < MaxTrials
    /\ a \in left /\ \A b \in left : a <= b
    /\ LET candidate == [Base EXCEPT !.at[a] = Lower(a)] IN
        IF scan.at[a] <= previous
        THEN /\ previous' = scan.at[a]
             /\ UNCHANGED <<pc, current, trials, tests>>
        ELSE IF Valid(candidate)
        THEN \E hit \in BOOLEAN :
                /\ Execute(candidate, hit)
                /\ Accept(candidate, hit)
                /\ previous' = IF hit THEN previous ELSE scan.at[a]
                /\ pc' = pc
        ELSE /\ pc' = "raised"
             /\ UNCHANGED <<current, previous, trials, tests>>
    /\ left' = left \ {a}
    /\ UNCHANGED <<searchVars, scan, role, preserved>>

NextRole ==
    /\ pc = "delay" /\ left = {}
    /\ role' = role + 1
    /\ pc' = "offset"
    /\ UNCHANGED <<current, searchVars, scan, left, previous, trials, preserved, tests>>

\* The roles, or the trials, are used up.
Finish ==
    /\ \/ pc = "offset" /\ (role \notin Roles \/ trials >= MaxTrials)
       \/ pc = "delay" /\ trials >= MaxTrials
    /\ pc' = "done"
    /\ UNCHANGED <<current, searchVars, timingVars, trials, preserved, tests>>

Next ==
    \/ First \/ TryChunk \/ Refine \/ EndSearch \/ TryOffset
    \/ (\E a \in Actions : TryDelay(a)) \/ NextRole \/ Finish

Spec == Init /\ [][Next]_vars
-----------------------------------------------------------------------------
\* Every accepted removal must reproduce the fingerprint (README): what the
\* reduction holds as its result, at any moment, is the plan of its latest
\* execution that showed the artifact, timing included.
Confirmed ==
    pc \notin {"first", "raised"} /\ preserved =>
        \E i \in DOMAIN tests :
            /\ tests[i] = [plan |-> current, hit |-> TRUE]
            /\ \A j \in DOMAIN tests : j > i => ~tests[j].hit

\* Within the budget, the search ends only when each remaining action was left
\* out alone in an execution that did not show the artifact.
OneMinimal ==
    pc \in {"offset", "delay", "done"} /\ preserved /\ trials < MaxTrials =>
        \A a \in current.kept : \E i \in DOMAIN tests :
            tests[i].plan.kept = current.kept \ {a} /\ ~tests[i].hit

\* Whatever is removed or moved, every plan that is built is one that
\* parse_scenario accepts, so a reduction never ends in an error.
NeverRaises == pc # "raised"

\* A plan only gets smaller: no action, wait or offset comes back, although the
\* second loop iterates over roles that are not the ones it changes.
Shrinks ==
    [][/\ current'.kept \subseteq current.kept
       /\ \A a \in Actions : current'.at[a] <= current.at[a]
       /\ \A r \in Roles : current'.offset[r] <= current.offset[r]]_vars
=============================================================================
