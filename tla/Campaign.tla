------------------------------- MODULE Campaign -------------------------------
(***************************************************************************)
(* run_campaign of campaign.py: the trials of a manifest's cases, each in  *)
(* a run directory of its own, with confirmation trials for what is newly  *)
(* observed, and the files that a later --resume finds.  The process may   *)
(* be killed between any two steps and started again on the same output,   *)
(* to resume, to overwrite or as a fresh campaign, with or without policy  *)
(* materialization; its other options stay the same.                       *)
(*                                                                         *)
(* The scheduler's choice is any pending case here (Scheduler.tla refines  *)
(* it), an execution is one step (Runner.tla), and evidence is what the    *)
(* campaign looks at: the execution it comes from, the execution whose log *)
(* its sanitizer events were read from, the policies it is bound to, and   *)
(* the fingerprints found in it and in its difference to a control.        *)
(***************************************************************************)
EXTENDS Integers, FiniteSets, Functions

CONSTANT Settings
\* The campaigns that may be run: a manifest, the options of run_campaign, what
\* executions may show, and a bound on the starts of the process.
\*   numCases             the manifest's cases, in manifest order
\*   baselines            the cases baseline_case holds of
\*   semantic             per case, _semantic_assignment_key
\*   bound, broken        the cases about policies or identities, and those
\*                        whose scenario cannot be loaded
\*   repetitions, baselineRepetitions, confirmations, budget, stopOnError
\*   guided               the selection strategy is artifact-guided
\*   materialize          whether policy_config may be, or not be, given
\*   outcomes             what an execution may show: [found, differs]
\*   maxAttempts          bound: starts of the campaign process

ASSUME CampaignAssumption == \A s \in Settings :
    LET cases == 1..s.numCases IN
    /\ s.numCases \in Nat \ {0}
    /\ s.baselines \cup s.bound \cup s.broken \subseteq cases
    /\ DOMAIN s.semantic = cases
    /\ s.repetitions \in Nat \ {0} /\ s.baselineRepetitions \in Nat
    /\ s.baselineRepetitions >= s.repetitions
    /\ s.confirmations \in Nat /\ s.budget \in cases
    /\ s.guided \in BOOLEAN /\ s.stopOnError \in BOOLEAN /\ s.materialize \subseteq BOOLEAN
    /\ s.guided => s.broken = {}   \* the scheduler loads every scenario first
    /\ \A o \in s.outcomes : DOMAIN o = {"found", "differs"}
    /\ s.maxAttempts \in Nat \ {0}

VARIABLE setting      \* the campaign that is run, on the same output each time

Repetitions == setting.repetitions
BaselineRepetitions == setting.baselineRepetitions
Confirmations == setting.confirmations
Budget == setting.budget
MaxAttempts == setting.maxAttempts
Semantic == setting.semantic

Cases == 1..setting.numCases
Baselines == setting.baselines
Initial(c) == IF c \in Baselines THEN BaselineRepetitions ELSE Repetitions
Trials == Cases \X (0..(BaselineRepetitions + Confirmations - 1))
Fingerprints == UNION {o.found \cup o.differs : o \in setting.outcomes}

VARIABLES
    evidence,   \* per trial, evidence.json: "none", "torn" or "whole"
    bundle,     \* per trial, what a whole evidence.json says
    reported,   \* per trial, report.json exists
    archive,    \* per trial, the execution the .log.gz archive is of, or 0
    policies,   \* per trial, the attempt that wrote the policies, or 0
    summary,    \* campaign-report.json exists
    attempt,    \* how often the campaign was started
    mode,       \* of this attempt
    materialize,\* policy_config is given in this attempt
    pc,
    selected,   \* selected_cases
    trial,      \* the current case and repetition
    planned,    \* planned_repetitions of the current case
    memory,     \* the evidence of the current trial
    result,     \* per trial of this attempt, how it ended
    seen,       \* seen_specific_artifacts
    controls,   \* the keys of baseline_evidence
    triggers,   \* per case, the fingerprints that made it be confirmed
    expected,   \* expected_trials_by_case, 0 for a case not observed
    stopped

disk == <<evidence, bundle, reported, archive, policies, summary>>
control == <<attempt, mode, materialize, pc, trial, planned, memory>>
learned == <<selected, result, seen, controls, triggers, expected, stopped>>
vars == <<setting, disk, control, learned>>

NoBundle == [exec |-> 0, log |-> 0, policies |-> 0, found |-> {}, differs |-> {}]
Bundles == [exec : 0..MaxAttempts, log : 0..MaxAttempts, policies : 0..MaxAttempts,
            found : SUBSET Fingerprints, differs : SUBSET Fingerprints]
Errors == {"invalid", "missing", "torn", "unbound", "occupied", "failed"}
Results == {"none", "completed"} \cup Errors

TypeOK ==
    /\ setting \in Settings
    /\ evidence \in [Trials -> {"none", "torn", "whole"}]
    /\ bundle \in [Trials -> Bundles]
    /\ reported \in [Trials -> BOOLEAN]
    /\ archive \in [Trials -> 0..MaxAttempts]
    /\ policies \in [Trials -> 0..MaxAttempts]
    /\ summary \in BOOLEAN
    /\ attempt \in 0..MaxAttempts
    /\ mode \in {"fresh", "overwrite", "resume"}
    /\ materialize \in BOOLEAN
    /\ pc \in {"down", "choose", "trial", "run", "write", "writing", "report",
               "record", "observe", "done"}
    /\ selected \subseteq Cases
    /\ trial \in Trials
    /\ planned \in 0..(BaselineRepetitions + Confirmations)
    /\ memory \in Bundles
    /\ result \in [Trials -> Results]
    /\ seen \subseteq Fingerprints
    /\ controls \subseteq Range(Semantic)
    /\ triggers \in [Cases -> SUBSET Fingerprints]
    /\ expected \in [Cases -> 0..(BaselineRepetitions + Confirmations)]
    /\ stopped \in BOOLEAN

Init ==
    /\ setting \in Settings
    /\ evidence = [t \in Trials |-> "none"]
    /\ bundle = [t \in Trials |-> NoBundle]
    /\ reported = [t \in Trials |-> FALSE]
    /\ archive = [t \in Trials |-> 0]
    /\ policies = [t \in Trials |-> 0]
    /\ summary = FALSE
    /\ attempt = 0 /\ mode = "fresh" /\ materialize = FALSE /\ pc = "down"
    /\ selected = {} /\ trial = <<1, 0>> /\ planned = 0 /\ memory = NoBundle
    /\ result = [t \in Trials |-> "none"]
    /\ seen = {} /\ controls = {}
    /\ triggers = [c \in Cases |-> {}]
    /\ expected = [c \in Cases |-> 0]
    /\ stopped = FALSE

-----------------------------------------------------------------------------
(* Starts and crashes. *)

\* A campaign starts with nothing but the files; a fresh one refuses to
\* replace a summary.
Start ==
    /\ pc \in {"down", "done"} /\ attempt < MaxAttempts
    /\ attempt' = attempt + 1
    /\ mode' \in {"fresh", "overwrite", "resume"}
    /\ mode' = "fresh" => ~summary
    /\ materialize' \in setting.materialize
    /\ pc' = "choose"
    /\ selected' = {} /\ trial' = <<1, 0>> /\ planned' = 0 /\ memory' = NoBundle
    /\ result' = [t \in Trials |-> "none"]
    /\ seen' = {} /\ controls' = {}
    /\ triggers' = [c \in Cases |-> {}]
    /\ expected' = [c \in Cases |-> 0]
    /\ stopped' = FALSE
    /\ UNCHANGED <<setting, disk>>

Crash ==
    /\ pc \notin {"down", "done"} /\ attempt < MaxAttempts
    /\ pc' = "down"
    /\ UNCHANGED <<setting, disk, attempt, mode, materialize, trial, planned, memory, learned>>

-----------------------------------------------------------------------------
(* The loop over the cases. *)

Pending == Cases \ selected
More == Pending # {} /\ Cardinality(selected) < Budget /\ ~stopped

\* The case the scheduler chooses, or the first in manifest order.
Choose ==
    /\ pc = "choose" /\ More
    /\ \E c \in Pending :
        /\ setting.guided \/ \A d \in Pending : c <= d
        /\ selected' = selected \cup {c}
        /\ trial' = <<c, 0>>
        /\ planned' = Initial(c)
    /\ pc' = "trial"
    /\ UNCHANGED <<disk, attempt, mode, materialize, memory, result, seen, controls, triggers,
                   expected, stopped>>

Case == trial[1]
Repetition == trial[2]

\* A trial that raised: its result is an error, and inconclusive.
Fail(cause) ==
    /\ result' = [result EXCEPT ![trial] = cause]
    /\ memory' = NoBundle
    /\ pc' = "record"
    /\ UNCHANGED <<attempt, mode, materialize, selected, trial, planned, seen, controls, triggers,
                   expected, stopped>>

\* load_scenario, before anything else of a trial.
Invalid ==
    /\ pc = "trial" /\ Case \in setting.broken
    /\ Fail("invalid")
    /\ UNCHANGED disk

\* A trial whose scenario was loaded.
Loaded == pc = "trial" /\ Case \notin setting.broken

\* A mutant: evidence is reused whatever the mode.
ResumingAlways == evidence[trial] # "none"

Resuming == mode = "resume" /\ evidence[trial] # "none"

\* load_evidence on a file that a crash left half written.
LoadTorn ==
    /\ Loaded /\ Resuming /\ evidence[trial] = "torn"
    /\ Fail("torn")
    /\ UNCHANGED disk

\* A mutant: the digests of the artifacts are not compared.
BindingTrusted == TRUE

\* What a resumed campaign accepts: _verify_materialized_binding if the evidence
\* says it is bound, and no unbound evidence of a case that is about policies.
Binding ==
    IF bundle[trial].policies # 0 THEN policies[trial] = bundle[trial].policies
    ELSE Case \notin setting.bound

LoadUnbound ==
    /\ Loaded /\ Resuming /\ evidence[trial] = "whole" /\ ~Binding
    /\ Fail("unbound")
    /\ UNCHANGED disk

\* The evidence is evaluated again instead of launching anything.
Load ==
    /\ Loaded /\ Resuming /\ evidence[trial] = "whole"
    /\ Binding
    /\ memory' = bundle[trial]
    /\ pc' = "report"
    /\ UNCHANGED <<disk, attempt, mode, materialize, trial, planned, learned>>

\* The policies are written before the roles are launched.
WritePolicies ==
    /\ Loaded /\ ~Resuming
    /\ IF materialize
       THEN /\ policies[trial] = 0 \/ mode # "fresh"
            /\ policies' = [policies EXCEPT ![trial] = attempt]
       ELSE Case \notin setting.bound /\ UNCHANGED policies
    /\ pc' = "run"
    /\ UNCHANGED <<evidence, bundle, reported, archive, summary, attempt, mode, materialize,
                   trial, planned, memory, learned>>

\* A case about policies needs them materialized.
PoliciesMissing ==
    /\ Loaded /\ ~Resuming /\ ~materialize /\ Case \in setting.bound
    /\ Fail("missing")
    /\ UNCHANGED disk

\* A fresh campaign does not replace policies an earlier one left.
PoliciesOccupied ==
    /\ Loaded /\ ~Resuming
    /\ materialize /\ policies[trial] # 0 /\ mode = "fresh"
    /\ Fail("occupied")
    /\ UNCHANGED disk

\* A mutant: only report.json protects a run directory.
OccupiedByReport == mode # "overwrite" /\ reported[trial]

Occupied == mode # "overwrite" /\ (evidence[trial] # "none" \/ reported[trial])

\* run_processes refuses a run directory with results.
RunOccupied ==
    /\ pc = "run" /\ Occupied
    /\ Fail("occupied")
    /\ UNCHANGED disk

\* An execution, whose log may be large enough to be archived.  Sanitizer
\* events are read from the archive if there is one, else from the log.
Run ==
    /\ pc = "run" /\ ~Occupied
    /\ \E large \in BOOLEAN, o \in setting.outcomes :
        /\ archive' = [archive EXCEPT ![trial] = IF large THEN attempt ELSE @]
        /\ memory' = [exec |-> attempt,
                      log |-> IF archive'[trial] # 0 THEN archive'[trial] ELSE attempt,
                      policies |-> IF materialize THEN policies[trial] ELSE 0,
                      found |-> o.found, differs |-> o.differs]
    /\ pc' = "write"
    /\ UNCHANGED <<evidence, bundle, reported, policies, summary, attempt, mode, materialize,
                   trial, planned, learned>>

\* run_processes raised; the logs it closed may have been archived.
RunFails ==
    /\ pc = "run" /\ ~Occupied
    /\ \E large \in BOOLEAN :
        archive' = [archive EXCEPT ![trial] = IF large THEN attempt ELSE @]
    /\ Fail("failed")
    /\ UNCHANGED <<evidence, bundle, reported, policies, summary>>

\* write_evidence truncates the file first...
OpenEvidence ==
    /\ pc = "write"
    /\ evidence' = [evidence EXCEPT ![trial] = "torn"]
    /\ pc' = "writing"
    /\ UNCHANGED <<bundle, reported, archive, policies, summary, attempt, mode, materialize,
                   trial, planned, memory, learned>>

\* ... and then fills it.
CloseEvidence ==
    /\ pc = "writing"
    /\ evidence' = [evidence EXCEPT ![trial] = "whole"]
    /\ bundle' = [bundle EXCEPT ![trial] = memory]
    /\ pc' = "report"
    /\ UNCHANGED <<reported, archive, policies, summary, attempt, mode, materialize, trial,
                   planned, memory, learned>>

\* evaluate, write_report, discover_artifacts and write_artifacts.
Report ==
    /\ pc = "report"
    /\ reported' = [reported EXCEPT ![trial] = TRUE]
    /\ result' = [result EXCEPT ![trial] = "completed"]
    /\ pc' = "record"
    /\ UNCHANGED <<evidence, bundle, archive, policies, summary, attempt, mode, materialize, trial,
                   planned, memory, selected, seen, controls, triggers, expected, stopped>>

-----------------------------------------------------------------------------
(* After a trial and after a case. *)

CaseEvidence == {t \in Trials : t[1] = Case /\ result[t] = "completed"}

\* case_specific_artifacts when the initial repetitions are over: found in the
\* evidence, or in its difference to the controls of the same semantics.
Specific ==
    (UNION {bundle[t].found : t \in CaseEvidence})
    \cup IF Case \notin Baselines /\ Semantic[Case] \in controls
         THEN UNION {bundle[t].differs : t \in CaseEvidence} ELSE {}

\* A mutant: a trial that failed is run again.
AdvanceRetrying(plan) ==
    LET more == Repetition + 1 < plan
        again == result[trial] # "completed"
    IN /\ stopped' = stopped
       /\ pc' = IF more \/ again THEN "trial" ELSE "observe"
       /\ trial' = IF more /\ ~again THEN <<Case, Repetition + 1>> ELSE trial

\* The next repetition, or the end of the case.
Advance(plan) ==
    LET stop == setting.stopOnError /\ result[trial] # "completed"
        more == Repetition + 1 < plan /\ ~stop
    IN /\ stopped' = (stopped \/ stop)
       /\ pc' = IF more THEN "trial" ELSE "observe"
       /\ trial' = IF more THEN <<Case, Repetition + 1>> ELSE trial

\* A mutant: the fingerprints a case showed are not added to the seen ones.
RecordForgetting ==
    /\ pc = "record"
    /\ LET new == IF Repetition + 1 = Initial(Case) THEN Specific \ seen ELSE {} IN
        /\ triggers' = [triggers EXCEPT ![Case] = IF Confirmations > 0 THEN @ \cup new ELSE @]
        /\ planned' = IF new # {} THEN planned + Confirmations ELSE planned
        /\ Advance(planned')
    /\ UNCHANGED <<disk, attempt, mode, materialize, memory, selected, result, seen, controls, expected>>

\* The trial is recorded; after the initial repetitions of the case, what is
\* newly observed asks for confirmations.
Record ==
    /\ pc = "record"
    /\ LET over == Repetition + 1 = Initial(Case)
           new == IF over THEN Specific \ seen ELSE {}
       IN
        /\ controls' = controls \cup (IF over /\ Case \in Baselines /\ CaseEvidence # {}
                                      THEN {Semantic[Case]} ELSE {})
        /\ seen' = seen \cup new
        /\ triggers' = IF Confirmations > 0 THEN [triggers EXCEPT ![Case] = @ \cup new]
                       ELSE triggers
        /\ planned' = IF new # {} THEN planned + Confirmations ELSE planned
        /\ Advance(planned')
    /\ UNCHANGED <<disk, attempt, mode, materialize, memory, selected, result, expected>>

\* The case is over; a guided campaign may have reached its plateau.
Observe ==
    /\ pc = "observe"
    /\ expected' = [expected EXCEPT ![Case] = planned]
    /\ \/ UNCHANGED stopped
       \/ setting.guided /\ stopped' = TRUE
    /\ pc' = "choose"
    /\ UNCHANGED <<disk, attempt, mode, materialize, trial, planned, memory, selected, result, seen,
                   controls, triggers>>

\* The summary is written once the loop is over.
Finish ==
    /\ pc = "choose" /\ ~More
    /\ summary' = TRUE
    /\ pc' = "done"
    /\ UNCHANGED <<evidence, bundle, reported, archive, policies, attempt, mode, materialize, trial,
                   planned, memory, learned>>

\* A mutant: the extra repetitions of baselines are not counted.
TrialCountUniform ==
    Budget * Repetitions
    + SumFunctionOnSet([c \in Cases |-> expected[c] - Initial(c)],
                       {c \in Cases : expected[c] # 0})

\* trial_count of the report.
TrialCount ==
    Budget * Repetitions
    + SumFunctionOnSet([c \in Cases |-> expected[c] - Repetitions],
                       {c \in Cases : expected[c] # 0})

-----------------------------------------------------------------------------
Step ==
    /\ \/ Choose \/ Invalid \/ LoadTorn \/ LoadUnbound \/ Load
       \/ WritePolicies \/ PoliciesMissing \/ PoliciesOccupied
       \/ RunOccupied \/ Run \/ RunFails \/ OpenEvidence \/ CloseEvidence \/ Report
       \/ Record \/ Observe \/ Finish
    /\ UNCHANGED setting

Next == Step \/ Start \/ Crash

Spec == Init /\ [][Next]_vars

\* The process runs on while it is up, and somebody resumes it.
FairSpec == Spec /\ WF_vars(Step) /\ WF_vars(Start)
=============================================================================
