---------------------------- MODULE CampaignProofs -----------------------------
(***************************************************************************)
(* For every setting, every outcome of the executions and every sequence   *)
(* of kills and restarts: fingerprints are confirmed once, the report says *)
(* what the disk holds and accounts for every trial, evidence is bound to  *)
(* the policies beside it, and whole evidence is replaced by overwriting   *)
(* campaigns only.                                                         *)
(***************************************************************************)
EXTENDS CampaignProperties, ProofFacts, TLAPS

-----------------------------------------------------------------------------
(* The inductive invariant.                                                *)

\* The trial has no result yet; it is not yet recorded; its case is not over.
Open == pc \in {"trial", "run", "write", "writing", "report"}
Current == Open \/ pc = "record"
InCase == Current \/ pc = "observe"

\* Confirmations are planned at the last initial repetition, never before.
Progress ==
    /\ pc # "down" => attempt > 0
    /\ InCase => Case \in selected /\ planned \in {Initial(Case), Initial(Case) + Confirmations}
    /\ Current => /\ Repetition < planned
                  /\ Repetition < Initial(Case) => planned = Initial(Case)

\* What has not been tried has no result.
Untried ==
    /\ Open => result[trial] = "none"
    /\ InCase => \A t \in Trials : t[1] = Case /\ t[2] > Repetition => result[t] = "none"
    /\ \A t \in Trials : t[1] \notin selected => result[t] = "none"

\* The policies an evidence b of trial t says it is bound to.
BoundTo(b, t) ==
    /\ b.policies # 0 => b.policies = policies[t]
    /\ t[1] \in setting.bound => b.policies # 0

\* What the files and the memory hold in the course of a trial.
OnDisk ==
    /\ pc = "run" => /\ Case \in setting.bound => materialize
                     /\ materialize => policies[trial] # 0
    /\ pc \in {"write", "writing"} =>
        /\ memory.exec = attempt
        /\ mode # "overwrite" => evidence[trial] # "whole"
        /\ BoundTo(memory, trial)
    /\ pc = "report" =>
        /\ evidence[trial] = "whole"
        /\ mode # "resume" => bundle[trial].exec = attempt
        /\ BoundTo(bundle[trial], trial)

\* Triggers are seen, and those of the current case show in its plan.
Learned ==
    /\ \A c \in Cases : triggers[c] \subseteq seen
    /\ \A c \in Cases \ selected : triggers[c] = {} /\ expected[c] = 0
    /\ InCase /\ Confirmations > 0 => (planned > Initial(Case)) = (triggers[Case] # {})
    /\ InCase => expected[Case] = 0

IInv ==
    /\ TypeOK
    /\ Progress
    /\ Untried
    /\ OnDisk
    /\ ReportMatchesDisk
    /\ EvidenceBound
    /\ Learned
    /\ ConfirmedOnce

-----------------------------------------------------------------------------
(* Facts about a setting.                                                  *)

\* The numbers of a setting, and the trials a case may have.
LEMMA SettingFacts ==
    ASSUME setting \in Settings
    PROVE  /\ Repetitions \in Nat \ {0} /\ BaselineRepetitions \in Nat
           /\ BaselineRepetitions >= Repetitions
           /\ Confirmations \in Nat /\ MaxAttempts \in Nat \ {0}
           /\ setting.materialize \subseteq BOOLEAN
           /\ 1 \in Cases /\ <<1, 0>> \in Trials
           /\ \A c \in Cases : Initial(c) \in 1..BaselineRepetitions /\ Semantic[c] \in Range(Semantic)
           /\ \A o \in setting.outcomes : o.found \subseteq Fingerprints /\ o.differs \subseteq Fingerprints
<1>1. /\ setting.numCases \in Nat \ {0}
      /\ DOMAIN setting.semantic = 1..setting.numCases
      /\ setting.repetitions \in Nat \ {0} /\ setting.baselineRepetitions \in Nat
      /\ setting.baselineRepetitions >= setting.repetitions
      /\ setting.confirmations \in Nat /\ setting.maxAttempts \in Nat \ {0}
      /\ setting.materialize \subseteq BOOLEAN
  BY CampaignAssumption
<1>2. 1 \in Cases /\ <<1, 0>> \in Trials
  BY <1>1 DEF Cases, Trials, BaselineRepetitions, Confirmations
<1>3. \A c \in Cases : Initial(c) \in 1..BaselineRepetitions
  BY <1>1 DEF Initial, BaselineRepetitions, Repetitions
<1>4. \A c \in Cases : Semantic[c] \in Range(Semantic)
  BY <1>1 DEF Cases, Semantic, Range
<1>5. \A o \in setting.outcomes : o.found \subseteq Fingerprints /\ o.differs \subseteq Fingerprints
  BY DEF Fingerprints
<1> QED
  BY <1>1, <1>2, <1>3, <1>4, <1>5 DEF Repetitions, BaselineRepetitions, Confirmations, MaxAttempts

\* Every step keeps the setting and what is computed from it.
LEMMA SettingKept ==
    ASSUME [Next]_vars
    PROVE  /\ setting' = setting /\ Cases' = Cases /\ Trials' = Trials
           /\ Fingerprints' = Fingerprints /\ Bundles' = Bundles
           /\ Repetitions' = Repetitions /\ BaselineRepetitions' = BaselineRepetitions
           /\ Confirmations' = Confirmations /\ MaxAttempts' = MaxAttempts
           /\ Semantic' = Semantic
           /\ \A c : Initial(c)' = Initial(c)
<1>1. setting' = setting
  BY DEF Next, Step, Start, Crash, vars
<1> QED
  BY <1>1 DEF Cases, Trials, Fingerprints, Bundles, Repetitions, BaselineRepetitions,
     Confirmations, MaxAttempts, Semantic, Initial, Baselines

LEMMA InitInvariant == ASSUME Init PROVE IInv
<1>1. TypeOK
  <2>1. setting \in Settings
    BY DEF Init
  <2>2. /\ MaxAttempts \in Nat /\ BaselineRepetitions \in Nat /\ Confirmations \in Nat
        /\ <<1, 0>> \in Trials
    BY <2>1, SettingFacts
  <2>3. NoBundle \in Bundles
    BY <2>2 DEF NoBundle, Bundles
  <2>4. 0 \in 0..MaxAttempts /\ 0 \in 0..(BaselineRepetitions + Confirmations)
    BY <2>2
  <2> QED
    BY <2>1, <2>2, <2>3, <2>4 DEF Init, TypeOK, Results
<1>2. Progress /\ Untried /\ OnDisk /\ ReportMatchesDisk /\ EvidenceBound
  BY DEF Init, Progress, Untried, OnDisk, ReportMatchesDisk, EvidenceBound, Open, Current, InCase
<1>3. Learned /\ ConfirmedOnce
  BY DEF Init, Learned, ConfirmedOnce, Open, Current, InCase
<1> QED
  BY <1>1, <1>2, <1>3 DEF IInv

-----------------------------------------------------------------------------
(* Types.                                                                  *)

\* The current trial is a case and a repetition.
LEMMA TrialFacts ==
    ASSUME TypeOK
    PROVE  /\ Case \in Cases /\ Repetition \in Nat /\ trial = <<Case, Repetition>>
           /\ Repetition \in 0..(BaselineRepetitions + Confirmations - 1)
           /\ planned \in Nat /\ attempt \in Nat
<1>1. trial \in Trials /\ BaselineRepetitions \in Nat /\ Confirmations \in Nat /\ MaxAttempts \in Nat
  BY SettingFacts DEF TypeOK
<1> QED
  BY <1>1 DEF Trials, Case, Repetition, TypeOK

\* A failing trial is recorded and changes nothing else.
LEMMA FailTypes ==
    ASSUME TypeOK, NEW cause \in Errors, Fail(cause)
    PROVE  /\ result' \in [Trials -> Results] /\ memory' \in Bundles
           /\ pc' = "record"
<1>1. 0 \in 0..MaxAttempts /\ cause \in Results /\ trial \in Trials
  BY SettingFacts DEF TypeOK, Results
<1>2. NoBundle \in Bundles
  BY <1>1 DEF NoBundle, Bundles
<1> QED
  BY <1>1, <1>2 DEF Fail, TypeOK

\* The next repetition is one of the case's trials.
LEMMA AdvanceTypes ==
    ASSUME TypeOK, NEW plan \in 0..(BaselineRepetitions + Confirmations), Advance(plan)
    PROVE  /\ trial' \in Trials /\ pc' \in {"trial", "observe"} /\ stopped' \in BOOLEAN
<1>1. /\ Case \in Cases /\ Repetition \in Nat /\ trial \in Trials
      /\ BaselineRepetitions \in Nat /\ Confirmations \in Nat /\ setting.stopOnError \in BOOLEAN
  BY TrialFacts, SettingFacts, CampaignAssumption DEF TypeOK
<1>2. Repetition + 1 < plan => <<Case, Repetition + 1>> \in Trials
  BY <1>1 DEF Trials
<1> QED
  BY <1>1, <1>2 DEF Advance, TypeOK

\* What a case shows are fingerprints.
LEMMA SpecificTypes == ASSUME TypeOK PROVE Specific \subseteq Fingerprints
<1>1. \A t \in Trials : bundle[t].found \subseteq Fingerprints /\ bundle[t].differs \subseteq Fingerprints
  BY DEF TypeOK, Bundles
<1>2. \A f \in Specific : \E t \in CaseEvidence : f \in bundle[t].found \/ f \in bundle[t].differs
  BY DEF Specific
<1>3. CaseEvidence \subseteq Trials
  BY DEF CaseEvidence
<1> QED
  BY <1>1, <1>2, <1>3

LEMMA TypeStep == ASSUME TypeOK, Progress, [Next]_vars PROVE TypeOK'
<1>0. /\ setting' = setting /\ Cases' = Cases /\ Trials' = Trials
      /\ Fingerprints' = Fingerprints /\ Bundles' = Bundles
      /\ BaselineRepetitions' = BaselineRepetitions
      /\ Confirmations' = Confirmations /\ MaxAttempts' = MaxAttempts
      /\ Semantic' = Semantic /\ Results' = Results
  BY SettingKept DEF Results, Errors
<1>1. /\ MaxAttempts \in Nat \ {0} /\ BaselineRepetitions \in Nat /\ Confirmations \in Nat
      /\ setting.materialize \subseteq BOOLEAN
      /\ <<1, 0>> \in Trials /\ NoBundle \in Bundles
      /\ \A c \in Cases : Initial(c) \in 1..BaselineRepetitions /\ Semantic[c] \in Range(Semantic)
      /\ \A o \in setting.outcomes : o.found \subseteq Fingerprints /\ o.differs \subseteq Fingerprints
  BY SettingFacts DEF TypeOK, NoBundle, Bundles
<1>2. /\ Case \in Cases /\ Repetition \in Nat /\ trial = <<Case, Repetition>>
      /\ trial \in Trials /\ attempt \in 0..MaxAttempts
  BY TrialFacts DEF TypeOK
<1>3. ASSUME Start PROVE TypeOK'
  <2>1. attempt + 1 \in 0..MaxAttempts
    BY <1>1, <1>2, <1>3 DEF Start
  <2>2. /\ attempt' = attempt + 1 /\ mode' \in {"fresh", "overwrite", "resume"}
        /\ materialize' \in setting.materialize /\ pc' = "choose" /\ UNCHANGED disk
    BY <1>3 DEF Start
  <2>3. /\ selected' = {} /\ trial' = <<1, 0>> /\ planned' = 0 /\ memory' = NoBundle
        /\ result' = [t \in Trials |-> "none"] /\ seen' = {} /\ controls' = {}
        /\ triggers' = [c \in Cases |-> {}] /\ expected' = [c \in Cases |-> 0] /\ stopped' = FALSE
    BY <1>3 DEF Start
  <2>4. result' \in [Trials -> Results] /\ triggers' \in [Cases -> SUBSET Fingerprints]
    BY <2>3 DEF Results
  <2>5. /\ 0 \in 0..(BaselineRepetitions + Confirmations)
        /\ expected' \in [Cases -> 0..(BaselineRepetitions + Confirmations)]
    BY <1>1, <2>3
  <2> QED
    BY <1>0, <1>1, <2>1, <2>2, <2>3, <2>4, <2>5 DEF TypeOK, disk
<1>4. ASSUME Crash PROVE TypeOK'
  BY <1>0, <1>4 DEF TypeOK, Crash, disk, learned
<1>5. ASSUME Choose PROVE TypeOK'
  <2>1. PICK c \in Pending : selected' = selected \cup {c} /\ trial' = <<c, 0>> /\ planned' = Initial(c)
    BY <1>5 DEF Choose
  <2>2. c \in Cases /\ <<c, 0>> \in Trials
    BY <1>1, <2>1 DEF Pending, Trials
  <2>3. Initial(c) \in 0..(BaselineRepetitions + Confirmations)
    BY <1>1, <2>2
  <2> QED
    BY <1>0, <1>5, <2>1, <2>2, <2>3 DEF TypeOK, Choose, disk
<1>6. ASSUME NEW cause \in Errors, Fail(cause), UNCHANGED disk PROVE TypeOK'
  BY <1>0, <1>6, FailTypes DEF TypeOK, Fail, disk
<1>7. ASSUME Invalid \/ LoadTorn \/ LoadUnbound \/ PoliciesMissing \/ PoliciesOccupied \/ RunOccupied PROVE TypeOK'
  BY <1>6, <1>7 DEF Invalid, LoadTorn, LoadUnbound, PoliciesMissing, PoliciesOccupied, RunOccupied, Errors
<1>8. ASSUME RunFails PROVE TypeOK'
  <2>1. Fail("failed") /\ "failed" \in Errors
    BY <1>8 DEF RunFails, Errors
  <2>2. archive' \in [Trials -> 0..MaxAttempts]
    BY <1>2, <1>8 DEF RunFails, TypeOK
  <2> QED
    BY <1>0, <1>8, <2>1, <2>2, FailTypes DEF TypeOK, Fail, RunFails
<1>9. ASSUME Load PROVE TypeOK'
  BY <1>0, <1>2, <1>9 DEF TypeOK, Load, disk, learned
<1>10. ASSUME WritePolicies PROVE TypeOK'
  <2>1. policies' \in [Trials -> 0..MaxAttempts]
    BY <1>2, <1>10 DEF WritePolicies, TypeOK
  <2> QED
    BY <1>0, <1>10, <2>1 DEF TypeOK, WritePolicies, learned
<1>11. ASSUME Run PROVE TypeOK'
  <2>1. PICK large \in BOOLEAN, o \in setting.outcomes :
            /\ archive' = [archive EXCEPT ![trial] = IF large THEN attempt ELSE @]
            /\ memory' = [exec |-> attempt,
                          log |-> IF archive'[trial] # 0 THEN archive'[trial] ELSE attempt,
                          policies |-> IF materialize THEN policies[trial] ELSE 0,
                          found |-> o.found, differs |-> o.differs]
    BY <1>11 DEF Run
  <2>2. archive' \in [Trials -> 0..MaxAttempts] /\ policies[trial] \in 0..MaxAttempts
    BY <1>2, <2>1 DEF TypeOK
  <2>3. archive'[trial] \in 0..MaxAttempts /\ 0 \in 0..MaxAttempts
    BY <1>1, <1>2, <2>2
  <2>4. memory' \in Bundles
    BY <1>1, <1>2, <2>1, <2>2, <2>3 DEF Bundles
  <2> QED
    BY <1>0, <1>11, <2>2, <2>4 DEF TypeOK, Run, learned
<1>12. ASSUME OpenEvidence PROVE TypeOK'
  BY <1>0, <1>2, <1>12 DEF TypeOK, OpenEvidence, learned
<1>13. ASSUME CloseEvidence PROVE TypeOK'
  BY <1>0, <1>2, <1>13 DEF TypeOK, CloseEvidence, learned
<1>14. ASSUME Report PROVE TypeOK'
  BY <1>0, <1>2, <1>14 DEF TypeOK, Report, Results
<1>15. ASSUME Record PROVE TypeOK'
  <2> DEFINE new == IF Repetition + 1 = Initial(Case) THEN Specific \ seen ELSE {}
  <2>1. new \subseteq Fingerprints
    BY SpecificTypes
  <2>2. planned' \in 0..(BaselineRepetitions + Confirmations)
    <3>1. planned' = IF new # {} THEN planned + Confirmations ELSE planned
      BY <1>15 DEF Record
    <3>2. new # {} => planned = Initial(Case)
      BY <1>1, <1>2, <1>15 DEF Progress, Current, Record
    <3>3. planned \in 0..(BaselineRepetitions + Confirmations)
      BY DEF TypeOK
    <3> HIDE DEF new
    <3> QED
      BY <1>1, <1>2, <3>1, <3>2, <3>3
  <2>3. trial' \in Trials /\ pc' \in {"trial", "observe"} /\ stopped' \in BOOLEAN
    BY <1>15, <2>2, AdvanceTypes DEF Record
  <2>4. controls' \subseteq Range(Semantic)
    BY <1>1, <1>2, <1>15 DEF Record, TypeOK
  <2>5. triggers' \in [Cases -> SUBSET Fingerprints] /\ seen' \subseteq Fingerprints
    <3>1. triggers' = IF Confirmations > 0 THEN [triggers EXCEPT ![Case] = @ \cup new] ELSE triggers
      BY <1>15 DEF Record
    <3>2. seen' = seen \cup new
      BY <1>15 DEF Record
    <3> HIDE DEF new
    <3> QED
      BY <1>2, <2>1, <3>1, <3>2 DEF TypeOK
  <2> QED
    BY <1>0, <1>15, <2>2, <2>3, <2>4, <2>5 DEF TypeOK, Record, disk
<1>16. ASSUME Observe PROVE TypeOK'
  BY <1>0, <1>2, <1>16 DEF TypeOK, Observe, disk
<1>17. ASSUME Finish PROVE TypeOK'
  BY <1>0, <1>17 DEF TypeOK, Finish, learned
<1>18. CASE UNCHANGED vars
  BY <1>0, <1>18 DEF TypeOK, vars, disk, control, learned
<1> QED
  BY <1>3, <1>4, <1>5, <1>7, <1>8, <1>9, <1>10, <1>11, <1>12, <1>13, <1>14, <1>15, <1>16, <1>17,
     <1>18 DEF Next, Step

-----------------------------------------------------------------------------
(* The order of the trials.                                                *)

\* The steps within a trial.
InTrial ==
    \/ Invalid \/ LoadTorn \/ LoadUnbound \/ Load
    \/ WritePolicies \/ PoliciesMissing \/ PoliciesOccupied
    \/ RunOccupied \/ Run \/ RunFails \/ OpenEvidence \/ CloseEvidence \/ Report

\* They stay in the trial, whose result they may set as they leave it.
LEMMA InTrialFacts ==
    ASSUME InTrial
    PROVE  /\ Open
           /\ UNCHANGED <<attempt, mode, materialize, trial, planned, selected, seen, controls,
                          triggers, expected>>
           /\ \/ pc' \in {"run", "write", "writing", "report"} /\ UNCHANGED result
              \/ /\ pc' = "record"
                 /\ \/ \E cause \in Errors : result' = [result EXCEPT ![trial] = cause]
                    \/ Report
<1>1. ASSUME NEW cause \in Errors, Fail(cause)
      PROVE  /\ UNCHANGED <<attempt, mode, materialize, trial, planned, selected, seen, controls,
                            triggers, expected>>
             /\ pc' = "record"
             /\ result' = [result EXCEPT ![trial] = cause]
  BY <1>1 DEF Fail
<1>2. CASE \/ Invalid \/ LoadTorn \/ LoadUnbound \/ PoliciesMissing \/ PoliciesOccupied \/ RunOccupied \/ RunFails
  <2>1. Open /\ \E cause \in Errors : Fail(cause)
    BY <1>2 DEF Invalid, LoadTorn, LoadUnbound, PoliciesMissing, PoliciesOccupied, RunOccupied, RunFails,
       Loaded, Open, Errors
  <2> QED
    BY <1>1, <2>1
<1>3. CASE Load \/ WritePolicies \/ Run \/ OpenEvidence \/ CloseEvidence
  BY <1>3 DEF Load, WritePolicies, Run, OpenEvidence, CloseEvidence, Loaded, Open, learned
<1>4. CASE Report
  BY <1>4 DEF Report, Open
<1> QED
  BY <1>2, <1>3, <1>4 DEF InTrial

LEMMA Moves ==
    ASSUME [Next]_vars
    PROVE  \/ Start \/ Crash \/ Choose \/ InTrial \/ Record \/ Observe \/ Finish
           \/ UNCHANGED vars
  BY DEF Next, Step, InTrial

\* A recorded trial is followed by the next repetition or by the end of its case.
LEMMA RecordFacts ==
    ASSUME TypeOK, Progress, Record
    PROVE  /\ Case' = Case
           /\ \/ pc' = "trial" /\ Repetition' = Repetition + 1 /\ Repetition' < planned'
              \/ pc' = "observe" /\ trial' = trial
           /\ \/ Repetition + 1 # Initial(Case) /\ planned' = planned /\ UNCHANGED <<seen, triggers>>
              \/ /\ Repetition + 1 = Initial(Case) /\ planned = Initial(Case)
                 /\ seen' = seen \cup (Specific \ seen)
                 /\ planned' = IF Specific \ seen # {} THEN planned + Confirmations ELSE planned
                 /\ triggers' = IF Confirmations > 0
                                THEN [triggers EXCEPT ![Case] = @ \cup (Specific \ seen)] ELSE triggers
<1> DEFINE new == IF Repetition + 1 = Initial(Case) THEN Specific \ seen ELSE {}
<1>1. /\ Case \in Cases /\ Repetition \in Nat /\ trial = <<Case, Repetition>> /\ Initial(Case) \in Nat
  BY TrialFacts, SettingFacts DEF TypeOK
<1>2. /\ seen' = seen \cup new
      /\ triggers' = IF Confirmations > 0 THEN [triggers EXCEPT ![Case] = @ \cup new] ELSE triggers
      /\ planned' = IF new # {} THEN planned + Confirmations ELSE planned
      /\ Advance(planned')
  BY DEF Record
<1>3. /\ Case' = Case
      /\ \/ pc' = "trial" /\ Repetition' = Repetition + 1 /\ Repetition' < planned'
         \/ pc' = "observe" /\ trial' = trial
  BY <1>1, <1>2 DEF Advance, Case, Repetition
<1>4. CASE Repetition + 1 = Initial(Case)
  <2>1. planned = Initial(Case)
    BY <1>1, <1>4 DEF Progress, Record, Current
  <2> QED
    BY <1>2, <1>3, <1>4, <2>1
<1>5. CASE Repetition + 1 # Initial(Case)
  <2>1. new = {}
    BY <1>5
  <2>2. triggers \in [Cases -> SUBSET Fingerprints]
    BY DEF TypeOK
  <2>3. [triggers EXCEPT ![Case] = @ \cup {}] = triggers
    BY <1>1, <2>2
  <2> HIDE DEF new
  <2>4. seen' = seen /\ triggers' = triggers /\ planned' = planned
    BY <1>2, <2>1, <2>3
  <2> QED
    BY <1>3, <1>5, <2>4
<1> QED
  BY <1>4, <1>5

LEMMA ProgressStep == ASSUME TypeOK, Progress, [Next]_vars PROVE Progress'
<1>1. /\ Case \in Cases /\ Repetition \in Nat /\ planned \in Nat /\ attempt \in Nat
      /\ Confirmations' = Confirmations /\ Confirmations \in Nat
      /\ \A c : Initial(c)' = Initial(c)
      /\ \A c \in Cases : Initial(c) \in Nat /\ 0 < Initial(c)
  BY TrialFacts, SettingFacts, SettingKept DEF TypeOK
<1>2. ASSUME Start \/ Crash \/ Finish PROVE Progress'
  BY <1>1, <1>2 DEF Start, Crash, Finish, Progress, Open, Current, InCase
<1>3. ASSUME Choose PROVE Progress'
  <2>1. PICK c \in Cases : selected' = selected \cup {c} /\ trial' = <<c, 0>> /\ planned' = Initial(c)
    BY <1>3 DEF Choose, Pending
  <2>2. Case' = c /\ Repetition' = 0 /\ Initial(Case)' = Initial(c)
    BY <1>1, <2>1 DEF Case, Repetition
  <2> QED
    BY <1>1, <1>3, <2>1, <2>2 DEF Choose, Progress
<1>4. ASSUME InTrial PROVE Progress'
  <2>1. Case' = Case /\ Repetition' = Repetition /\ Initial(Case)' = Initial(Case)
    BY <1>1, <1>4, InTrialFacts DEF Case, Repetition
  <2> QED
    BY <1>1, <1>4, <2>1, InTrialFacts DEF Progress, Open, Current, InCase
<1>5. ASSUME Record PROVE Progress'
  <2>1. Case' = Case /\ Initial(Case)' = Initial(Case) /\ Confirmations' = Confirmations
    BY <1>1, <1>5, RecordFacts
  <2>2. pc = "record" /\ UNCHANGED <<attempt, selected>>
    BY <1>5 DEF Record
  <2>3. Current /\ InCase
    BY <2>2 DEF Current, InCase
  <2>4. planned' \in {Initial(Case), Initial(Case) + Confirmations}
    BY <1>1, <1>5, <2>3, RecordFacts DEF Progress
  <2>5. Current' => /\ Repetition' < planned'
                    /\ Repetition' < Initial(Case) => planned' = Initial(Case)
    BY <1>1, <1>5, <2>3, RecordFacts DEF Progress, Current, Open
  <2>6. attempt' > 0 /\ Case' \in selected'
    BY <2>1, <2>2, <2>3 DEF Progress
  <2> QED
    BY <2>1, <2>4, <2>5, <2>6 DEF Progress
<1>6. ASSUME Observe PROVE Progress'
  BY <1>1, <1>6 DEF Observe, Progress, Open, Current, InCase
<1>7. CASE UNCHANGED vars
  <2>1. Case' = Case /\ Repetition' = Repetition /\ Initial(Case)' = Initial(Case) /\ planned' = planned
    BY <1>1, <1>7 DEF Case, Repetition, vars, control
  <2> QED
    BY <1>1, <1>7, <2>1 DEF vars, control, learned, Progress, Open, Current, InCase
<1> QED
  BY Moves, <1>2, <1>3, <1>4, <1>5, <1>6, <1>7

LEMMA UntriedStep == ASSUME TypeOK, Progress, Untried, [Next]_vars PROVE Untried'
<1>1. /\ Case \in Cases /\ Repetition \in Nat /\ trial = <<Case, Repetition>> /\ trial \in Trials
      /\ result \in [Trials -> Results] /\ Trials' = Trials
      /\ \A t \in Trials : t[2] \in Nat /\ t = <<t[1], t[2]>>
  BY TrialFacts, SettingFacts, SettingKept DEF TypeOK, Trials
<1>2. ASSUME Start \/ Crash \/ Finish PROVE Untried'
  BY <1>1, <1>2 DEF Start, Crash, Finish, Untried, Open, Current, InCase, learned
<1>3. ASSUME Choose PROVE Untried'
  <2>1. PICK c \in Cases \ selected : selected' = selected \cup {c} /\ trial' = <<c, 0>>
    BY <1>3 DEF Choose, Pending
  <2>2. Case' = c /\ trial'[1] = c /\ result' = result /\ trial' \in Trials
    BY <1>1, <1>3, <2>1, SettingKept, TypeStep DEF Case, Choose, TypeOK
  <2> QED
    BY <1>1, <2>1, <2>2 DEF Untried
<1>4. ASSUME InTrial PROVE Untried'
  <2>1. /\ Case' = Case /\ Repetition' = Repetition /\ trial' = trial /\ selected' = selected
        /\ Open /\ InCase
    BY <1>4, InTrialFacts DEF Case, Repetition, InCase, Current
  <2>2. CASE result' = result
    BY <1>1, <1>4, <2>1, <2>2, InTrialFacts DEF Untried, Progress, Open
  <2>3. CASE pc' = "record" /\ \E r : result' = [result EXCEPT ![trial] = r]
    BY <1>1, <2>1, <2>3 DEF Untried, Progress, Open
  <2> QED
    BY <1>4, <2>2, <2>3, InTrialFacts DEF Report
<1>5. ASSUME Record PROVE Untried'
  <2>1. InCase /\ UNCHANGED <<result, selected>>
    BY <1>5 DEF Record, InCase, Current
  <2>2. \/ pc' = "trial" /\ trial' = <<Case, Repetition + 1>> /\ trial' \in Trials
        \/ pc' = "observe" /\ trial' = trial
    BY <1>1, <1>5, RecordFacts, TypeStep, SettingKept DEF Record, Case, Repetition, TypeOK, Trials
  <2>3. Case' = Case /\ Repetition' \in {Repetition, Repetition + 1}
    BY <1>1, <2>2 DEF Case, Repetition
  <2> QED
    BY <1>1, <2>1, <2>2, <2>3 DEF Untried, Open
<1>6. ASSUME Observe PROVE Untried'
  BY <1>1, <1>6 DEF Observe, Untried, Open, Current, InCase
<1>7. CASE UNCHANGED vars
  BY <1>1, <1>7 DEF vars, control, learned, Untried, Open, Current, InCase, Case, Repetition
<1> QED
  BY Moves, <1>2, <1>3, <1>4, <1>5, <1>6, <1>7

-----------------------------------------------------------------------------
(* What is learned.                                                        *)

LEMMA LearnedStep == ASSUME TypeOK, Progress, Learned, ConfirmedOnce, [Next]_vars
                     PROVE  Learned' /\ ConfirmedOnce'
<1> USE DEF ConfirmedOnce
<1>1. /\ Case \in Cases /\ Repetition \in Nat /\ planned \in Nat /\ Cases' = Cases
      /\ Confirmations' = Confirmations /\ Confirmations \in Nat
      /\ \A c : Initial(c)' = Initial(c)
      /\ \A c \in Cases : Initial(c) \in Nat /\ 0 < Initial(c)
      /\ triggers \in [Cases -> SUBSET Fingerprints]
      /\ expected \in [Cases -> Nat]
  BY TrialFacts, SettingFacts, SettingKept DEF TypeOK
<1>2. ASSUME Start PROVE Learned' /\ ConfirmedOnce'
  BY <1>1, <1>2 DEF Start, Learned, Open, Current, InCase
<1>3. ASSUME Crash \/ Finish PROVE Learned' /\ ConfirmedOnce'
  BY <1>1, <1>3 DEF Crash, Finish, Learned, Open, Current, InCase, learned
<1>4. ASSUME Choose PROVE Learned' /\ ConfirmedOnce'
  <2>1. PICK c \in Cases \ selected : selected' = selected \cup {c} /\ trial' = <<c, 0>> /\ planned' = Initial(c)
    BY <1>4 DEF Choose, Pending
  <2>2. Case' = c /\ Initial(Case)' = Initial(c) /\ UNCHANGED <<seen, triggers, expected>>
    BY <1>1, <1>4, <2>1 DEF Case, Choose
  <2>3. triggers[c] = {} /\ expected[c] = 0
    BY <2>1 DEF Learned
  <2> QED
    BY <1>1, <2>1, <2>2, <2>3 DEF Learned
<1>5. ASSUME InTrial PROVE Learned' /\ ConfirmedOnce'
  <2>1. /\ Case' = Case /\ Initial(Case)' = Initial(Case) /\ InCase
        /\ UNCHANGED <<planned, selected, seen, triggers, expected>>
    BY <1>1, <1>5, InTrialFacts DEF Case, InCase, Current
  <2> QED
    BY <1>1, <2>1 DEF Learned
<1>6. ASSUME Record PROVE Learned' /\ ConfirmedOnce'
  <2>1. /\ InCase /\ Case \in selected /\ UNCHANGED <<selected, expected>>
        /\ Case' = Case /\ Initial(Case)' = Initial(Case)
    BY <1>1, <1>6, RecordFacts DEF Record, InCase, Current, Progress
  <2>2. CASE planned' = planned /\ UNCHANGED <<seen, triggers>>
    BY <1>1, <2>1, <2>2 DEF Learned
  <2>3. ASSUME NEW new, new \cap seen = {}, planned = Initial(Case), seen' = seen \cup new,
               planned' = IF new # {} THEN planned + Confirmations ELSE planned,
               triggers' = IF Confirmations > 0 THEN [triggers EXCEPT ![Case] = @ \cup new] ELSE triggers
        PROVE  Learned' /\ ConfirmedOnce'
    <3>1. \A c \in Cases : triggers'[c] = IF c = Case /\ Confirmations > 0 THEN triggers[c] \cup new
                                           ELSE triggers[c]
      BY <1>1, <2>3
    <3>2. Confirmations > 0 => triggers[Case] = {}
      BY <1>1, <2>1, <2>3 DEF Learned
    <3>3. /\ \A c \in Cases : triggers'[c] \subseteq seen'
          /\ \A c \in Cases \ selected : triggers'[c] = {} /\ expected[c] = 0
      BY <2>1, <2>3, <3>1 DEF Learned
    <3>4. Confirmations > 0 => (planned' > Initial(Case)) = (triggers'[Case] # {})
      BY <1>1, <2>3, <3>1, <3>2
    <3>5. \A c, d \in Cases : c # d => triggers'[c] \cap triggers'[d] = {}
      BY <2>3, <3>1 DEF Learned
    <3>6. \A c \in Cases : expected[c] # 0 /\ Confirmations > 0 =>
                (expected[c] > Initial(c)) = (triggers'[c] # {})
      BY <2>1, <3>1 DEF Learned
    <3> QED
      BY <1>1, <2>1, <3>3, <3>4, <3>5, <3>6 DEF Learned
  <2> QED
    BY <1>6, <2>2, <2>3, RecordFacts
<1>7. ASSUME Observe PROVE Learned' /\ ConfirmedOnce'
  <2>1. /\ InCase /\ ~InCase' /\ Case \in selected
        /\ UNCHANGED <<seen, triggers, selected, planned>>
        /\ expected' = [expected EXCEPT ![Case] = planned]
    BY <1>7 DEF Observe, InCase, Current, Open, Progress
  <2>2. \A c \in Cases : expected'[c] = IF c = Case THEN planned ELSE expected[c]
    BY <1>1, <2>1
  <2> QED
    BY <1>1, <2>1, <2>2 DEF Learned
<1>8. CASE UNCHANGED vars
  <2>1. Case' = Case /\ (InCase' <=> InCase) /\ UNCHANGED <<planned, selected, seen, triggers, expected>>
    BY <1>8 DEF vars, control, learned, Case, InCase, Current, Open
  <2> QED
    BY <1>1, <2>1 DEF Learned
<1> QED
  BY Moves, <1>2, <1>3, <1>4, <1>5, <1>6, <1>7, <1>8

-----------------------------------------------------------------------------
(* What is on disk.                                                        *)

\* What the report says of the trials is true of the files of this attempt.
Sound == OnDisk /\ ReportMatchesDisk /\ EvidenceBound

\* A step that adds no completed trial and leaves the completed ones alone.
LEMMA CompletedKept ==
    ASSUME TypeOK, ReportMatchesDisk, EvidenceBound, [Next]_vars, attempt' = attempt, mode' = mode,
           \A t \in Trials : result'[t] = "completed" =>
                /\ result[t] = "completed"
                /\ evidence'[t] = evidence[t] /\ bundle'[t] = bundle[t]
                /\ reported'[t] = reported[t] /\ policies'[t] = policies[t]
    PROVE  ReportMatchesDisk' /\ EvidenceBound'
<1>1. Trials' = Trials /\ setting' = setting
  BY SettingKept
<1>2. ReportMatchesDisk'
  BY <1>1 DEF ReportMatchesDisk
<1>3. EvidenceBound'
  BY <1>1 DEF EvidenceBound
<1> QED
  BY <1>2, <1>3

LEMMA SoundStep == ASSUME TypeOK, Progress, Untried, Sound, [Next]_vars PROVE Sound'
<1> USE DEF Sound
<1>1. /\ Case \in Cases /\ trial \in Trials /\ Trials' = Trials /\ setting' = setting
      /\ attempt \in Nat /\ pc # "down" => attempt # 0
  BY TrialFacts, SettingKept DEF TypeOK, Progress
<1>2. /\ evidence \in [Trials -> {"none", "torn", "whole"}] /\ bundle \in [Trials -> Bundles]
      /\ reported \in [Trials -> BOOLEAN] /\ policies \in [Trials -> 0..MaxAttempts]
      /\ result \in [Trials -> Results]
  BY DEF TypeOK
<1>3. Open => result[trial] = "none"
  BY DEF Untried
<1>4. ASSUME Start PROVE Sound'
  <2>1. result' = [t \in Trials |-> "none"] /\ pc' = "choose"
    BY <1>4 DEF Start
  <2>2. ReportMatchesDisk' /\ EvidenceBound'
    BY <1>1, <2>1 DEF ReportMatchesDisk, EvidenceBound
  <2> QED
    BY <2>1, <2>2 DEF OnDisk
<1>5. ASSUME Crash \/ Choose \/ Record \/ Observe \/ Finish PROVE Sound'
  <2>1. /\ UNCHANGED <<evidence, bundle, reported, policies, attempt, mode, result>>
        /\ pc' \in {"down", "trial", "observe", "choose", "done"}
    BY <1>5 DEF Crash, Choose, Record, Advance, Observe, Finish, disk, learned
  <2>2. ReportMatchesDisk' /\ EvidenceBound'
    BY <2>1, CompletedKept
  <2> QED
    BY <2>1, <2>2 DEF OnDisk
<1>6. ASSUME NEW cause \in Errors, Fail(cause), UNCHANGED <<evidence, bundle, reported, policies>>
      PROVE  Sound'
  <2>1. /\ UNCHANGED <<attempt, mode>> /\ pc' = "record"
        /\ result' = [result EXCEPT ![trial] = cause] /\ cause # "completed"
    BY <1>6 DEF Fail, Errors
  <2>2. \A t \in Trials : result'[t] = "completed" => result[t] = "completed"
    BY <1>2, <2>1
  <2>3. ReportMatchesDisk' /\ EvidenceBound'
    BY <1>6, <2>1, <2>2, CompletedKept
  <2> QED
    BY <2>1, <2>3 DEF OnDisk
<1>7. ASSUME \/ Invalid \/ LoadTorn \/ LoadUnbound \/ PoliciesMissing \/ PoliciesOccupied
             \/ RunOccupied \/ RunFails
      PROVE  Sound'
  <2>1. \E cause \in Errors : Fail(cause)
    BY <1>7 DEF Invalid, LoadTorn, LoadUnbound, PoliciesMissing, PoliciesOccupied, RunOccupied, RunFails, Errors
  <2>2. UNCHANGED <<evidence, bundle, reported, policies>>
    BY <1>7 DEF Invalid, LoadTorn, LoadUnbound, PoliciesMissing, PoliciesOccupied, RunOccupied, RunFails, disk
  <2> QED
    BY <1>6, <2>1, <2>2
<1>8. ASSUME Load PROVE Sound'
  <2>1. /\ UNCHANGED <<evidence, bundle, reported, policies, attempt, mode, result, trial>>
        /\ pc' = "report" /\ mode = "resume" /\ evidence[trial] = "whole" /\ Binding
    BY <1>8 DEF Load, disk, learned, Resuming
  <2>2. ReportMatchesDisk' /\ EvidenceBound'
    BY <2>1, CompletedKept
  <2>3. BoundTo(bundle[trial], trial)'
    BY <1>1, <2>1 DEF Binding, BoundTo, Case
  <2> QED
    BY <2>1, <2>2, <2>3 DEF OnDisk
<1>9. ASSUME WritePolicies PROVE Sound'
  <2>1. /\ UNCHANGED <<evidence, bundle, reported, attempt, mode, result, trial, materialize>>
        /\ pc = "trial" /\ pc' = "run"
        /\ IF materialize THEN policies' = [policies EXCEPT ![trial] = attempt]
           ELSE Case \notin setting.bound /\ policies' = policies
    BY <1>9 DEF WritePolicies, Loaded, learned
  <2>2. result[trial] = "none"
    BY <1>3, <2>1 DEF Open
  <2>3. \A t \in Trials : t # trial => policies'[t] = policies[t]
    BY <1>1, <1>2, <2>1
  <2>4. ReportMatchesDisk' /\ EvidenceBound'
    BY <2>1, <2>2, <2>3, CompletedKept
  <2>5. OnDisk'
    BY <1>1, <1>2, <2>1 DEF OnDisk, Case
  <2> QED
    BY <2>4, <2>5
<1>10. ASSUME Run PROVE Sound'
  <2>1. /\ UNCHANGED <<evidence, bundle, reported, policies, attempt, mode, result, trial, materialize>>
        /\ pc = "run" /\ pc' = "write"
        /\ mode # "overwrite" => evidence[trial] = "none"
        /\ memory'.exec = attempt
        /\ memory'.policies = IF materialize THEN policies[trial] ELSE 0
    BY <1>10 DEF Run, Occupied, learned
  <2>2. ReportMatchesDisk' /\ EvidenceBound'
    BY <2>1, CompletedKept
  <2>3. BoundTo(memory, trial)'
    BY <1>1, <2>1 DEF OnDisk, BoundTo, Case
  <2> QED
    BY <2>1, <2>2, <2>3 DEF OnDisk
<1>11. ASSUME OpenEvidence PROVE Sound'
  <2>1. /\ UNCHANGED <<bundle, reported, policies, attempt, mode, result, trial, memory>>
        /\ pc = "write" /\ pc' = "writing" /\ evidence' = [evidence EXCEPT ![trial] = "torn"]
    BY <1>11 DEF OpenEvidence, learned
  <2>2. /\ result[trial] = "none" /\ evidence'[trial] = "torn"
        /\ \A t \in Trials : t # trial => evidence'[t] = evidence[t]
    BY <1>1, <1>2, <1>3, <2>1 DEF Open
  <2>3. ReportMatchesDisk' /\ EvidenceBound'
    BY <2>1, <2>2, CompletedKept
  <2>4. BoundTo(memory, trial)'
    BY <1>1, <2>1 DEF OnDisk, BoundTo
  <2> QED
    BY <2>1, <2>2, <2>3, <2>4 DEF OnDisk
<1>12. ASSUME CloseEvidence PROVE Sound'
  <2>1. /\ UNCHANGED <<reported, policies, attempt, mode, result, trial, memory>>
        /\ pc = "writing" /\ pc' = "report" /\ evidence' = [evidence EXCEPT ![trial] = "whole"]
        /\ bundle' = [bundle EXCEPT ![trial] = memory]
    BY <1>12 DEF CloseEvidence, learned
  <2>2. /\ result[trial] = "none" /\ evidence'[trial] = "whole" /\ bundle'[trial] = memory
        /\ \A t \in Trials : t # trial => evidence'[t] = evidence[t] /\ bundle'[t] = bundle[t]
    BY <1>1, <1>2, <1>3, <2>1 DEF Open
  <2>3. ReportMatchesDisk' /\ EvidenceBound'
    BY <2>1, <2>2, CompletedKept
  <2>4. BoundTo(bundle[trial], trial)'
    BY <1>1, <2>1, <2>2 DEF OnDisk, BoundTo
  <2>5. bundle'[trial].exec = attempt
    BY <2>1, <2>2 DEF OnDisk
  <2> QED
    BY <2>1, <2>2, <2>3, <2>4, <2>5 DEF OnDisk
<1>13. ASSUME Report PROVE Sound'
  <2>1. /\ UNCHANGED <<evidence, bundle, policies, attempt, mode, trial>>
        /\ pc = "report" /\ pc' = "record" /\ reported' = [reported EXCEPT ![trial] = TRUE]
        /\ result' = [result EXCEPT ![trial] = "completed"]
    BY <1>13 DEF Report
  <2>2. /\ evidence[trial] = "whole"
        /\ mode # "resume" => bundle[trial].exec = attempt
        /\ BoundTo(bundle[trial], trial)
    BY <2>1 DEF OnDisk
  <2>3. reported'[trial] /\ \A t \in Trials : t # trial => reported'[t] = reported[t] /\ result'[t] = result[t]
    BY <1>1, <1>2, <2>1
  <2>4. ReportMatchesDisk'
    BY <1>1, <2>1, <2>2, <2>3 DEF ReportMatchesDisk
  <2>5. EvidenceBound'
    BY <1>1, <2>1, <2>2, <2>3 DEF EvidenceBound, BoundTo
  <2> QED
    BY <2>1, <2>4, <2>5 DEF OnDisk
<1>14. CASE UNCHANGED vars
  <2>1. UNCHANGED <<evidence, bundle, reported, policies, attempt, mode, result, trial, memory, materialize, pc>>
    BY <1>14 DEF vars, disk, control, learned
  <2>2. ReportMatchesDisk' /\ EvidenceBound'
    BY <2>1, CompletedKept
  <2>3. OnDisk'
    BY <1>1, <2>1 DEF OnDisk, BoundTo, Case
  <2> QED
    BY <2>2, <2>3
<1> QED
  BY Moves, <1>4, <1>5, <1>7, <1>8, <1>9, <1>10, <1>11, <1>12, <1>13, <1>14 DEF InTrial

-----------------------------------------------------------------------------
(* The theorems.                                                           *)

LEMMA StepInvariant == ASSUME IInv, [Next]_vars PROVE IInv'
  BY TypeStep, ProgressStep, UntriedStep, SoundStep, LearnedStep DEF IInv, Sound

THEOREM Invariant == Spec => []IInv
<1>1. IInv /\ [Next]_vars => IInv'
  BY StepInvariant
<1> QED
  BY InitInvariant, <1>1, PTL DEF Spec

\* The campaign keeps its types for every manifest and every option.
THEOREM TypeCorrect == Spec => []TypeOK
<1>1. IInv => TypeOK
  BY DEF IInv
<1> QED
  BY Invariant, <1>1, PTL

\* record_case: however the cases are ordered, whatever they show and whatever
\* fails, no fingerprint makes two cases be confirmed.
THEOREM ConfirmationsOnce == Spec => []ConfirmedOnce
<1>1. IInv => ConfirmedOnce
  BY DEF IInv
<1> QED
  BY Invariant, <1>1, PTL

\* A trial is reported as completed only with a whole evidence and a report on
\* disk, of this very attempt unless it resumes.
THEOREM ReportTruthful == Spec => []ReportMatchesDisk
<1>1. IInv => ReportMatchesDisk
  BY DEF IInv
<1> QED
  BY Invariant, <1>1, PTL

\* _verify_materialized_binding: the policies beside completed evidence are its own.
THEOREM BoundEvidence == Spec => []EvidenceBound
<1>1. IInv => EvidenceBound
  BY DEF IInv
<1> QED
  BY Invariant, <1>1, PTL

\* Only an overwriting campaign replaces whole evidence.
THEOREM EvidenceKept == Spec => WholeEvidenceKept
<1> DEFINE Kept == mode # "overwrite" =>
                        \A t \in Trials : evidence[t] = "whole" =>
                            evidence'[t] = "whole" /\ bundle'[t] = bundle[t]
<1>1. ASSUME IInv, [Next]_vars PROVE [Kept]_<<evidence, bundle>>
  <2>1. /\ trial \in Trials /\ evidence \in [Trials -> {"none", "torn", "whole"}]
        /\ bundle \in [Trials -> Bundles]
    BY <1>1 DEF IInv, TypeOK
  <2>2. CASE OpenEvidence \/ CloseEvidence
    <3>1. mode # "overwrite" => evidence[trial] # "whole"
      BY <1>1, <2>2 DEF IInv, OnDisk, OpenEvidence, CloseEvidence
    <3>2. \A t \in Trials : t # trial => evidence'[t] = evidence[t] /\ bundle'[t] = bundle[t]
      BY <2>1, <2>2 DEF OpenEvidence, CloseEvidence
    <3> QED
      BY <3>1, <3>2
  <2>3. CASE ~(OpenEvidence \/ CloseEvidence)
    BY <1>1, <2>3 DEF Next, Step, Start, Crash, Choose, Invalid, LoadTorn, LoadUnbound, Load,
       WritePolicies, PoliciesMissing, PoliciesOccupied, RunOccupied, Run, RunFails, Report, Record,
       Observe, Finish, disk, vars
  <2> QED
    BY <2>2, <2>3
<1>2. [][Kept]_<<evidence, bundle>> => WholeEvidenceKept
  BY DEF WholeEvidenceKept
<1> HIDE DEF Kept
<1> QED
  BY Invariant, <1>1, <1>2, PTL DEF Spec

-----------------------------------------------------------------------------
(* The count of the trials.                                                *)

\* The cases that are over, and the trials that were planned for them.
Observed == {c \in Cases : expected[c] # 0}
Credit == SumFunctionOnSet(expected, Observed)

\* The trials that have a result are those planned for the cases that are over
\* and those of the current case, up to where it has got; fewer only after a stop.
Tally ==
    /\ Cardinality(selected) <= Budget
    /\ pc # "down" => Observed = IF InCase THEN selected \ {Case} ELSE selected
    /\ Current => ~stopped
    /\ Open => Ran = Credit + Repetition
    /\ pc = "record" => Ran = Credit + Repetition + 1
    /\ pc = "observe" => Ran <= Credit + planned /\ (~stopped => Ran = Credit + planned)
    /\ pc \in {"choose", "done"} => Ran <= Credit /\ (~stopped => Ran = Credit)
    /\ pc = "done" => ~More

LEMMA TallyFacts ==
    ASSUME TypeOK
    PROVE  /\ IsFiniteSet(Cases) /\ Cardinality(Cases) = setting.numCases
           /\ IsFiniteSet(selected) /\ Cardinality(selected) \in Nat
           /\ IsFiniteSet(Observed) /\ Credit \in Int
           /\ Budget \in Cases /\ Budget <= setting.numCases
           /\ \A c \in Cases : expected[c] \in Nat
<1>1. setting.numCases \in Nat \ {0} /\ setting.budget \in 1..setting.numCases
  BY CampaignAssumption DEF TypeOK
<1>2. IsFiniteSet(Cases) /\ Cardinality(Cases) = setting.numCases
  <2> DEFINE n == setting.numCases
  <2>1. n \in Nat \ {0}
    BY <1>1
  <2> HIDE DEF n
  <2>2. IsFiniteSet(1..n) /\ Cardinality(1..n) = n
    BY <2>1, FS_Interval
  <2> QED
    BY <2>2 DEF Cases, n
<1>3. selected \subseteq Cases /\ Observed \subseteq Cases
  BY DEF TypeOK, Observed
<1>4. /\ IsFiniteSet(selected) /\ Cardinality(selected) \in Nat
      /\ IsFiniteSet(Observed)
  BY <1>2, <1>3, FS_Subset, FS_CardinalityType
<1>5. \A c \in Cases : expected[c] \in Nat
  BY SettingFacts DEF TypeOK
<1>6. Credit \in Int
  BY <1>3, <1>4, <1>5, SumType DEF Credit
<1> QED
  BY <1>1, <1>2, <1>4, <1>5, <1>6 DEF Budget, Cases

\* The results of an attempt are finitely many.
LEMMA RanType ==
    ASSUME TypeOK
    PROVE  IsFiniteSet({t \in Trials : result[t] # "none"}) /\ Ran \in Nat
<1>1. IsFiniteSet(Trials)
  <2> DEFINE last == BaselineRepetitions + Confirmations - 1
  <2>0. last \in Int
    BY SettingFacts DEF TypeOK
  <2> HIDE DEF last
  <2>1. IsFiniteSet(Cases) /\ IsFiniteSet(0..last)
    BY <2>0, TallyFacts, FS_Interval
  <2> USE DEF last
  <2> QED
    BY <2>1, FS_Product DEF Trials
<1>2. IsFiniteSet({t \in Trials : result[t] # "none"})
  BY <1>1, FS_Subset
<1> QED
  BY <1>2, FS_CardinalityType DEF Ran

\* A new one counts once.
LEMMA RanFacts ==
    ASSUME TypeOK, Trials' = Trials
    PROVE  /\ Ran \in Nat
           /\ result' = result => Ran' = Ran
           /\ result' = [t \in Trials |-> "none"] => Ran' = 0
           /\ \A r : r # "none" /\ result[trial] = "none" /\ result' = [result EXCEPT ![trial] = r]
                     => Ran' = Ran + 1
<1> DEFINE S == {t \in Trials : result[t] # "none"}
<1>2. IsFiniteSet(S) /\ Ran = Cardinality(S) /\ Ran \in Nat
  BY RanType DEF Ran
<1>3. result' = result => Ran' = Ran
  BY DEF Ran
<1>4. ASSUME result' = [t \in Trials |-> "none"]
      PROVE  Ran' = 0
  <2>1. {t \in Trials' : result'[t] # "none"} = {}
    BY <1>4
  <2> QED
    BY <2>1, FS_EmptySet DEF Ran
<1>5. ASSUME NEW r, r # "none", result[trial] = "none", result' = [result EXCEPT ![trial] = r]
      PROVE  Ran' = Ran + 1
  <2>1. trial \in Trials /\ result \in [Trials -> Results]
    BY DEF TypeOK
  <2>2. {t \in Trials' : result'[t] # "none"} = S \cup {trial} /\ trial \notin S
    BY <1>5, <2>1
  <2>3. Ran' = Cardinality(S \cup {trial})
    BY <2>2 DEF Ran
  <2> HIDE DEF S
  <2> QED
    BY <1>2, <2>2, <2>3, FS_AddElement
<1> QED
  BY <1>2, <1>3, <1>4, <1>5

\* A case that is over adds the trials planned for it.
LEMMA CreditGrows ==
    ASSUME TypeOK, TypeOK', Cases' = Cases, Case \in Cases, expected[Case] = 0,
           NEW plan \in Nat \ {0}, expected' = [expected EXCEPT ![Case] = plan]
    PROVE  Observed' = Observed \cup {Case} /\ Credit' = Credit + plan
<1>1. expected \in [Cases -> 0..(BaselineRepetitions + Confirmations)]
  BY DEF TypeOK
<1>2. expected'[Case] = plan /\ \A c \in Cases : c # Case => expected'[c] = expected[c]
  BY <1>1
<1>3. Observed' = Observed \cup {Case} /\ Case \notin Observed
  BY <1>2 DEF Observed
<1>4. /\ IsFiniteSet(Observed) /\ IsFiniteSet(Observed') /\ Credit \in Int
      /\ \A c \in Cases : expected[c] \in Nat /\ expected'[c] \in Nat
  <2>1. IsFiniteSet(Observed) /\ Credit \in Int /\ \A c \in Cases : expected[c] \in Nat
    BY TallyFacts
  <2>2. (IsFiniteSet(Observed))' /\ (\A c \in Cases : expected[c] \in Nat)'
    BY TallyFacts, PTL
  <2> QED
    BY <2>1, <2>2
<1>5. Credit' = expected'[Case] + SumFunctionOnSet(expected', Observed' \ {Case})
  <2>1. Case \in Observed' /\ \A c \in Observed' : expected'[c] \in Int
    BY <1>3, <1>4 DEF Observed
  <2>2. SumFunctionOnSet(expected', Observed')
            = expected'[Case] + SumFunctionOnSet(expected', Observed' \ {Case})
    BY <1>4, <2>1, SumRemove
  <2> QED
    BY <2>2 DEF Credit
<1>6. Observed' \ {Case} = Observed
  BY <1>3
<1>7. SumFunctionOnSet(expected', Observed) = Credit
  BY <1>2, <1>3, <1>4, SumSame DEF Credit, Observed
<1> QED
  <2>1. Credit' = plan + Credit
    BY <1>2, <1>5, <1>6, <1>7
  <2> QED
    BY <1>3, <1>4, <2>1

LEMMA TallyStep == ASSUME IInv, Tally, [Next]_vars PROVE Tally'
<1>1. /\ TypeOK /\ Progress /\ Untried /\ Learned /\ TypeOK'
      /\ Cases' = Cases /\ Trials' = Trials /\ Budget' = Budget
  BY StepInvariant, SettingKept DEF IInv, Budget
<1>2. /\ Ran \in Nat /\ Credit \in Int /\ Repetition \in Nat /\ planned \in Nat
      /\ Case \in Cases /\ Cardinality(selected) \in Nat /\ Budget \in Nat
      /\ IsFiniteSet(selected)
      /\ \A c \in Cases : 0 < Initial(c)
  <2>1. /\ Ran \in Nat /\ Credit \in Int /\ Repetition \in Nat /\ planned \in Nat
        /\ Case \in Cases /\ Cardinality(selected) \in Nat /\ Budget \in Cases
        /\ IsFiniteSet(selected)
    BY <1>1, RanFacts, TallyFacts, TrialFacts
  <2>2. Budget \in Nat
    BY <2>1 DEF Cases
  <2>3. \A c \in Cases : 0 < Initial(c)
    BY <1>1, SettingFacts DEF TypeOK
  <2> QED
    BY <2>1, <2>2, <2>3
<1>3. result' = result => Ran' = Ran
  BY <1>1, RanFacts
<1>4. UNCHANGED expected => Observed' = Observed /\ Credit' = Credit
  BY <1>1 DEF Observed, Credit
<1>5. ASSUME Start PROVE Tally'
  <2>1. /\ pc' = "choose" /\ selected' = {} /\ result' = [t \in Trials |-> "none"]
        /\ expected' = [c \in Cases |-> 0] /\ stopped' = FALSE
    BY <1>5 DEF Start
  <2>2. Observed' = {}
    BY <1>1, <2>1 DEF Observed
  <2>3. Ran' = 0
    BY <1>1, <2>1, RanFacts
  <2>4. Credit' = 0
    <3>1. Credit' = SumFunctionOnSet(expected', {})
      BY <2>2 DEF Credit
    <3> QED
      BY <3>1, SumUnfold, FS_EmptySet
  <2>5. Cardinality(selected') = 0
    BY <2>1, FS_EmptySet
  <2>6. ~InCase' /\ ~Current' /\ ~Open'
    BY <2>1 DEF InCase, Current, Open
  <2>7. 0 <= Budget'
    BY <1>1, <1>2
  <2> QED
    BY <2>1, <2>2, <2>3, <2>4, <2>5, <2>6, <2>7 DEF Tally
<1>6. ASSUME Crash PROVE Tally'
  BY <1>1, <1>6 DEF Crash, learned, Tally, InCase, Current, Open
<1>7. ASSUME Choose PROVE Tally'
  <2>1. PICK c \in Cases \ selected : selected' = selected \cup {c} /\ trial' = <<c, 0>>
    BY <1>7 DEF Choose, Pending
  <2>2. /\ pc = "choose" /\ More /\ pc' = "trial" /\ UNCHANGED <<result, expected, stopped>>
        /\ Case' = c /\ Repetition' = 0
    BY <1>7, <2>1 DEF Choose, Case, Repetition
  <2>3. Cardinality(selected') <= Budget'
    <3>1. Cardinality(selected') = Cardinality(selected) + 1
      BY <1>2, <2>1, FS_AddElement
    <3>2. Cardinality(selected) < Budget
      BY <2>2 DEF More
    <3> QED
      BY <1>1, <1>2, <3>1, <3>2
  <2>4. Observed = selected /\ Ran = Credit /\ ~stopped
    BY <2>2 DEF Tally, InCase, Current, Open, More
  <2>5. InCase' /\ Observed' = selected' \ {Case'}
    BY <1>4, <2>1, <2>2, <2>4 DEF InCase, Current, Open
  <2>6. Ran' = Credit' + Repetition'
    BY <1>2, <1>3, <1>4, <2>2, <2>4
  <2> QED
    BY <2>2, <2>3, <2>4, <2>5, <2>6 DEF Tally
<1>8. ASSUME InTrial PROVE Tally'
  <2>1. /\ Open /\ Current /\ InCase
        /\ UNCHANGED <<trial, planned, selected, expected>>
    BY <1>8, InTrialFacts DEF Current, InCase
  <2>2. stopped' = stopped
    BY <1>8 DEF InTrial, Invalid, LoadTorn, LoadUnbound, Load, WritePolicies, PoliciesMissing,
       PoliciesOccupied, RunOccupied, Run, RunFails, OpenEvidence, CloseEvidence, Report, Fail, learned
  <2>3. /\ Case' = Case /\ Repetition' = Repetition
        /\ Observed' = Observed /\ Credit' = Credit
    BY <1>4, <2>1 DEF Case, Repetition
  <2>4. /\ Cardinality(selected) <= Budget /\ Observed = selected \ {Case} /\ ~stopped
        /\ Ran = Credit + Repetition
    BY <2>1 DEF Tally, Open
  <2>5. CASE pc' \in {"run", "write", "writing", "report"} /\ UNCHANGED result
    <3>1. Open' /\ Current' /\ InCase'
      BY <2>5 DEF Open, Current, InCase
    <3>2. Ran' = Credit' + Repetition'
      BY <1>3, <2>3, <2>4, <2>5
    <3> QED
      BY <1>1, <2>1, <2>2, <2>3, <2>4, <2>5, <3>1, <3>2 DEF Tally
  <2>6. CASE pc' = "record" /\ \E r : r # "none" /\ result' = [result EXCEPT ![trial] = r]
    <3>1. ~Open' /\ Current' /\ InCase'
      BY <2>6 DEF Open, Current, InCase
    <3>2. result[trial] = "none"
      BY <1>1, <2>1 DEF Untried
    <3>3. Ran' = Ran + 1
      BY <1>1, <2>6, <3>2, RanFacts
    <3>4. Ran' = Credit' + Repetition' + 1
      BY <1>2, <2>3, <2>4, <3>3
    <3> QED
      BY <1>1, <2>1, <2>2, <2>3, <2>4, <2>6, <3>1, <3>4 DEF Tally
  <2>7. \A cause \in Errors : cause # "none"
    BY DEF Errors
  <2>8. Report => result' = [result EXCEPT ![trial] = "completed"]
    BY DEF Report
  <2>9. \/ pc' \in {"run", "write", "writing", "report"} /\ UNCHANGED result
        \/ pc' = "record" /\ \E r : r # "none" /\ result' = [result EXCEPT ![trial] = r]
    BY <1>8, <2>7, <2>8, InTrialFacts, Zenon
  <2> QED
    BY <2>5, <2>6, <2>9
<1>9. ASSUME Record PROVE Tally'
  <2>1. /\ pc = "record" /\ Current /\ InCase /\ UNCHANGED <<selected, result, expected>>
        /\ Advance(planned')
    BY <1>9 DEF Record, Current, InCase
  <2>2. /\ Cardinality(selected) <= Budget /\ Observed = selected \ {Case} /\ ~stopped
        /\ Ran = Credit + Repetition + 1
    BY <2>1 DEF Tally
  <2>3. Case' = Case /\ Observed' = Observed /\ Credit' = Credit /\ Ran' = Ran
    BY <1>1, <1>3, <1>4, <1>9, <2>1, RecordFacts
  <2>4. Repetition < planned /\ planned' \in Nat /\ planned <= planned'
    <3>1. Repetition < planned
      BY <1>1, <2>1 DEF Progress
    <3>2. planned' \in {planned, planned + Confirmations}
      BY <1>1, <1>9, RecordFacts
    <3>3. Confirmations \in Nat
      BY <1>1, SettingFacts DEF TypeOK
    <3> QED
      BY <1>2, <3>1, <3>2, <3>3
  <2> DEFINE stop == setting.stopOnError /\ result[trial] # "completed"
             more == Repetition + 1 < planned' /\ ~stop
  <2>5. /\ stopped' <=> stop
        /\ pc' = IF more THEN "trial" ELSE "observe"
        /\ trial' = IF more THEN <<Case, Repetition + 1>> ELSE trial
    BY <2>1, <2>2 DEF Advance
  <2>6. CASE more
    <3>1. pc' = "trial" /\ ~stopped' /\ Repetition' = Repetition + 1
      BY <2>5, <2>6 DEF Repetition
    <3>2. Open' /\ Current' /\ InCase'
      BY <3>1 DEF Open, Current, InCase
    <3>3. Ran' = Credit' + Repetition'
      BY <1>2, <2>2, <2>3, <3>1
    <3> QED
      BY <1>1, <2>1, <2>2, <2>3, <3>1, <3>2, <3>3 DEF Tally
  <2>7. CASE ~more
    <3>1. pc' = "observe"
      BY <2>5, <2>7
    <3>2. ~Open' /\ ~Current' /\ InCase'
      BY <3>1 DEF Open, Current, InCase
    <3>3. ~stopped' => Repetition + 1 = planned'
      <4>1. ~stopped' => ~(Repetition + 1 < planned')
        BY <2>5, <2>7
      <4> QED
        BY <1>2, <2>4, <4>1
    <3>4. Ran' <= Credit' + planned' /\ (~stopped' => Ran' = Credit' + planned')
      <4>1. Repetition + 1 <= planned'
        BY <1>2, <2>4
      <4>2. Ran' = Credit' + (Repetition + 1) /\ Credit' \in Int
        BY <1>2, <2>2, <2>3
      <4>3. Ran' <= Credit' + planned'
        <5>1. Repetition + 1 \in Int /\ planned' \in Int
          BY <1>2, <2>4
        <5>2. ASSUME NEW c \in Int, NEW r \in Int, NEW p \in Int, r <= p
              PROVE  c + r <= c + p
          BY <5>2
        <5> QED
          BY <4>1, <4>2, <5>1, <5>2
      <4>4. ~stopped' => Ran' = Credit' + planned'
        BY <3>3, <4>2
      <4> QED
        BY <4>3, <4>4
    <3> QED
      BY <1>1, <2>1, <2>2, <2>3, <3>1, <3>2, <3>4 DEF Tally
  <2> QED
    BY <2>6, <2>7
<1>10. ASSUME Observe PROVE Tally'
  <2>1. /\ pc = "observe" /\ InCase /\ pc' = "choose" /\ UNCHANGED <<selected, result, planned>>
        /\ expected' = [expected EXCEPT ![Case] = planned]
        /\ ~stopped' => ~stopped
    BY <1>10 DEF Observe, InCase
  <2>2. /\ Cardinality(selected) <= Budget /\ Observed = selected \ {Case}
        /\ Ran <= Credit + planned /\ (~stopped => Ran = Credit + planned)
    BY <2>1 DEF Tally
  <2>3. Case \in selected /\ planned # 0 /\ expected[Case] = 0
    <3>1. Case \in selected /\ planned \in {Initial(Case), Initial(Case) + Confirmations}
      BY <1>1, <2>1 DEF Progress
    <3>2. Confirmations \in Nat /\ Initial(Case) \in Nat /\ 0 < Initial(Case)
      BY <1>1, <1>2, SettingFacts DEF TypeOK
    <3>3. expected[Case] = 0
      BY <1>1, <2>1 DEF Learned
    <3> QED
      BY <3>1, <3>2, <3>3
  <2>4. Observed' = Observed \cup {Case} /\ Credit' = Credit + planned
    BY <1>1, <1>2, <2>1, <2>3, CreditGrows
  <2>5. Observed' = selected' /\ Ran' = Ran
    BY <1>3, <2>1, <2>2, <2>3, <2>4
  <2>6. ~Open' /\ ~Current' /\ ~InCase'
    BY <2>1 DEF Open, Current, InCase
  <2> QED
    BY <1>1, <2>1, <2>2, <2>4, <2>5, <2>6 DEF Tally
<1>11. ASSUME Finish PROVE Tally'
  <2>1. /\ pc = "choose" /\ ~More /\ pc' = "done"
        /\ UNCHANGED <<selected, result, expected, stopped, trial, planned>>
    BY <1>11 DEF Finish, learned
  <2>2. ~More'
    BY <1>1, <2>1 DEF More, Pending
  <2>3. Ran' = Ran /\ Observed' = Observed /\ Credit' = Credit
    BY <1>3, <1>4, <2>1
  <2>4. ~InCase /\ ~Current /\ ~Open /\ ~Open' /\ ~Current' /\ ~InCase'
    BY <2>1 DEF Open, Current, InCase
  <2> QED
    BY <1>1, <2>1, <2>2, <2>3, <2>4 DEF Tally
<1>12. CASE UNCHANGED vars
  <2>1. UNCHANGED <<pc, selected, result, expected, stopped, trial, planned>>
    BY <1>12 DEF vars, control, learned
  <2>2. /\ More' <=> More
        /\ Open' <=> Open
        /\ Current' <=> Current
        /\ InCase' <=> InCase
        /\ Case' = Case /\ Repetition' = Repetition
    BY <1>1, <2>1 DEF More, Pending, Open, Current, InCase, Case, Repetition
  <2>3. Ran' = Ran /\ Observed' = Observed /\ Credit' = Credit
    BY <1>3, <1>4, <2>1
  <2> QED
    BY <1>1, <2>1, <2>2, <2>3 DEF Tally
<1> QED
  BY Moves, <1>5, <1>6, <1>7, <1>8, <1>9, <1>10, <1>11, <1>12

\* Every selected case is worth its repetitions in the report, and what was
\* planned beyond them.
LEMMA TallyTotal ==
    ASSUME TypeOK, Tally, pc = "done"
    PROVE  TrialCount >= Ran /\ (~stopped => TrialCount = Ran)
<1> DEFINE extra == [c \in Cases |-> expected[c] - Repetitions]
           Q == Cardinality(selected)
<1>1. /\ Repetitions \in Nat /\ Budget \in Nat /\ Q \in Nat /\ Q <= Budget
      /\ IsFiniteSet(selected) /\ selected \subseteq Cases
      /\ \A c \in Cases : expected[c] \in Nat
  <2>1. Repetitions \in Nat /\ selected \subseteq Cases
    BY SettingFacts DEF TypeOK
  <2>2. /\ Budget \in Cases /\ Q \in Nat /\ IsFiniteSet(selected)
        /\ \A c \in Cases : expected[c] \in Nat
    BY TallyFacts
  <2>3. Q <= Budget
    BY DEF Tally
  <2>4. Budget \in Nat
    BY <2>2 DEF Cases
  <2> QED
    BY <2>1, <2>2, <2>3, <2>4
<1>2. Observed = selected
  BY DEF Tally, InCase, Current, Open
<1>3. TrialCount = Budget * Repetitions + SumFunctionOnSet(extra, selected)
  BY <1>2 DEF TrialCount, Observed
<1>4. \A c \in selected : expected[c] \in Int /\ extra[c] = expected[c] - Repetitions
  BY <1>1
<1>5. Credit = SumFunctionOnSet(extra, selected) + Q * Repetitions
  <2> HIDE DEF extra
  <2>1. SumFunctionOnSet(expected, selected) = SumFunctionOnSet(extra, selected) + Q * Repetitions
    <3>1. Repetitions \in Int
      BY <1>1
    <3> QED
      BY <1>1, <1>4, <3>1, SumShift
  <2> QED
    BY <1>2, <2>1 DEF Credit
<1>6. SumFunctionOnSet(extra, selected) \in Int
  <2>1. \A c \in selected : extra[c] \in Int
    BY <1>1, <1>4
  <2> HIDE DEF extra
  <2> QED
    BY <1>1, <2>1, SumType
<1>7. Ran <= Credit /\ (~stopped => Ran = Credit) /\ ~More
  BY DEF Tally
<1>8. ~stopped => Q = Budget
  <2>1. ASSUME ~stopped, Cases \ selected = {}
        PROVE  Q = Cardinality(Cases)
    <3>1. selected = Cases
      BY <1>1, <2>1
    <3> QED
      BY <3>1
  <2>2. Budget <= Cardinality(Cases)
    BY TallyFacts
  <2>3. ~stopped => Cases \ selected = {} \/ ~(Q < Budget)
    BY <1>7 DEF More, Pending
  <2>4. Cardinality(Cases) \in Nat
    BY TallyFacts, FS_CardinalityType
  <2> QED
    BY <1>1, <2>1, <2>2, <2>3, <2>4
<1>9. Q * Repetitions <= Budget * Repetitions
  <2>1. Budget - Q \in Nat /\ Budget = Q + (Budget - Q)
    BY <1>1
  <2>2. (Budget - Q) * Repetitions \in Nat
    BY <1>1, <2>1
  <2>3. Budget * Repetitions = Q * Repetitions + (Budget - Q) * Repetitions
    BY <1>1, <2>1
  <2> QED
    BY <1>1, <2>2, <2>3
<1>10. /\ Q * Repetitions \in Nat /\ Budget * Repetitions \in Nat /\ Ran \in Nat
       /\ ~stopped => Q * Repetitions = Budget * Repetitions
  <2>1. Q * Repetitions \in Nat /\ Budget * Repetitions \in Nat
    BY <1>1
  <2> QED
    BY <1>8, <2>1, RanType
<1> HIDE DEF extra, Q
<1> QED
  BY <1>3, <1>5, <1>6, <1>7, <1>9, <1>10

\* campaign-report.json: however often the campaign was killed and started again
\* before, not_run is never negative, and zero when the campaign did not stop early.
THEOREM ReportAccounts == Spec => []TrialsAccounted
<1>1. Init => Tally
  <2> SUFFICES ASSUME Init PROVE Tally
    OBVIOUS
  <2>1. pc = "down" /\ selected = {} /\ TypeOK
    BY InitInvariant DEF Init, IInv
  <2>2. Cardinality(selected) = 0
    BY <2>1, FS_EmptySet, Zenon
  <2>3. Budget \in Nat
    <3>1. Budget \in Cases
      BY <2>1, TallyFacts
    <3> QED
      BY <3>1 DEF Cases
  <2> QED
    BY <2>1, <2>2, <2>3 DEF Tally, InCase, Current, Open
<1>2. IInv /\ Tally /\ [Next]_vars => Tally'
  BY TallyStep
<1>3. IInv /\ Tally => TrialsAccounted
  BY TallyTotal DEF IInv, TrialsAccounted
<1> QED
  BY Invariant, <1>1, <1>2, <1>3, PTL DEF Spec
=============================================================================
