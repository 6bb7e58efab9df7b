-------------------------- MODULE CampaignProperties --------------------------
(* What a campaign promises across interruptions, and of its own report. *)
EXTENDS Campaign

\* The report of a finished campaign accounts for every trial: not_run is never
\* negative, and zero unless the campaign stopped early.
Ran == Cardinality({t \in Trials : result[t] # "none"})
TrialsAccounted ==
    pc = "done" =>
        /\ TrialCount >= Ran
        /\ ~stopped => TrialCount = Ran

\* A fingerprint asks for confirmations once per campaign, in the first case
\* that shows it, and confirmations are planned for exactly such cases.
ConfirmedOnce ==
    /\ \A c, d \in Cases : c # d => triggers[c] \cap triggers[d] = {}
    /\ \A c \in Cases : expected[c] # 0 /\ Confirmations > 0 =>
            (expected[c] > Initial(c)) = (triggers[c] # {})

\* What the report says of a trial comes from the evidence its directory holds,
\* also when several attempts worked on that directory.
ReportMatchesDisk ==
    \A t \in Trials : result[t] = "completed" =>
        /\ evidence[t] = "whole" /\ reported[t]
        /\ mode # "resume" => bundle[t].exec = attempt

\* Where the evidence of a completed trial is bound to policies, those beside it
\* are the ones it was obtained under, whatever was interrupted before; and a
\* case about policies is completed by bound evidence only.
EvidenceBound ==
    \A t \in Trials : result[t] = "completed" =>
        /\ bundle[t].policies # 0 => bundle[t].policies = policies[t]
        /\ t[1] \in setting.bound => bundle[t].policies # 0

\* Only an overwriting campaign replaces evidence: resuming, or starting afresh
\* over what a killed campaign left, never loses a whole one.
WholeEvidenceKept ==
    [][mode # "overwrite" =>
        \A t \in Trials : evidence[t] = "whole" =>
            evidence'[t] = "whole" /\ bundle'[t] = bundle[t]]_<<evidence, bundle>>

\* A campaign that is resumed whenever it is killed ends with a summary.
CampaignEnds == <>[](pc = "done" /\ summary)

\* README: interrupted campaigns can be continued with --resume.  So a trial of
\* a resumed campaign fails for reasons of its own, not for the interruption.
InterruptionHealed ==
    \A t \in Trials : result[t] # "torn"

\* README: the byte-exact original of a compacted log is retained as .log.gz.
\* So the sanitizer events of an evidence are those of its own execution.
SanitizerEventsOwn ==
    \A t \in Trials : evidence[t] = "whole" => bundle[t].log = bundle[t].exec
=============================================================================
