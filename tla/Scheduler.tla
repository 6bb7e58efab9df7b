------------------------------ MODULE Scheduler -------------------------------
(***************************************************************************)
(* ArtifactGuidedScheduler of coverage.py: which pending case comes next,  *)
(* what an observation counts as new, when the search has reached its      *)
(* plateau, and the corpus that carries the seen features over to later    *)
(* campaigns.  A campaign may be killed at any point and started again.    *)
(*                                                                         *)
(* The score that ranks the eligible cases depends on rewards and visits   *)
(* and ends in a hash of the seed; here any eligible case may rank first.  *)
(***************************************************************************)
EXTENDS Integers, Sequences, FiniteSets

CONSTANTS
    Cases,        \* the pool
    Semantic,     \* per case, _semantic_case_key
    Controls,     \* cases of the shape of an unperturbed schedule
    Marked,       \* cases _is_baseline accepts: the marker decides if present
    Features,     \* runtime features an evidence may show
    Budget,       \* execution_budget
    Window,       \* plateau_window
    StopOnError,  \* a failing trial ends the campaign after its case
    NoCase,
    MaxStarts     \* bound: campaigns one after the other

\* What the complete executions among the trials of a case show together.
Showings == [complete : BOOLEAN,          \* there is a complete execution
             anomaly : BOOLEAN,
             features : SUBSET Features,  \* states, causal edges, artifacts
             differs : SUBSET Features]   \* shown only against a control

ASSUME SchedulerAssumption ==
    /\ DOMAIN Semantic = Cases
    /\ Controls \subseteq Cases /\ Marked \subseteq Cases
    /\ NoCase \notin Cases /\ StopOnError \in BOOLEAN
    /\ Budget \in Nat \ {0} /\ Window \in Nat /\ MaxStarts \in Nat

VARIABLES
    pc,
    starts,     \* campaigns started so far
    trace,      \* _trace: per observation its case, new features, anomaly
    current,    \* the chosen case, or NoCase
    seen,       \* _seen_runtime
    semantics,  \* _baseline_semantics
    controlled, \* keys with an entry in _baseline_evidence
    streak,     \* _no_progress_runs
    stopped,    \* _stop_reason is set
    corpus      \* seen_runtime_features in the corpus file

vars == <<pc, starts, trace, current, seen, semantics, controlled, streak, stopped, corpus>>

Entries == [case : Cases, new : SUBSET Features, anomaly : BOOLEAN]

TypeOK ==
    /\ pc \in {"down", "choose", "observe", "plateau", "save", "done"}
    /\ starts \in 0..MaxStarts
    /\ trace \in Seq(Entries)
    /\ current \in Cases \cup {NoCase}
    /\ seen \subseteq Features
    /\ semantics \subseteq {Semantic[c] : c \in Cases}
    /\ controlled \subseteq {Semantic[c] : c \in Cases}
    /\ streak \in Nat
    /\ stopped \in BOOLEAN
    /\ corpus \subseteq Features

Init ==
    /\ pc = "down" /\ starts = 0
    /\ trace = <<>> /\ current = NoCase
    /\ seen = {} /\ semantics = {} /\ controlled = {}
    /\ streak = 0 /\ stopped = FALSE
    /\ corpus = {}

\* A campaign loads the corpus into a new scheduler.
Start ==
    /\ pc \in {"down", "done"} /\ starts < MaxStarts
    /\ starts' = starts + 1
    /\ pc' = "choose"
    /\ trace' = <<>> /\ current' = NoCase
    /\ seen' = corpus /\ semantics' = {} /\ controlled' = {}
    /\ streak' = 0 /\ stopped' = FALSE
    /\ UNCHANGED corpus

Kill ==
    /\ pc \notin {"down", "done"}
    /\ pc' = "down"
    /\ UNCHANGED <<starts, trace, current, seen, semantics, controlled, streak, stopped, corpus>>

Executed == {trace[i].case : i \in DOMAIN trace}
Pending == Cases \ Executed
More == Pending # {} /\ Len(trace) < Budget /\ ~stopped

\* A mutant: a mutation needs no executed control.
EligibleUncontrolled == Pending

\* The cases the score decides between.
Eligible ==
    LET first == {c \in Pending : c \in Marked}
        ready == {c \in Pending : c \in Marked \/ Semantic[c] \in semantics}
    IN IF trace = <<>> /\ first # {} THEN first
       ELSE IF ready # {} THEN ready ELSE Pending

Choose ==
    /\ pc = "choose" /\ More
    /\ current' \in Eligible
    /\ pc' = "observe"
    /\ UNCHANGED <<starts, trace, seen, semantics, controlled, streak, stopped, corpus>>

\* The features a case contributes; incomplete executions have none.
Combined(shown) ==
    IF ~shown.complete THEN {}
    ELSE shown.features \cup
         IF current \notin Marked /\ Semantic[current] \in controlled
         THEN shown.differs ELSE {}

\* A mutant: the streak is not reset by progress.
ObserveCounting(shown) ==
    LET new == Combined(shown) \ seen
        anomaly == shown.complete /\ shown.anomaly
    IN
    /\ pc = "observe"
    /\ controlled' = controlled \cup (IF current \in Marked /\ shown.complete
                                      THEN {Semantic[current]} ELSE {})
    /\ seen' = seen \cup Combined(shown)
    /\ semantics' = semantics \cup (IF current \in Marked THEN {Semantic[current]} ELSE {})
    /\ streak' = IF anomaly THEN 0 ELSE streak + 1
    /\ trace' = Append(trace, [case |-> current, new |-> new, anomaly |-> anomaly])
    /\ pc' = "plateau"
    /\ UNCHANGED <<starts, current, stopped, corpus>>

\* A mutant: only the newest features are kept as seen.
ObserveForgetting(shown) ==
    LET new == Combined(shown) \ seen
        anomaly == shown.complete /\ shown.anomaly
    IN
    /\ pc = "observe"
    /\ controlled' = controlled
    /\ seen' = new
    /\ semantics' = semantics \cup (IF current \in Marked THEN {Semantic[current]} ELSE {})
    /\ streak' = IF new # {} \/ anomaly THEN 0 ELSE streak + 1
    /\ trace' = Append(trace, [case |-> current, new |-> new, anomaly |-> anomaly])
    /\ pc' = "plateau"
    /\ UNCHANGED <<starts, current, stopped, corpus>>

\* An observation updates what is seen, controlled and unproductive.
Observe(shown) ==
    LET new == Combined(shown) \ seen
        anomaly == shown.complete /\ shown.anomaly
    IN
    /\ pc = "observe"
    /\ controlled' = controlled \cup (IF current \in Marked /\ shown.complete
                                      THEN {Semantic[current]} ELSE {})
    /\ seen' = seen \cup Combined(shown)
    /\ semantics' = semantics \cup (IF current \in Marked THEN {Semantic[current]} ELSE {})
    /\ streak' = IF new # {} \/ anomaly THEN 0 ELSE streak + 1
    /\ trace' = Append(trace, [case |-> current, new |-> new, anomaly |-> anomaly])
    /\ pc' = "plateau"
    /\ UNCHANGED <<starts, current, stopped, corpus>>

\* plateau_reached; a window of zero never stops.
Plateau ==
    /\ pc = "plateau"
    /\ stopped' = (Window > 0 /\ streak >= Window)
    /\ pc' = "choose"
    /\ UNCHANGED <<starts, trace, current, seen, semantics, controlled, streak, corpus>>

\* The loop is over, perhaps by a failing trial; what follows is the corpus.
Finish ==
    /\ pc = "choose"
    /\ ~More \/ (StopOnError /\ trace # <<>>)
    /\ pc' = "save"
    /\ UNCHANGED <<starts, trace, current, seen, semantics, controlled, streak, stopped, corpus>>

\* A mutant: the corpus file is written in place, so a kill leaves it empty.
SaveInPlace ==
    /\ pc = "save"
    /\ \/ corpus' = seen /\ pc' = "done"
       \/ corpus' = {} /\ pc' = "down"
    /\ UNCHANGED <<starts, trace, current, seen, semantics, controlled, streak, stopped>>

\* save_corpus writes beside the corpus and then replaces it in one step.
Save ==
    /\ pc = "save"
    /\ corpus' = seen
    /\ pc' = "done"
    /\ UNCHANGED <<starts, trace, current, seen, semantics, controlled, streak, stopped>>

Next ==
    \/ Start \/ Kill \/ Choose \/ Plateau \/ Finish \/ Save
    \/ \E shown \in Showings : Observe(shown)

Spec == Init /\ [][Next]_vars
-----------------------------------------------------------------------------
\* A comment of choose: a mutation is useful only after its matched semantic
\* control has executed.  So where the pool holds a control of its semantics, no
\* mutation is observed before one of them.
MutationAfterControl ==
    \A i \in DOMAIN trace :
        LET key == Semantic[trace[i].case] IN
        trace[i].case \notin Controls /\ (\E c \in Controls : Semantic[c] = key)
        => \E j \in 1..(i - 1) : trace[j].case \in Controls /\ Semantic[trace[j].case] = key

\* A feature is new once in a campaign.
NovelOnce ==
    \A i, j \in DOMAIN trace : i < j => trace[i].new \cap trace[j].new = {}

\* A plateau stops a campaign only after Window observations in a row that
\* showed no new feature and no anomaly.
PlateauSound ==
    stopped => /\ Len(trace) >= Window
               /\ \A i \in (Len(trace) - Window + 1)..Len(trace) :
                    trace[i].new = {} /\ ~trace[i].anomaly

\* What a campaign came to know is never taken from a later one, whenever it is
\* killed, and is not new to that one.
KnowledgeCarriedOver ==
    /\ [][corpus \subseteq corpus']_corpus
    /\ [][corpus' = corpus => \A i \in DOMAIN trace' : trace'[i].new \cap corpus = {}]_vars
=============================================================================
