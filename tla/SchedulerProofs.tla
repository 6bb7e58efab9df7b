--------------------------- MODULE SchedulerProofs ----------------------------
(***************************************************************************)
(* For every pool, budget and window: where the scheduler's marker and the *)
(* shape of a control agree, no mutation runs before its control; no       *)
(* feature is counted as new twice; a plateau means what it says.          *)
(***************************************************************************)
EXTENDS Scheduler, ProofFacts, TLAPS

MarkedAreControls == Marked = Controls

HasControl(c) == \E d \in Controls : Semantic[d] = Semantic[c]

SemanticsExact ==
    \A k : k \in semantics <=>
        \E i \in DOMAIN trace : trace[i].case \in Marked /\ Semantic[trace[i].case] = k

\* The chosen case is a control, has none, or its control was executed.
ChosenControlled ==
    pc = "observe" =>
        /\ current \in Cases
        /\ (MarkedAreControls /\ current \notin Controls /\ HasControl(current))
            => Semantic[current] \in semantics

NewIsSeen == \A i \in DOMAIN trace : trace[i].new \subseteq seen

\* The streak counts the unproductive observations at the end of the trace.
StreakExact ==
    /\ streak <= Len(trace)
    /\ \A i \in (Len(trace) - streak + 1)..Len(trace) :
            trace[i].new = {} /\ ~trace[i].anomaly
    /\ stopped => streak >= Window /\ pc # "observe"

IInv ==
    /\ TypeOK
    /\ SemanticsExact
    /\ ChosenControlled
    /\ MarkedAreControls => MutationAfterControl
    /\ NewIsSeen
    /\ NovelOnce
    /\ StreakExact

\* Appending an entry leaves the earlier ones where they are.
LEMMA AppendEntry ==
    ASSUME NEW s \in Seq(Entries), NEW e \in Entries
    PROVE  /\ Append(s, e) \in Seq(Entries)
           /\ Len(Append(s, e)) = Len(s) + 1
           /\ DOMAIN Append(s, e) = 1..(Len(s) + 1)
           /\ DOMAIN s = 1..Len(s)
           /\ Len(s) \in Nat
           /\ Append(s, e)[Len(s) + 1] = e
           /\ \A i \in 1..Len(s) : Append(s, e)[i] = s[i]
  OBVIOUS

LEMMA InitInvariant == ASSUME Init PROVE IInv
<1>1. TypeOK
  <2>1. <<>> \in Seq(Entries) /\ 0 \in 0..MaxStarts
    BY SchedulerAssumption
  <2>2. starts = 0 /\ trace = <<>> /\ pc = "down" /\ current = NoCase
    BY DEF Init
  <2>3. seen = {} /\ semantics = {} /\ controlled = {} /\ corpus = {} /\ streak = 0 /\ stopped = FALSE
    BY DEF Init
  <2> QED
    BY <2>1, <2>2, <2>3 DEF TypeOK
<1>2. Len(trace) = 0 /\ DOMAIN trace = {}
  BY DEF Init
<1>3. StreakExact
  BY <1>2 DEF StreakExact, Init
<1> QED
  BY <1>1, <1>2, <1>3 DEF IInv, Init, SemanticsExact, ChosenControlled, MutationAfterControl,
     NewIsSeen, NovelOnce

\* What is eligible has an executed control if the pool has one.
LEMMA EligibleControlled ==
    ASSUME IInv, NEW c \in Eligible, Pending # {}
    PROVE  /\ c \in Cases
           /\ (MarkedAreControls /\ c \notin Controls /\ HasControl(c))
                => Semantic[c] \in semantics
<1>1. c \in Cases
  BY DEF Eligible, Pending
<1>2. ASSUME MarkedAreControls, c \notin Controls, HasControl(c), Semantic[c] \notin semantics PROVE FALSE
  <2>1. PICK d \in Controls : Semantic[d] = Semantic[c]
    BY <1>2 DEF HasControl
  <2>2. d \in Cases
    BY SchedulerAssumption, <2>1
  <2>3. d \in Pending
    <3>1. \A i \in DOMAIN trace : trace[i].case # d
      BY <1>2, <2>1 DEF IInv, SemanticsExact, MarkedAreControls
    <3> QED
      BY <2>2, <3>1 DEF Pending, Executed
  <2> QED
    BY <1>2, <2>3 DEF Eligible, MarkedAreControls
<1> QED
  BY <1>1, <1>2

LEMMA StepInvariant == ASSUME IInv, [Next]_vars PROVE IInv'
<1> USE SchedulerAssumption
<1>1. ASSUME Start PROVE IInv'
  <2>1. trace' = <<>> /\ Len(trace') = 0 /\ DOMAIN trace' = {}
    BY <1>1 DEF Start
  <2>2. TypeOK'
    <3>1. <<>> \in Seq(Entries)
      OBVIOUS
    <3>2. starts' \in 0..MaxStarts
      BY <1>1 DEF Start, IInv, TypeOK
    <3>3. /\ pc' = "choose" /\ current' = NoCase /\ semantics' = {} /\ controlled' = {}
          /\ streak' = 0 /\ stopped' = FALSE /\ seen' = corpus /\ corpus' = corpus
      BY <1>1 DEF Start
    <3>4. corpus \subseteq Features
      BY DEF IInv, TypeOK
    <3> QED
      BY <2>1, <3>1, <3>2, <3>3, <3>4 DEF TypeOK
  <2>3. StreakExact'
    BY <1>1, <2>1 DEF StreakExact, Start
  <2> QED
    BY <1>1, <2>1, <2>2, <2>3 DEF IInv, Start, SemanticsExact, ChosenControlled,
       MutationAfterControl, NewIsSeen, NovelOnce
<1>2. ASSUME Choose PROVE IInv'
  <2>1. Pending # {}
    BY <1>2 DEF Choose, More
  <2>2. current' \in Cases
        /\ ((MarkedAreControls /\ current' \notin Controls /\ HasControl(current'))
             => Semantic[current'] \in semantics)
    BY <1>2, <2>1, EligibleControlled DEF Choose
  <2>3. TypeOK'
    BY <1>2, <2>2 DEF Choose, TypeOK, IInv
  <2>4. ChosenControlled'
    BY <1>2, <2>2 DEF ChosenControlled, Choose, HasControl
  <2>5. StreakExact'
    BY <1>2 DEF StreakExact, Choose, More, IInv
  <2> QED
    BY <1>2, <2>3, <2>4, <2>5 DEF IInv, Choose, SemanticsExact, MutationAfterControl,
       NewIsSeen, NovelOnce
<1>3. ASSUME NEW shown \in Showings, Observe(shown) PROVE IInv'
  <2> DEFINE new == Combined(shown) \ seen
             entry == [case |-> current, new |-> new,
                       anomaly |-> shown.complete /\ shown.anomaly]
  <2>1. current \in Cases /\ trace \in Seq(Entries) /\ seen \subseteq Features /\ streak \in Nat
    BY <1>3 DEF IInv, TypeOK, ChosenControlled, Observe
  <2>2. Combined(shown) \subseteq Features
    BY DEF Combined, Showings
  <2>3. entry \in Entries
    BY <2>1, <2>2 DEF Entries, Showings
  <2>4. trace' = Append(trace, entry)
    BY <1>3 DEF Observe
  <2> HIDE DEF entry
  <2>5. /\ trace' \in Seq(Entries)
        /\ Len(trace') = Len(trace) + 1
        /\ DOMAIN trace' = 1..(Len(trace) + 1)
        /\ DOMAIN trace = 1..Len(trace)
        /\ Len(trace) \in Nat
        /\ trace'[Len(trace) + 1] = entry
        /\ \A i \in 1..Len(trace) : trace'[i] = trace[i]
    BY <2>1, <2>3, <2>4, AppendEntry
  <2>6. entry.case = current /\ entry.new = new
        /\ entry.anomaly = (shown.complete /\ shown.anomaly)
    BY DEF entry
  <2>7. TypeOK'
    <3>1. streak' \in Nat
      BY <1>3, <2>1 DEF Observe
    <3> QED
      BY <1>3, <2>1, <2>2, <2>5, <3>1 DEF TypeOK, IInv, Observe
  <2>8. SemanticsExact'
    <3>1. semantics' = semantics \cup (IF current \in Marked THEN {Semantic[current]} ELSE {})
      BY <1>3 DEF Observe
    <3> SUFFICES ASSUME NEW k
                 PROVE  k \in semantics' <=>
                          \E i \in DOMAIN trace' :
                            trace'[i].case \in Marked /\ Semantic[trace'[i].case] = k
      BY DEF SemanticsExact
    <3>2. ASSUME k \in semantics'
          PROVE  \E i \in DOMAIN trace' :
                    trace'[i].case \in Marked /\ Semantic[trace'[i].case] = k
      <4>1. CASE k \in semantics
        <5>1. PICK i \in DOMAIN trace : trace[i].case \in Marked /\ Semantic[trace[i].case] = k
          BY <4>1 DEF IInv, SemanticsExact
        <5> QED
          BY <2>5, <5>1
      <4>2. CASE k \notin semantics
        <5>1. current \in Marked /\ k = Semantic[current]
          BY <3>1, <3>2, <4>2
        <5> QED
          BY <2>5, <2>6, <5>1
      <4> QED
        BY <4>1, <4>2
    <3>3. ASSUME NEW i \in DOMAIN trace', trace'[i].case \in Marked,
                 Semantic[trace'[i].case] = k
          PROVE  k \in semantics'
      <4>1. CASE i = Len(trace) + 1
        BY <2>5, <2>6, <3>1, <3>3, <4>1
      <4>2. CASE i # Len(trace) + 1
        <5>1. i \in DOMAIN trace /\ trace'[i] = trace[i]
          BY <2>5, <4>2
        <5> QED
          BY <3>1, <3>3, <5>1 DEF IInv, SemanticsExact
      <4> QED
        BY <4>1, <4>2
    <3> QED
      BY <3>2, <3>3
  <2>9. (MarkedAreControls => MutationAfterControl)'
    <3> SUFFICES ASSUME MarkedAreControls, NEW i \in DOMAIN trace', trace'[i].case \notin Controls,
                        \E c \in Controls : Semantic[c] = Semantic[trace'[i].case]
                 PROVE  \E j \in 1..(i - 1) : /\ trace'[j].case \in Controls
                                              /\ Semantic[trace'[j].case] = Semantic[trace'[i].case]
      BY DEF MutationAfterControl
    <3>1. CASE i = Len(trace) + 1
      <4>1. Semantic[current] \in semantics
        BY <1>3, <2>5, <2>6, <3>1 DEF IInv, ChosenControlled, HasControl, Observe
      <4>2. PICK j \in DOMAIN trace : /\ trace[j].case \in Marked
                                      /\ Semantic[trace[j].case] = Semantic[current]
        BY <4>1 DEF IInv, SemanticsExact
      <4> QED
        BY <2>5, <2>6, <3>1, <4>2 DEF MarkedAreControls
    <3>2. CASE i # Len(trace) + 1
      <4>1. i \in DOMAIN trace /\ trace'[i] = trace[i]
        BY <2>5, <3>2
      <4>2. PICK j \in 1..(i - 1) : /\ trace[j].case \in Controls
                                    /\ Semantic[trace[j].case] = Semantic[trace[i].case]
        BY <4>1 DEF IInv, MutationAfterControl
      <4>3. j \in 1..Len(trace)
        BY <2>5, <4>1, <4>2
      <4> QED
        BY <2>5, <4>1, <4>2, <4>3
    <3> QED
      BY <3>1, <3>2
  <2>10. NewIsSeen'
    <3>1. seen' = seen \cup Combined(shown)
      BY <1>3 DEF Observe
    <3>2. ASSUME NEW i \in DOMAIN trace' PROVE trace'[i].new \subseteq seen'
      <4>1. CASE i = Len(trace) + 1
        BY <2>5, <2>6, <3>1, <4>1
      <4>2. CASE i # Len(trace) + 1
        BY <2>5, <3>1, <3>2, <4>2 DEF IInv, NewIsSeen
      <4> QED
        BY <4>1, <4>2
    <3> QED
      BY <3>2 DEF NewIsSeen
  <2>11. NovelOnce'
    <3> SUFFICES ASSUME NEW i \in DOMAIN trace', NEW j \in DOMAIN trace', i < j
                 PROVE  trace'[i].new \cap trace'[j].new = {}
      BY DEF NovelOnce
    <3>1. i \in DOMAIN trace /\ trace'[i] = trace[i]
      BY <2>5
    <3>2. CASE j = Len(trace) + 1
      BY <2>5, <2>6, <3>1, <3>2 DEF IInv, NewIsSeen
    <3>3. CASE j # Len(trace) + 1
      BY <2>5, <3>1, <3>3 DEF IInv, NovelOnce
    <3> QED
      BY <3>2, <3>3
  <2>12. StreakExact'
    <3>1. ~stopped'
      BY <1>3 DEF IInv, StreakExact, Observe
    <3>2. CASE new # {} \/ (shown.complete /\ shown.anomaly)
      <4>1. streak' = 0
        BY <1>3, <3>2 DEF Observe
      <4> QED
        BY <2>5, <3>1, <4>1 DEF StreakExact
    <3>3. CASE ~(new # {} \/ (shown.complete /\ shown.anomaly))
      <4>1. streak' = streak + 1
        BY <1>3, <3>3 DEF Observe
      <4>2. ASSUME NEW i \in (Len(trace') - streak' + 1)..Len(trace')
            PROVE  trace'[i].new = {} /\ ~trace'[i].anomaly
        <5>1. CASE i = Len(trace) + 1
          BY <2>5, <2>6, <3>3, <5>1
        <5>2. CASE i # Len(trace) + 1
          <6>1. i \in (Len(trace) - streak + 1)..Len(trace)
            BY <2>1, <2>5, <4>1, <4>2, <5>2
          <6>2. i \in 1..Len(trace)
            BY <2>1, <2>5, <6>1 DEF IInv, StreakExact
          <6> QED
            BY <2>5, <6>1, <6>2 DEF IInv, StreakExact
        <5> QED
          BY <5>1, <5>2
      <4>3. streak' <= Len(trace')
        BY <2>1, <2>5, <4>1 DEF IInv, StreakExact
      <4> QED
        BY <3>1, <4>2, <4>3 DEF StreakExact
    <3> QED
      BY <3>2, <3>3
  <2>13. ChosenControlled'
    BY <1>3 DEF ChosenControlled, Observe
  <2> QED
    BY <2>7, <2>8, <2>9, <2>10, <2>11, <2>12, <2>13 DEF IInv
<1>4. ASSUME Plateau PROVE IInv'
  <2>1. TypeOK'
    BY <1>4 DEF Plateau, TypeOK, IInv
  <2>2. StreakExact'
    BY <1>4 DEF StreakExact, Plateau, IInv
  <2> QED
    BY <1>4, <2>1, <2>2 DEF IInv, Plateau, SemanticsExact, ChosenControlled, MutationAfterControl,
       NewIsSeen, NovelOnce
<1>5. ASSUME Kill \/ Finish \/ Save PROVE IInv'
  <2>1. /\ pc' \in {"down", "save", "done"}
        /\ corpus' \subseteq Features
        /\ UNCHANGED <<starts, trace, current, seen, semantics, controlled, streak, stopped>>
    BY <1>5 DEF Kill, Finish, Save, IInv, TypeOK
  <2>2. TypeOK'
    BY <2>1 DEF TypeOK, IInv
  <2>3. StreakExact'
    BY <2>1 DEF StreakExact, IInv
  <2> QED
    BY <2>1, <2>2, <2>3 DEF IInv, SemanticsExact, ChosenControlled, MutationAfterControl,
       NewIsSeen, NovelOnce
<1>6. CASE UNCHANGED vars
  BY <1>6 DEF vars, IInv, TypeOK, SemanticsExact, ChosenControlled, MutationAfterControl,
     NewIsSeen, NovelOnce, StreakExact
<1> QED
  BY <1>1, <1>2, <1>3, <1>4, <1>5, <1>6 DEF Next

\* The strengthened invariant of every campaign.
THEOREM Invariant == Spec => []IInv
<1>1. Init => IInv
  BY InitInvariant
<1>2. IInv /\ [Next]_vars => IInv'
  BY StepInvariant
<1> QED
  BY <1>1, <1>2, PTL DEF Spec

\* MutationAfterControl of choose, for every pool whose marks agree with the
\* shapes: no mutation is observed before a control of its semantics.
THEOREM ControlledMutations ==
    ASSUME MarkedAreControls PROVE Spec => []MutationAfterControl
<1>1. IInv => MutationAfterControl
  BY MarkedAreControls DEF IInv
<1> QED
  BY <1>1, Invariant, PTL

\* Novelty is credited once, whatever executions show: NovelOnce.
THEOREM NoveltyOnce == Spec => []NovelOnce
<1>1. IInv => NovelOnce
  BY DEF IInv
<1> QED
  BY <1>1, Invariant, PTL

\* A campaign that stopped at a plateau saw Window unproductive observations.
THEOREM PlateauMeansIt == Spec => []PlateauSound
<1>1. IInv => PlateauSound
  <2> SUFFICES ASSUME IInv, stopped PROVE PlateauSound
    BY DEF PlateauSound
  <2>1. streak >= Window /\ streak <= Len(trace) /\ streak \in Nat /\ Window \in Nat
    BY SchedulerAssumption DEF IInv, StreakExact, TypeOK
  <2>2. Len(trace) \in Nat
    BY DEF IInv, TypeOK
  <2>3. ASSUME NEW i \in (Len(trace) - Window + 1)..Len(trace)
        PROVE  trace[i].new = {} /\ ~trace[i].anomaly
    BY <2>1, <2>2, <2>3 DEF IInv, StreakExact
  <2> QED
    BY <2>1, <2>2, <2>3 DEF PlateauSound
<1> QED
  BY <1>1, Invariant, PTL

\* The corpus, the pool and the counters keep their types.
THEOREM TypeCorrect == Spec => []TypeOK
<1>1. IInv => TypeOK
  BY DEF IInv
<1> QED
  BY <1>1, Invariant, PTL

-----------------------------------------------------------------------------
(* The corpus.                                                             *)

\* A campaign has seen the corpus, and what it found was not in it until it
\* was saved.
CorpusKnown ==
    /\ pc \notin {"down", "done"} => corpus \subseteq seen
    /\ pc # "done" => \A i \in DOMAIN trace : trace[i].new \cap corpus = {}

LEMMA CorpusStep ==
    ASSUME IInv, CorpusKnown, [Next]_vars
    PROVE  /\ CorpusKnown'
           /\ corpus \subseteq corpus'
           /\ \/ UNCHANGED vars
              \/ corpus' = corpus => \A i \in DOMAIN trace' : trace'[i].new \cap corpus = {}
<1> DEFINE Kept == CorpusKnown' /\ corpus' = corpus /\ pc' # "done"
<1>1. ASSUME Start PROVE Kept
  BY <1>1 DEF Start, CorpusKnown
<1>2. ASSUME NEW shown \in Showings, Observe(shown) PROVE Kept
  <2> DEFINE entry == [case |-> current, new |-> Combined(shown) \ seen,
                       anomaly |-> shown.complete /\ shown.anomaly]
  <2>1. /\ trace' = Append(trace, entry) /\ entry.new \cap seen = {}
        /\ seen' = seen \cup Combined(shown) /\ corpus' = corpus /\ pc' = "plateau"
        /\ corpus \subseteq seen /\ \A i \in DOMAIN trace : trace[i].new \cap corpus = {}
    BY <1>2 DEF Observe, CorpusKnown
  <2>2. trace \in Seq(Entries)
    BY DEF IInv, TypeOK
  <2> HIDE DEF entry
  <2>3. \A i \in DOMAIN trace' : trace'[i] = entry \/ (i \in DOMAIN trace /\ trace'[i] = trace[i])
    BY <2>1, <2>2
  <2>4. \A i \in DOMAIN trace' : trace'[i].new \cap corpus = {}
    BY <2>1, <2>3
  <2> QED
    BY <2>1, <2>4 DEF CorpusKnown
<1>3. CASE Kept
  BY <1>3 DEF CorpusKnown
<1>4. ASSUME Kill \/ Choose \/ Plateau \/ Finish PROVE Kept
  BY <1>4 DEF Kill, Choose, Plateau, Finish, CorpusKnown
<1>5. CASE Save
  BY <1>5 DEF Save, CorpusKnown
<1>6. CASE UNCHANGED vars
  BY <1>6 DEF vars, CorpusKnown
<1> HIDE DEF Kept
<1> QED
  BY <1>1, <1>2, <1>3, <1>4, <1>5, <1>6 DEF Next

\* The corpus file only grows, whenever a campaign is killed, and a feature in
\* it is not credited to a later campaign as new (load_corpus, save_corpus).
THEOREM KnowledgeKept == Spec => KnowledgeCarriedOver
<1> DEFINE Inv == IInv /\ CorpusKnown
           Fresh == corpus' = corpus => \A i \in DOMAIN trace' : trace'[i].new \cap corpus = {}
<1>1. Init => Inv
  BY InitInvariant DEF Init, CorpusKnown
<1>2. Inv /\ [Next]_vars => Inv' /\ [corpus \subseteq corpus']_corpus /\ [Fresh]_vars
  <2> SUFFICES ASSUME IInv, CorpusKnown, [Next]_vars
               PROVE  Inv' /\ corpus \subseteq corpus' /\ (Fresh \/ UNCHANGED vars)
    OBVIOUS
  <2>1. IInv'
    BY StepInvariant
  <2> QED
    BY <2>1, CorpusStep
<1> HIDE DEF Inv, Fresh
<1>3. Spec => [][corpus \subseteq corpus']_corpus /\ [][Fresh]_vars
  BY <1>1, <1>2, PTL DEF Spec
<1> QED
  BY <1>3 DEF KnowledgeCarriedOver, Fresh
=============================================================================
