---------------------------- MODULE ReductionProofs ---------------------------
(***************************************************************************)
(* For every scenario, budget and executor: the result of a reduction is   *)
(* an executed plan that showed the artifact, a plan only gets smaller,    *)
(* and no plan that is built is refused by the parser.                     *)
(***************************************************************************)
EXTENDS Reduction, FiniteSetTheorems, TLAPS

\* The result is the plan of the latest execution that showed the artifact.
LatestHit ==
    preserved => \E i \in DOMAIN tests :
        /\ tests[i] = [plan |-> current, hit |-> TRUE]
        /\ \A j \in DOMAIN tests : j > i => ~tests[j].hit

\* The second loop has not touched what it has not come to.
Untouched(a) ==
    \/ RoleOf[a] > role
    \/ RoleOf[a] = role /\ (pc = "offset" \/ a \in left)

ScanAgrees ==
    pc \in {"offset", "delay"} =>
        /\ scan.kept = current.kept
        /\ \A a \in current.kept : Untouched(a) => current.at[a] = scan.at[a]

\* What it has come to in its role lies before what is left of it.
Sorted ==
    pc = "delay" =>
        /\ left \subseteq {a \in current.kept : RoleOf[a] = role}
        /\ \A b \in left : previous <= scan.at[b]
        /\ \A a \in current.kept : RoleOf[a] = role /\ a \notin left =>
                /\ current.at[a] <= previous
                /\ \A b \in left : a < b

\* Until the first execution nothing is known; the loops run only after a hit.
Started ==
    /\ pc = "first" => trials = 0
    /\ pc \in {"search", "offset", "delay"} => preserved

IInv ==
    /\ TypeOK
    /\ Started
    /\ Valid(current) /\ Valid(scan)
    /\ pc # "raised"
    /\ LatestHit
    /\ ScanAgrees
    /\ Sorted

LEMMA RemainingIsNat == ASSUME TypeOK PROVE Remaining \in Nat
<1>1. IsFiniteSet(Actions)
  BY FS_Interval, ReductionAssumption DEF Actions
<1>2. current.kept \subseteq Actions
  BY DEF TypeOK, Plans
<1> QED
  BY <1>1, <1>2, FS_Subset, FS_CardinalityType DEF Remaining

LEMMA ChunkSizeIsNat == ASSUME TypeOK PROVE ChunkSize \in Nat
<1>1. Remaining \in Nat /\ granularity \in Nat \ {0}
  BY RemainingIsNat DEF TypeOK
<1>2. Ceiling(Remaining, granularity) \in Int
  BY <1>1 DEF Ceiling
<1> QED
  BY <1>2 DEF ChunkSize

\* Executing a candidate and accepting it if it showed the artifact.
LEMMA ExecuteStep ==
    ASSUME TypeOK, LatestHit, preserved, trials < MaxTrials,
           NEW candidate \in Plans, NEW hit \in BOOLEAN,
           Execute(candidate, hit), Accept(candidate, hit), preserved' = preserved
    PROVE  /\ current' \in Plans
           /\ trials' \in 0..MaxTrials
           /\ tests' \in Seq([plan : Plans, hit : BOOLEAN])
           /\ LatestHit'
<1> DEFINE entry == [plan |-> candidate, hit |-> hit]
<1>1. entry \in [plan : Plans, hit : BOOLEAN]
  OBVIOUS
<1>2. tests' = Append(tests, entry) /\ tests \in Seq([plan : Plans, hit : BOOLEAN])
  BY DEF Execute, TypeOK
<1>e. entry.hit = hit
  OBVIOUS
<1>3. /\ tests' \in Seq([plan : Plans, hit : BOOLEAN])
      /\ Len(tests) \in Nat
      /\ DOMAIN tests = 1..Len(tests)
      /\ DOMAIN tests' = 1..(Len(tests) + 1)
      /\ tests'[Len(tests) + 1] = entry
      /\ \A i \in 1..Len(tests) : tests'[i] = tests[i]
  <2> HIDE DEF entry
  <2> QED
    BY <1>1, <1>2
<1>4. current' \in Plans
  BY DEF Accept, TypeOK
<1>5. trials' \in 0..MaxTrials
  BY ReductionAssumption DEF Execute, TypeOK
<1>6. LatestHit'
  <2>1. CASE hit
    <3>1. current' = candidate
      BY <2>1 DEF Accept
    <3>2. tests'[Len(tests) + 1] = [plan |-> current', hit |-> TRUE]
      BY <1>3, <2>1, <3>1
    <3>3. Len(tests) + 1 \in DOMAIN tests'
      BY <1>3
    <3>4. \A j \in DOMAIN tests' : ~(j > Len(tests) + 1)
      BY <1>3
    <3> QED
      BY <3>2, <3>3, <3>4 DEF LatestHit
  <2>2. CASE ~hit
    <3>1. PICK i \in DOMAIN tests :
            /\ tests[i] = [plan |-> current, hit |-> TRUE]
            /\ \A j \in DOMAIN tests : j > i => ~tests[j].hit
      BY DEF LatestHit
    <3>2. current' = current
      BY <2>2 DEF Accept
    <3>3. i \in DOMAIN tests' /\ tests'[i] = [plan |-> current', hit |-> TRUE]
      <4>1. i \in 1..Len(tests)
        BY <1>3
      <4>2. i \in DOMAIN tests' /\ tests'[i] = tests[i]
        <5> HIDE DEF entry
        <5> QED
          BY <1>3, <4>1
      <4> QED
        BY <3>1, <3>2, <4>2
    <3>4. ASSUME NEW j \in DOMAIN tests', j > i PROVE ~tests'[j].hit
      <4>1. CASE j = Len(tests) + 1
        BY <1>3, <1>e, <2>2, <4>1
      <4>2. CASE j # Len(tests) + 1
        BY <1>3, <3>1, <3>4, <4>2
      <4> QED
        BY <4>1, <4>2
    <3>5. \A j \in DOMAIN tests' : j > i => ~tests'[j].hit
      BY <3>4
    <3> QED
      BY <3>3, <3>5 DEF LatestHit
  <2> QED
    BY <2>1, <2>2
<1> QED
  BY <1>3, <1>4, <1>5, <1>6

\* Moving one wait down to the wait before it keeps the order of a role.
LEMMA LoweredIsValid ==
    ASSUME IInv, pc = "delay", NEW a \in left, \A b \in left : a <= b, previous < scan.at[a]
    PROVE  /\ [current EXCEPT !.at[a] = previous] \in Plans
           /\ Valid([current EXCEPT !.at[a] = previous])
           /\ current.at[a] = scan.at[a]
<1> DEFINE c == [current EXCEPT !.at[a] = previous]
<1>1. a \in Actions /\ a \in current.kept /\ RoleOf[a] = role /\ previous \in Nat
  BY DEF IInv, Sorted, TypeOK
<1>2. current \in Plans /\ scan \in Plans
  BY DEF IInv, TypeOK
<1>3. c.kept = current.kept /\ c.offset = current.offset
      /\ c.at = [current.at EXCEPT ![a] = previous]
  BY <1>2 DEF Plans
<1>4. c \in Plans
  BY <1>1, <1>2 DEF Plans
<1>5. \A x \in Actions : c.at[x] = IF x = a THEN previous ELSE current.at[x]
  BY <1>2, <1>3 DEF Plans
<1>6. current.kept \subseteq Actions /\ \A x \in Actions : current.at[x] \in Nat /\ scan.at[x] \in Nat
  BY <1>2 DEF Plans
<1>7. ASSUME NEW x \in current.kept, NEW y \in current.kept, RoleOf[x] = RoleOf[y], x < y
      PROVE  c.at[x] <= c.at[y]
  <2>1. x \in Actions /\ y \in Actions /\ x \in Nat /\ y \in Nat /\ a \in Nat
    BY <1>1, <1>6 DEF Actions
  <2>2. CASE x # a /\ y # a
    BY <1>5, <1>7, <2>1, <2>2 DEF IInv, Valid
  <2>3. CASE y = a
    <3>1. x \notin left
      BY <1>7, <2>1, <2>3
    <3>2. current.at[x] <= previous
      BY <1>1, <1>7, <2>3, <3>1 DEF IInv, Sorted
    <3> QED
      BY <1>5, <1>7, <2>1, <2>3, <3>2
  <2>4. CASE x = a
    <3>1. current.at[a] <= current.at[y]
      BY <1>7, <2>4 DEF IInv, Valid
    <3>2. current.at[a] = scan.at[a]
      BY <1>1 DEF IInv, ScanAgrees, Untouched
    <3> QED
      BY <1>1, <1>5, <1>6, <1>7, <2>1, <2>4, <3>1, <3>2
  <2> QED
    BY <2>2, <2>3, <2>4
<1>8. Valid(c)
  BY <1>3, <1>7 DEF Valid
<1>9. current.at[a] = scan.at[a]
  BY <1>1 DEF IInv, ScanAgrees, Untouched
<1> QED
  BY <1>4, <1>8, <1>9

LEMMA InitInvariant == ASSUME Init PROVE IInv
<1> USE ReductionAssumption
<1>1. Original \in Plans /\ Valid(Original)
  BY DEF Original, Plans
<1>2. <<>> \in Seq([plan : Plans, hit : BOOLEAN]) /\ 0 \in 0..MaxTrials
  OBVIOUS
<1>3. TypeOK
  <2>1. pc \in {"first", "search", "offset", "delay", "raised", "done"} /\ current \in Plans
    BY <1>1 DEF Init
  <2>2. granularity \in Nat \ {0} /\ start \in Nat /\ role \in Nat /\ previous \in Nat
    BY DEF Init
  <2>3. scan \in Plans /\ left \subseteq Actions /\ preserved \in BOOLEAN
    BY <1>1 DEF Init
  <2>4. trials \in 0..MaxTrials /\ tests \in Seq([plan : Plans, hit : BOOLEAN])
    BY <1>2 DEF Init
  <2> QED
    BY <2>1, <2>2, <2>3, <2>4 DEF TypeOK
<1> QED
  BY <1>1, <1>3 DEF Init, IInv, Started, LatestHit, ScanAgrees, Sorted

\* The first execution.
LEMMA FirstInvariant == ASSUME IInv, First PROVE IInv'
<1>1. PICK hit \in BOOLEAN : /\ Execute(current, hit) /\ preserved' = hit
                             /\ pc' = (IF hit THEN "search" ELSE "done")
  BY DEF First
<1>2. UNCHANGED <<current, searchVars, timingVars>>
  BY DEF First
<1> DEFINE entry == [plan |-> current, hit |-> hit]
<1>3. entry \in [plan : Plans, hit : BOOLEAN]
  BY DEF IInv, TypeOK
<1>4. tests' = Append(tests, entry) /\ tests \in Seq([plan : Plans, hit : BOOLEAN])
  BY <1>1 DEF Execute, IInv, TypeOK
<1>5. /\ tests' \in Seq([plan : Plans, hit : BOOLEAN])
      /\ DOMAIN tests' = 1..(Len(tests) + 1) /\ Len(tests) \in Nat
      /\ tests'[Len(tests) + 1] = entry
  <2> HIDE DEF entry
  <2> QED
    BY <1>3, <1>4
<1>6. trials' \in 0..MaxTrials
  BY <1>1, ReductionAssumption DEF First, Execute, IInv, Started
<1>7. TypeOK'
  BY <1>1, <1>2, <1>5, <1>6 DEF IInv, TypeOK, searchVars, timingVars
<1>8. LatestHit'
  <2>1. CASE hit
    <3>1. entry = [plan |-> current', hit |-> TRUE]
      BY <1>2, <2>1
    <3>2. Len(tests) + 1 \in DOMAIN tests' /\ \A j \in DOMAIN tests' : ~(j > Len(tests) + 1)
      BY <1>5
    <3>3. tests'[Len(tests) + 1] = [plan |-> current', hit |-> TRUE]
      BY <1>5, <3>1
    <3> QED
      BY <3>2, <3>3 DEF LatestHit
  <2>2. CASE ~hit
    BY <1>1, <2>2 DEF LatestHit
  <2> QED
    BY <2>1, <2>2
<1>9. Started' /\ pc' \notin {"raised", "offset", "delay"}
  BY <1>1 DEF Started
<1> QED
  BY <1>2, <1>7, <1>8, <1>9 DEF IInv, ScanAgrees, Sorted, Valid, timingVars

\* The first loop: fewer actions, in the same order.
LEMMA ChunkInvariant == ASSUME IInv, TryChunk PROVE IInv'
<1> DEFINE candidate == [current EXCEPT !.kept = @ \ Chunk]
<1>1. /\ pc = "search" /\ trials < MaxTrials
      /\ UNCHANGED <<timingVars, preserved>>
      /\ preserved
  BY DEF TryChunk, IInv, Started
<1>2. candidate \in Plans /\ current \in Plans
  BY DEF IInv, TypeOK, Plans
<1>3. candidate.kept \subseteq current.kept /\ candidate.at = current.at
  BY <1>2 DEF Plans
<1>4. Valid(candidate)
  BY <1>3 DEF IInv, Valid
<1>5. PICK hit \in BOOLEAN :
        /\ Execute(candidate, hit)
        /\ Accept(candidate, hit)
        /\ start' = IF hit THEN 0 ELSE start + ChunkSize
        /\ granularity' = IF hit /\ granularity > 2 THEN granularity - 1 ELSE granularity
        /\ pc' = pc
  BY <1>4 DEF TryChunk
<1>6. /\ current' \in Plans
      /\ trials' \in 0..MaxTrials
      /\ tests' \in Seq([plan : Plans, hit : BOOLEAN])
      /\ LatestHit'
  <2> HIDE DEF candidate
  <2> QED
    BY <1>1, <1>2, <1>5, ExecuteStep DEF IInv
<1>7. start' \in Nat /\ granularity' \in Nat \ {0}
  BY <1>5, ChunkSizeIsNat DEF IInv, TypeOK
<1>8. TypeOK'
  BY <1>1, <1>5, <1>6, <1>7 DEF IInv, TypeOK, timingVars
<1>9. Valid(current')
  <2> HIDE DEF candidate
  <2> QED
    BY <1>4, <1>5 DEF Accept, IInv
<1>10. Valid(current)' /\ Valid(scan)'
  BY <1>1, <1>9 DEF IInv, Valid, timingVars
<1> QED
  BY <1>1, <1>5, <1>6, <1>8, <1>10 DEF IInv, Started, ScanAgrees, Sorted

LEMMA RefineInvariant == ASSUME IInv, Refine PROVE IInv'
<1>1. /\ pc = "search"
      /\ UNCHANGED <<pc, current, timingVars, trials, preserved, tests>>
  BY DEF Refine
<1>2. granularity' \in Nat \ {0} /\ start' = 0
  BY RemainingIsNat DEF Refine, IInv, TypeOK
<1>3. TypeOK'
  BY <1>1, <1>2 DEF IInv, TypeOK, timingVars
<1> QED
  BY <1>1, <1>3 DEF IInv, Started, LatestHit, ScanAgrees, Sorted, Valid, timingVars

\* The second loop starts on the plan the first one left.
LEMMA EndSearchInvariant == ASSUME IInv, EndSearch PROVE IInv'
<1>1. /\ pc = "search" /\ pc' = "offset" /\ scan' = current /\ role' = 1
      /\ UNCHANGED <<current, searchVars, left, previous, trials, preserved, tests>>
  BY DEF EndSearch
<1>2. TypeOK'
  BY <1>1 DEF IInv, TypeOK, searchVars
<1> QED
  BY <1>1, <1>2 DEF IInv, Started, LatestHit, ScanAgrees, Sorted, Valid

LEMMA OffsetInvariant == ASSUME IInv, TryOffset PROVE IInv'
<1> DEFINE candidate == [current EXCEPT !.offset[role] = 0]
<1>1. /\ pc = "offset" /\ role \in Roles /\ trials < MaxTrials /\ preserved
      /\ pc' = "delay"
      /\ left' = {a \in scan.kept : RoleOf[a] = role}
      /\ previous' = 0
      /\ UNCHANGED <<searchVars, scan, role, preserved>>
  BY DEF TryOffset, IInv, Started
<1>2. candidate \in Plans /\ current \in Plans /\ scan \in Plans
  BY <1>1 DEF IInv, TypeOK, Plans
<1>3. candidate.kept = current.kept /\ candidate.at = current.at
  BY <1>2 DEF Plans
<1>4. /\ current' \in Plans
      /\ trials' \in 0..MaxTrials
      /\ tests' \in Seq([plan : Plans, hit : BOOLEAN])
      /\ LatestHit'
      /\ current'.kept = current.kept /\ current'.at = current.at
  <2>1. CASE scan.offset[role] > 0
    <3>1. PICK hit \in BOOLEAN : Execute(candidate, hit) /\ Accept(candidate, hit)
      BY <2>1 DEF TryOffset, Base
    <3> HIDE DEF candidate
    <3> QED
      BY <1>1, <1>2, <1>3, <3>1, ExecuteStep DEF IInv, Accept
  <2>2. CASE ~(scan.offset[role] > 0)
    <3>1. UNCHANGED <<current, trials, tests>>
      BY <2>2 DEF TryOffset
    <3> QED
      BY <1>1, <3>1 DEF IInv, TypeOK, LatestHit
  <2> QED
    BY <2>1, <2>2
<1>5. TypeOK'
  BY <1>1, <1>2, <1>4 DEF IInv, TypeOK, searchVars, Plans
<1>6. Valid(current)' /\ Valid(scan)'
  BY <1>1, <1>4 DEF IInv, Valid
<1>7. scan.kept = current.kept
  BY <1>1 DEF IInv, ScanAgrees
<1>8. ScanAgrees'
  <2>1. ASSUME NEW a \in current.kept, Untouched(a)' PROVE current.at[a] = scan.at[a]
    BY <1>1, <2>1 DEF IInv, ScanAgrees, Untouched
  <2> QED
    BY <1>1, <1>4, <1>7, <2>1 DEF ScanAgrees
<1>9. Sorted'
  <2>1. \A b \in left' : scan.at[b] \in Nat
    BY <1>1, <1>2 DEF Plans
  <2> QED
    BY <1>1, <1>4, <1>7, <2>1 DEF Sorted
<1> QED
  BY <1>1, <1>4, <1>5, <1>6, <1>8, <1>9 DEF IInv, Started

LEMMA DelayInvariant == ASSUME IInv, NEW a \in Actions, TryDelay(a) PROVE IInv'
<1> DEFINE candidate == [current EXCEPT !.at[a] = previous]
<1>1. /\ pc = "delay" /\ trials < MaxTrials /\ preserved
      /\ a \in left /\ \A b \in left : a <= b
      /\ left' = left \ {a}
      /\ UNCHANGED <<searchVars, scan, role, preserved>>
  BY DEF TryDelay, IInv, Started
<1>2. /\ current \in Plans /\ scan \in Plans /\ previous \in Nat
      /\ scan.kept = current.kept
      /\ a \in current.kept /\ RoleOf[a] = role
      /\ left \subseteq {x \in current.kept : RoleOf[x] = role}
      /\ current.at[a] = scan.at[a]
  BY <1>1 DEF IInv, TypeOK, ScanAgrees, Sorted, Untouched
<1>3. current.kept \subseteq Actions /\ \A x \in Actions : x \in Int /\ scan.at[x] \in Nat /\ current.at[x] \in Nat
  <2>1. current.kept \subseteq Actions /\ scan.at \in [Actions -> Nat] /\ current.at \in [Actions -> Nat]
    BY <1>2 DEF Plans
  <2>2. \A x \in Actions : x \in Int
    BY ReductionAssumption DEF Actions
  <2> QED
    BY <2>1, <2>2
<1>4. previous < scan.at[a] => candidate \in Plans /\ Valid(candidate)
  BY <1>1, LoweredIsValid
\* Accepted: the wait is the one before it; otherwise the plan stays.
<1>5. /\ pc' = pc
      /\ current' \in Plans /\ Valid(current')
      /\ trials' \in 0..MaxTrials
      /\ tests' \in Seq([plan : Plans, hit : BOOLEAN])
      /\ LatestHit'
      /\ \/ current' = current /\ previous' = scan.at[a] /\ previous <= scan.at[a]
         \/ current' = candidate /\ previous' = previous
  <2>1. CASE scan.at[a] <= previous
    <3>1. previous' = scan.at[a] /\ UNCHANGED <<pc, current, trials, tests>>
      BY <2>1 DEF TryDelay
    <3>2. previous <= scan.at[a]
      BY <1>1 DEF IInv, Sorted
    <3> QED
      BY <1>1, <3>1, <3>2 DEF IInv, TypeOK, LatestHit
  <2>2. CASE previous < scan.at[a]
    <3>1. ~(scan.at[a] <= previous)
      BY <1>2, <1>3, <2>2
    <3>2. PICK hit \in BOOLEAN : /\ Execute(candidate, hit) /\ Accept(candidate, hit)
                                 /\ previous' = IF hit THEN previous ELSE scan.at[a]
                                 /\ pc' = pc
      BY <1>4, <2>2, <3>1 DEF TryDelay, Base, Lower
    <3>3. previous <= scan.at[a]
      BY <1>2, <1>3, <2>2
    <3> HIDE DEF candidate
    <3>4. /\ current' \in Plans
          /\ trials' \in 0..MaxTrials
          /\ tests' \in Seq([plan : Plans, hit : BOOLEAN])
          /\ LatestHit'
      BY <1>1, <1>4, <2>2, <3>2, ExecuteStep DEF IInv
    <3> QED
      BY <1>4, <2>2, <3>2, <3>3, <3>4 DEF IInv, Accept
  <2> QED
    BY <1>2, <1>3, <2>1, <2>2
<1>6. /\ current'.kept = current.kept
      /\ \A x \in Actions : x # a => current'.at[x] = current.at[x]
      /\ current'.at[a] <= previous' /\ previous' \in Nat /\ previous <= previous'
  <2>1. CASE current' = current /\ previous' = scan.at[a] /\ previous <= scan.at[a]
    BY <1>2, <1>3, <2>1
  <2>2. CASE current' = candidate /\ previous' = previous
    <3>1. candidate.kept = current.kept /\ candidate.at = [current.at EXCEPT ![a] = previous]
      BY <1>2 DEF Plans
    <3>2. \A x \in Actions : candidate.at[x] = IF x = a THEN previous ELSE current.at[x]
      BY <1>2, <3>1 DEF Plans
    <3> HIDE DEF candidate
    <3> QED
      BY <1>2, <2>2, <3>1, <3>2
  <2> QED
    BY <1>5, <2>1, <2>2
<1>7. TypeOK'
  BY <1>1, <1>2, <1>3, <1>5, <1>6 DEF IInv, TypeOK, searchVars
<1>8. Valid(current)' /\ Valid(scan)'
  BY <1>1, <1>5 DEF IInv, Valid
<1>9. ScanAgrees'
  <2>1. ASSUME NEW x \in current.kept, Untouched(x)' PROVE current'.at[x] = scan.at[x]
    <3>1. x # a
      BY <1>1, <1>2, <1>5, <2>1, ReductionAssumption DEF Untouched, Roles
    <3>2. Untouched(x)
      BY <1>1, <1>5, <2>1 DEF Untouched
    <3> QED
      BY <1>1, <1>3, <1>6, <3>1, <3>2 DEF IInv, ScanAgrees
  <2> QED
    BY <1>1, <1>2, <1>6, <2>1 DEF ScanAgrees
<1>10. Sorted'
  <2>1. left' \subseteq {x \in current.kept : RoleOf[x] = role}
    BY <1>1, <1>2
  <2>2. ASSUME NEW b \in left' PROVE previous' <= scan.at[b]
    <3>1. b \in left /\ b # a /\ a < b /\ b \in scan.kept /\ a \in scan.kept
      BY <1>1, <1>2, <1>3, <2>1, <2>2
    <3>2. scan.at[a] <= scan.at[b]
      BY <1>2, <3>1, <2>1, <2>2 DEF IInv, Valid
    <3>3. previous <= scan.at[b]
      BY <1>1, <3>1 DEF IInv, Sorted
    <3> QED
      BY <1>5, <3>2, <3>3
  <2>3. ASSUME NEW x \in current.kept, RoleOf[x] = role, x \notin left'
        PROVE  /\ current'.at[x] <= previous'
               /\ \A b \in left' : x < b
    <3>1. CASE x = a
      BY <1>1, <1>2, <1>3, <1>6, <2>1, <3>1
    <3>2. CASE x # a
      <4>1. x \notin left
        BY <1>1, <2>3, <3>2
      <4>2. current.at[x] <= previous /\ \A b \in left : x < b
        BY <1>1, <2>3, <4>1 DEF IInv, Sorted
      <4>3. current'.at[x] = current.at[x] /\ current.at[x] \in Nat
        BY <1>3, <1>6, <3>2
      <4> QED
        BY <1>1, <1>2, <1>6, <4>2, <4>3
    <3> QED
      BY <3>1, <3>2
  <2> QED
    BY <1>1, <1>6, <2>1, <2>2, <2>3 DEF Sorted
<1> QED
  BY <1>1, <1>5, <1>7, <1>8, <1>9, <1>10 DEF IInv, Started

LEMMA NextRoleInvariant == ASSUME IInv, NextRole PROVE IInv'
<1>1. /\ pc = "delay" /\ pc' = "offset" /\ role' = role + 1
      /\ UNCHANGED <<current, searchVars, scan, left, previous, trials, preserved, tests>>
  BY DEF NextRole
<1>2. TypeOK'
  BY <1>1 DEF IInv, TypeOK, searchVars
<1>3. ScanAgrees'
  <2>1. ASSUME NEW a \in current.kept, Untouched(a)' PROVE Untouched(a)
    <3>1. RoleOf[a] \in Nat /\ role \in Nat
      BY ReductionAssumption DEF Roles, IInv, TypeOK, Plans
    <3>2. RoleOf[a] > role + 1 \/ RoleOf[a] = role + 1
      BY <1>1, <2>1 DEF Untouched
    <3> QED
      BY <3>1, <3>2 DEF Untouched
  <2> QED
    BY <1>1, <2>1 DEF IInv, ScanAgrees
<1> QED
  BY <1>1, <1>2, <1>3 DEF IInv, Started, LatestHit, Sorted, Valid

LEMMA FinishInvariant == ASSUME IInv, Finish PROVE IInv'
<1>1. /\ pc' = "done"
      /\ UNCHANGED <<current, searchVars, timingVars, trials, preserved, tests>>
  BY DEF Finish
<1>2. TypeOK'
  BY <1>1 DEF IInv, TypeOK, searchVars, timingVars
<1> QED
  BY <1>1, <1>2 DEF IInv, Started, LatestHit, ScanAgrees, Sorted, Valid, timingVars

LEMMA StutterInvariant == ASSUME IInv, UNCHANGED vars PROVE IInv'
<1>1. UNCHANGED <<pc, current, granularity, start, scan, role, left, previous,
                  trials, preserved, tests>>
  BY DEF vars, searchVars, timingVars
<1>2. TypeOK'
  BY <1>1 DEF IInv, TypeOK
<1>3. ScanAgrees'
  BY <1>1 DEF IInv, ScanAgrees, Untouched
<1> QED
  BY <1>1, <1>2, <1>3 DEF IInv, Started, LatestHit, Sorted, Valid

\* The invariant is inductive: one case per action.
LEMMA StepInvariant == ASSUME IInv, [Next]_vars PROVE IInv'
<1>1. CASE First
  BY <1>1, FirstInvariant
<1>2. CASE TryChunk
  BY <1>2, ChunkInvariant
<1>3. CASE Refine
  BY <1>3, RefineInvariant
<1>4. CASE EndSearch
  BY <1>4, EndSearchInvariant
<1>5. CASE TryOffset
  BY <1>5, OffsetInvariant
<1>6. CASE \E a \in Actions : TryDelay(a)
  BY <1>6, DelayInvariant
<1>7. CASE NextRole
  BY <1>7, NextRoleInvariant
<1>8. CASE Finish
  BY <1>8, FinishInvariant
<1>9. CASE UNCHANGED vars
  BY <1>9, StutterInvariant
<1> QED
  BY <1>1, <1>2, <1>3, <1>4, <1>5, <1>6, <1>7, <1>8, <1>9 DEF Next

\* What the theorems below rest on.
THEOREM ReductionInvariant == Spec => []IInv
BY InitInvariant, StepInvariant, PTL DEF Spec

\* minimize_action_plan returns a plan that was executed and showed the
\* artifact, whatever the executor answers to any other plan.
THEOREM ResultConfirmed == Spec => []Confirmed
<1>1. IInv => Confirmed
  BY DEF IInv, LatestHit, Confirmed
<1> QED
  BY <1>1, ReductionInvariant, PTL

\* No removal and no lowered wait builds a scenario parse_scenario refuses: a
\* reduction does not lose its trials to a ValueError.
THEOREM ParserAccepts == Spec => []NeverRaises
<1>1. IInv => NeverRaises
  BY DEF IInv, NeverRaises
<1> QED
  BY <1>1, ReductionInvariant, PTL

\* No action, wait or offset of the plan comes back.
Smaller ==
    /\ current'.kept \subseteq current.kept
    /\ \A a \in Actions : current'.at[a] <= current.at[a]
    /\ \A r \in Roles : current'.offset[r] <= current.offset[r]

LEMMA StepShrinks == ASSUME IInv, [Next]_vars PROVE Smaller
<1>0. /\ current \in Plans /\ current.kept \subseteq Actions
      /\ \A x \in Actions : current.at[x] \in Nat
      /\ \A r \in Roles : current.offset[r] \in Nat
  BY DEF IInv, TypeOK, Plans
<1>1. CASE current' = current
  BY <1>0, <1>1 DEF Smaller
<1>2. CASE TryChunk
  <2> DEFINE candidate == [current EXCEPT !.kept = @ \ Chunk]
  <2>1. /\ candidate.kept \subseteq current.kept
        /\ candidate.at = current.at /\ candidate.offset = current.offset
    BY <1>0 DEF Plans
  <2>2. current' = current \/ current' = candidate
    BY <1>2 DEF TryChunk, Accept
  <2> HIDE DEF candidate
  <2> QED
    BY <1>0, <1>1, <2>1, <2>2 DEF Smaller
<1>3. CASE TryOffset
  <2> DEFINE candidate == [current EXCEPT !.offset[role] = 0]
  <2>1. /\ candidate.kept = current.kept /\ candidate.at = current.at
        /\ candidate.offset = [current.offset EXCEPT ![role] = 0]
    BY <1>0 DEF Plans
  <2>2. \A r \in Roles : candidate.offset[r] = IF r = role THEN 0 ELSE current.offset[r]
    BY <1>0, <2>1 DEF Plans
  <2>3. current' = current \/ current' = candidate
    BY <1>3 DEF TryOffset, Base, Accept
  <2> HIDE DEF candidate
  <2>4. CASE current' = candidate
    <3>1. \A r \in Roles : candidate.offset[r] <= current.offset[r]
      BY <1>0, <2>2
    <3>2. /\ current'.kept = current.kept /\ current'.at = current.at
          /\ \A r \in Roles : current'.offset[r] <= current.offset[r]
      BY <2>1, <2>4, <3>1
    <3>3. \A x \in Actions : current.at[x] <= current.at[x]
      BY <1>0
    <3> QED
      BY <3>2, <3>3 DEF Smaller
  <2> QED
    BY <1>1, <2>3, <2>4
<1>4. ASSUME NEW a \in Actions, TryDelay(a) PROVE Smaller
  <2> DEFINE candidate == [current EXCEPT !.at[a] = previous]
  <2>1. CASE scan.at[a] <= previous
    BY <1>1, <1>4, <2>1 DEF TryDelay
  <2>2. CASE ~(scan.at[a] <= previous)
    <3>0. previous \in Nat /\ scan.at[a] \in Nat
      BY DEF IInv, TypeOK, Plans
    <3>1. a \in left /\ (\A b \in left : a <= b) /\ pc = "delay" /\ previous < scan.at[a]
      BY <1>4, <2>2, <3>0 DEF TryDelay
    <3>2. current.at[a] = scan.at[a] /\ Valid(candidate)
      BY <3>1, LoweredIsValid
    <3>3. current' = current \/ current' = candidate
      BY <1>4, <2>2, <3>2 DEF TryDelay, Base, Lower, Accept
    <3>4. /\ candidate.kept = current.kept /\ candidate.offset = current.offset
          /\ candidate.at = [current.at EXCEPT ![a] = previous]
      BY <1>0 DEF Plans
    <3>5. \A x \in Actions : candidate.at[x] = IF x = a THEN previous ELSE current.at[x]
      BY <1>0, <3>4 DEF Plans
    <3> HIDE DEF candidate
    <3>6. \A x \in Actions : candidate.at[x] <= current.at[x]
      BY <1>0, <3>0, <3>1, <3>2, <3>5
    <3>7. CASE current' = candidate
      <4>1. /\ current'.kept = current.kept /\ current'.offset = current.offset
            /\ \A x \in Actions : current'.at[x] <= current.at[x]
        BY <3>4, <3>6, <3>7
      <4>2. \A r \in Roles : current.offset[r] <= current.offset[r]
        BY <1>0
      <4> QED
        BY <4>1, <4>2 DEF Smaller
    <3> QED
      BY <1>1, <3>3, <3>7
  <2> QED
    BY <2>1, <2>2
<1> QED
  BY <1>1, <1>2, <1>3, <1>4 DEF Next, First, Refine, EndSearch, NextRole, Finish, vars

\* minimize_action_plan never goes back to a plan larger than one it has held:
\* iterating over the roles as they were brings no removed action back.
THEOREM PlanShrinks == Spec => Shrinks
<1>1. IInv /\ [Next]_vars => [Smaller]_vars
  BY StepShrinks
<1>2. Spec => [][Smaller]_vars
  BY <1>1, ReductionInvariant, PTL DEF Spec
<1> QED
  BY <1>2 DEF Shrinks, Smaller

\* The plan and what is tried next keep their types, and the budget is kept.
THEOREM TypeCorrect == Spec => []TypeOK
<1>1. IInv => TypeOK
  BY DEF IInv
<1> QED
  BY <1>1, ReductionInvariant, PTL

-----------------------------------------------------------------------------
(* Minimality.                                                             *)

\* The action was left out alone, and the artifact was gone.
Missed(a) ==
    \E i \in DOMAIN tests : tests[i].plan.kept = current.kept \ {a} /\ ~tests[i].hit

\* In the last pass of the search, what lies before the next chunk was missed.
LastPass ==
    /\ pc = "first" => start = 0
    /\ pc = "search" /\ Exhausted => \A a \in current.kept : Position(a) <= start => Missed(a)

MinimalInv == IInv /\ LastPass /\ OneMinimal

LEMMA SmallestChunk ==
    ASSUME NEW n \in Nat, NEW d \in Nat \ {0}, n <= d
    PROVE  Ceiling(n, d) <= 1 /\ Ceiling(n, d) \in Int
<1>1. n + d - 1 < 2 * d /\ n + d - 1 \in Nat
  OBVIOUS
<1> QED
  BY <1>1, Z3 DEF Ceiling

LEMMA KeptIsFinite ==
    ASSUME TypeOK
    PROVE  /\ current.kept \subseteq Nat
           /\ \A T : T \subseteq current.kept => IsFiniteSet(T) /\ Cardinality(T) \in Nat
<1>1. IsFiniteSet(Actions)
  BY FS_Interval, ReductionAssumption DEF Actions
<1>2. current.kept \subseteq Actions /\ Actions \subseteq Nat
  BY ReductionAssumption DEF TypeOK, Plans, Actions
<1> QED
  BY <1>1, <1>2, FS_Subset, FS_CardinalityType

\* Positions are 1 and above, and increase with the remaining actions.
LEMMA PositionsIncrease ==
    ASSUME TypeOK
    PROVE  /\ \A a \in current.kept : Position(a) \in Nat \ {0} /\ Position(a) <= Remaining
           /\ \A a, b \in current.kept : Position(a) = Position(b) => a = b
<1> DEFINE Below(z) == {c \in current.kept : c <= z}
<1>1. \A z \in current.kept :
        /\ z \in Below(z) /\ Below(z) \subseteq current.kept
        /\ IsFiniteSet(Below(z)) /\ Cardinality(Below(z)) \in Nat
  BY KeptIsFinite
<1>2. \A x, y \in current.kept : x < y => Below(x) \subseteq Below(y) /\ y \notin Below(x)
  BY KeptIsFinite
<1>3. IsFiniteSet(current.kept)
  BY KeptIsFinite
<1>4. \A z \in current.kept : Position(z) = Cardinality(Below(z))
  BY DEF Position
<1> HIDE DEF Below
<1>5. \A a \in current.kept : Position(a) \in Nat \ {0} /\ Position(a) <= Remaining
  BY <1>1, <1>3, <1>4, FS_EmptySet, FS_Subset DEF Remaining
<1>6. \A x, y \in current.kept : x < y => Position(x) # Position(y)
  <2> SUFFICES ASSUME NEW x \in current.kept, NEW y \in current.kept, x < y,
                      Cardinality(Below(x)) = Cardinality(Below(y))
               PROVE  FALSE
    BY <1>4
  <2>1. Below(x) \in SUBSET Below(y) /\ IsFiniteSet(Below(y))
    BY <1>1, <1>2
  <2>2. Below(x) = Below(y)
    BY <2>1, FS_Subset
  <2> QED
    BY <1>1, <1>2, <2>2
<1>7. \A x, y \in current.kept : x < y \/ y < x \/ x = y
  BY KeptIsFinite
<1> QED
  BY <1>5, <1>6, <1>7

PositionsPositive == \A a \in current.kept : Position(a) \in Nat \ {0}

LEMMA PositivePositions == TypeOK => PositionsPositive
BY PositionsIncrease DEF PositionsPositive

\* A test is added behind the others.
LEMMA TestAdded ==
    ASSUME TypeOK, NEW plan \in Plans, NEW hit \in BOOLEAN, Execute(plan, hit)
    PROVE  /\ \A i \in DOMAIN tests : i \in DOMAIN tests' /\ tests'[i] = tests[i]
           /\ \E i \in DOMAIN tests' : tests'[i].plan = plan /\ tests'[i].hit = hit
<1> DEFINE entry == [plan |-> plan, hit |-> hit]
<1>1. entry \in [plan : Plans, hit : BOOLEAN] /\ entry.plan = plan /\ entry.hit = hit
  OBVIOUS
<1>2. tests' = Append(tests, entry) /\ tests \in Seq([plan : Plans, hit : BOOLEAN])
  BY DEF Execute, TypeOK
<1> HIDE DEF entry
<1>3. /\ Len(tests) + 1 \in DOMAIN tests' /\ tests'[Len(tests) + 1] = entry
      /\ \A i \in DOMAIN tests : i \in DOMAIN tests' /\ tests'[i] = tests[i]
  BY <1>1, <1>2
<1> QED
  BY <1>1, <1>3

\* What was missed stays missed while the kept actions stay.
LEMMA MissedStays ==
    ASSUME TypeOK, current'.kept = current.kept,
           tests' = tests \/ \E plan \in Plans, hit \in BOOLEAN : Execute(plan, hit)
    PROVE  \A a : Missed(a) => Missed(a)'
<1>1. \A i \in DOMAIN tests : i \in DOMAIN tests' /\ tests'[i] = tests[i]
  BY TestAdded
<1> QED
  BY <1>1 DEF Missed

LEMMA ChunkLastPass ==
    ASSUME IInv, LastPass, TryChunk, pc' = "search", start' # 0
    PROVE  LastPass'
<1> DEFINE candidate == [current EXCEPT !.kept = @ \ Chunk]
<1>0. TypeOK
  BY DEF IInv
<1>1. PICK hit \in BOOLEAN :
        /\ Execute(candidate, hit) /\ Accept(candidate, hit)
        /\ start' = IF hit THEN 0 ELSE start + ChunkSize
        /\ granularity' = IF hit /\ granularity > 2 THEN granularity - 1 ELSE granularity
  BY DEF TryChunk
<1>2. /\ ~hit /\ current' = current /\ start' = start + ChunkSize /\ granularity' = granularity
      /\ pc = "search"
  BY <1>1 DEF Accept, TryChunk
<1>3. candidate \in Plans /\ candidate.kept = current.kept \ Chunk
  BY <1>0 DEF TypeOK, Plans
<1> HIDE DEF candidate
<1>4. \A a : Missed(a) => Missed(a)'
  BY <1>0, <1>1, <1>2, <1>3, MissedStays
<1>5. Exhausted' = Exhausted /\ \A a : Position(a)' = Position(a)
  BY <1>2 DEF Exhausted, Remaining, Position
<1>6. ASSUME Exhausted, NEW a \in current.kept, Position(a) <= start + ChunkSize PROVE Missed(a)'
  <2>1. ChunkSize = 1 /\ start \in Nat
    <3>1. Remaining <= granularity /\ Remaining \in Nat /\ granularity \in Nat \ {0} /\ start \in Nat
      BY <1>0, <1>6, RemainingIsNat DEF Exhausted, TypeOK
    <3> QED
      BY <3>1, SmallestChunk DEF ChunkSize
  <2>2. CASE Position(a) <= start
    BY <1>2, <1>4, <1>6, <2>2 DEF LastPass
  <2>3. CASE ~(Position(a) <= start)
    <3>1. Position(a) = start + 1
      BY <1>0, <1>6, <2>1, <2>3, PositionsIncrease
    <3>2. \A b \in current.kept : start < Position(b) /\ Position(b) <= start + 1 <=> b = a
      BY <1>0, <2>1, <3>1, PositionsIncrease
    <3>3. Chunk = {a}
      BY <1>6, <2>1, <3>2 DEF Chunk
    <3>4. candidate.kept = current'.kept \ {a}
      BY <1>2, <1>3, <3>3
    <3>5. PICK i \in DOMAIN tests' : tests'[i].plan = candidate /\ tests'[i].hit = hit
      BY <1>0, <1>1, <1>3, TestAdded
    <3> QED
      BY <1>2, <3>4, <3>5 DEF Missed
  <2> QED
    BY <2>2, <2>3
<1> QED
  BY <1>2, <1>5, <1>6 DEF LastPass

LEMMA LastPassStep == ASSUME IInv, LastPass, [Next]_vars PROVE LastPass'
<1>1. CASE pc' = "search" /\ start' = 0
  <2>1. TypeOK'
    BY StepInvariant DEF IInv
  <2>2. PositionsPositive'
    BY <2>1, PositivePositions, PTL
  <2> QED
    BY <1>1, <2>2 DEF LastPass, PositionsPositive
<1>2. CASE UNCHANGED vars
  BY <1>2 DEF vars, searchVars, LastPass, Exhausted, Remaining, Position, Missed
<1>3. CASE pc' \notin {"first", "search"}
  BY <1>3 DEF LastPass
<1>4. CASE TryChunk
  <2>1. pc' \in {"search", "raised"}
    BY <1>4 DEF TryChunk
  <2> QED
    BY <1>1, <1>3, <1>4, <2>1, ChunkLastPass DEF LastPass
<1>5. CASE First \/ Refine
  <2>1. pc' # "first" /\ (pc' = "search" => start' = 0)
    BY <1>5 DEF First, Refine, LastPass, searchVars
  <2> QED
    BY <1>1, <1>3, <2>1
<1>6. CASE EndSearch \/ TryOffset \/ (\E a \in Actions : TryDelay(a)) \/ NextRole \/ Finish
  BY <1>3, <1>6 DEF EndSearch, TryOffset, TryDelay, NextRole, Finish
<1> QED
  BY <1>2, <1>4, <1>5, <1>6 DEF Next

LEMMA OneMinimalStep == ASSUME MinimalInv, [Next]_vars PROVE OneMinimal'
<1>0. TypeOK /\ TypeOK' /\ IInv /\ LastPass
  BY StepInvariant DEF MinimalInv, IInv
<1> DEFINE After == {"offset", "delay", "done"}
<1>1. CASE pc' \notin After \/ ~preserved' \/ trials' >= MaxTrials
  BY <1>0, <1>1, ReductionAssumption DEF OneMinimal, TypeOK
<1>2. CASE EndSearch
  <2> SUFFICES ASSUME trials < MaxTrials, NEW a \in current.kept PROVE Missed(a)
    BY <1>2 DEF EndSearch, OneMinimal, Missed
  <2>1. IsFiniteSet(current.kept)
    BY <1>0, KeptIsFinite
  <2>2. Remaining # 0
    BY <2>1, FS_EmptySet DEF Remaining
  <2>3. pc = "search" /\ start >= Remaining /\ Exhausted
    BY <1>0, <1>2, <2>2, ReductionAssumption DEF EndSearch, TypeOK
  <2>4. Position(a) <= start
    BY <1>0, <2>3, PositionsIncrease, RemainingIsNat DEF TypeOK
  <2> QED
    BY <1>0, <2>3, <2>4 DEF LastPass
<1>3. CASE /\ pc \in After /\ current'.kept = current.kept /\ preserved' = preserved
           /\ trials' = trials \/ trials' = trials + 1
           /\ tests' = tests \/ \E plan \in Plans, hit \in BOOLEAN : Execute(plan, hit)
  <2>1. \A a : Missed(a) => Missed(a)'
    BY <1>0, <1>3, MissedStays
  <2>2. trials' < MaxTrials => trials < MaxTrials
    BY <1>0, <1>3, ReductionAssumption DEF TypeOK
  <2> QED
    BY <1>3, <2>1, <2>2 DEF MinimalInv, OneMinimal, Missed
<1>4. CASE First \/ TryChunk \/ Refine
  BY <1>1, <1>4 DEF First, TryChunk, Refine
<1>5. CASE TryOffset
  <2> DEFINE candidate == [current EXCEPT !.offset[role] = 0]
  <2>1. candidate \in Plans /\ candidate.kept = current.kept
    BY <1>0 DEF TypeOK, Plans
  <2>2. /\ pc \in After /\ preserved' = preserved
        /\ \/ UNCHANGED <<current, trials, tests>>
           \/ \E hit \in BOOLEAN : Execute(candidate, hit) /\ Accept(candidate, hit)
    BY <1>5 DEF TryOffset, Base
  <2> HIDE DEF candidate
  <2> QED
    BY <1>3, <2>1, <2>2 DEF Execute, Accept
<1>6. ASSUME NEW a \in Actions, TryDelay(a) PROVE OneMinimal'
  <2> DEFINE candidate == [current EXCEPT !.at[a] = previous]
  <2>1. candidate \in Plans /\ candidate.kept = current.kept
    BY <1>0 DEF TypeOK, Plans
  <2>2. /\ pc \in After /\ preserved' = preserved
        /\ \/ UNCHANGED <<current, trials, tests>>
           \/ \E hit \in BOOLEAN : Execute(candidate, hit) /\ Accept(candidate, hit)
    BY <1>6 DEF TryDelay, Base, Lower
  <2> HIDE DEF candidate
  <2> QED
    BY <1>3, <2>1, <2>2 DEF Execute, Accept
<1>7. CASE NextRole \/ Finish \/ UNCHANGED vars
  <2>1. UNCHANGED <<current, preserved, trials, tests>> /\ (pc' \in After => pc \in After)
    BY <1>7 DEF NextRole, Finish, vars
  <2> QED
    BY <1>1, <1>3, <2>1
<1> QED
  BY <1>2, <1>4, <1>5, <1>6, <1>7 DEF Next

\* minimize_action_plan, within its budget, ends only when each remaining
\* action was left out alone in an execution that did not show the artifact.
THEOREM ResultMinimal == Spec => []OneMinimal
<1>1. Init => MinimalInv
  BY InitInvariant DEF Init, MinimalInv, LastPass, OneMinimal
<1>2. MinimalInv /\ [Next]_vars => MinimalInv'
  BY StepInvariant, LastPassStep, OneMinimalStep DEF MinimalInv
<1>3. MinimalInv => OneMinimal
  BY DEF MinimalInv
<1> QED
  BY <1>1, <1>2, <1>3, PTL DEF Spec
=============================================================================
