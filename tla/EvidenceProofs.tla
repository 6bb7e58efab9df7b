----------------------------- MODULE EvidenceProofs ---------------------------
(***************************************************************************)
(* What is proved of the evidence, of what is concluded from it, and of    *)
(* the report.  The evidence is a rearrangement of the events that were    *)
(* written: the oracles that do not compare their order conclude the same, *)
(* no event read later takes an accusation back, a pass is whole, and the  *)
(* events a result cites give it again.  What an oracle accuses has a      *)
(* candidate, the searches of three modules find the same, and the slice   *)
(* of an artifact gives the artifact again.  Logs read in another order    *)
(* that keeps each actor's events, and those with a common identifier,     *)
(* give the same features, projection, artifacts and profile.  In a        *)
(* report, an effect that is seen in two ways is one group, and only       *)
(* controls take targets back.                                             *)
(***************************************************************************)
EXTENDS Analysis, Explorer, ProofFacts

-----------------------------------------------------------------------------
(* The logs, the evidence and the order of reading.                        *)

\* Ascending lists each index once, the lesser before the greater.
LEMMA AscendingLists ==
    ASSUME NEW S \in SUBSET Int, IsFiniteSet(S)
    PROVE  /\ Ascending(S) \in [1..Cardinality(S) -> S]
           /\ \A x \in S : \E i \in 1..Cardinality(S) : Ascending(S)[i] = x
           /\ \A i, j \in 1..Cardinality(S) : i < j => Ascending(S)[i] < Ascending(S)[j]
<1> DEFINE below(x) == {y \in S : y <= x}
           rank == [x \in S |-> Cardinality(below(x))]
           N == 1..Cardinality(S)
<1>1. Cardinality(S) \in Nat
  BY FS_CardinalityType
<1>2. IsFiniteSet(N) /\ Cardinality(N) = Cardinality(S)
  BY <1>1, FS_Interval
<1>3. ASSUME NEW x \in S
      PROVE  rank[x] \in N
  <2>1. IsFiniteSet(below(x)) /\ Cardinality(below(x)) <= Cardinality(S)
    BY FS_Subset
  <2>2. Cardinality(below(x)) \in Nat /\ Cardinality(below(x)) # 0
    BY <2>1, FS_CardinalityType, FS_EmptySet
  <2> QED
    BY <1>1, <2>1, <2>2
<1>4. ASSUME NEW x \in S, NEW y \in S, x < y
      PROVE  rank[x] < rank[y]
  <2>1. below(x) \subseteq below(y) /\ y \in below(y) /\ y \notin below(x)
    <3>1. x \in Int /\ y \in Int /\ \A z \in S : z \in Int
      OBVIOUS
    <3>2. \A z \in S : z <= x => z <= y
      BY <1>4, <3>1
    <3>3. y <= y /\ ~ (y <= x)
      BY <1>4, <3>1
    <3> QED
      BY <3>2, <3>3
  <2>2. IsFiniteSet(below(y)) /\ below(x) \in SUBSET below(y)
    BY <2>1, FS_Subset
  <2>3. Cardinality(below(x)) <= Cardinality(below(y)) /\ Cardinality(below(x)) # Cardinality(below(y))
    BY <2>1, <2>2, FS_Subset
  <2>4. rank[x] \in Int /\ rank[y] \in Int
    BY <1>3
  <2> QED
    BY <2>3, <2>4
<1>5. rank \in Injection(S, N)
  <2>1. rank \in [S -> N]
    BY <1>3
  <2>2. \A x, y \in S : rank[x] = rank[y] => x = y
    <3> SUFFICES ASSUME NEW x \in S, NEW y \in S, x # y
                 PROVE  rank[x] # rank[y]
      OBVIOUS
    <3>1. x < y \/ y < x
      OBVIOUS
    <3>2. rank[x] \in Int /\ rank[y] \in Int
      BY <1>3
    <3>3. rank[x] < rank[y] \/ rank[y] < rank[x]
      BY <1>4, <3>1
    <3> QED
      BY <3>2, <3>3
  <2> HIDE DEF rank
  <2> QED
    BY <2>1, <2>2 DEF Injection, IsInjective
<1>6. rank \in Surjection(S, N)
  <2> HIDE DEF rank, N
  <2> QED
    BY <1>2, <1>5, FS_Injection
<1>7. \A i \in N : \E x \in S : Cardinality(below(x)) = i
  BY <1>6 DEF Surjection
<1>8. \A i \in N : Ascending(S)[i] \in S /\ rank[Ascending(S)[i]] = i
  BY <1>7 DEF Ascending
<1>9. Ascending(S) \in [N -> S]
  BY <1>8 DEF Ascending
<1> HIDE DEF rank
<1>10. \A x \in S : rank[x] \in N /\ Ascending(S)[rank[x]] = x
  BY <1>3, <1>5, <1>8 DEF Injection, IsInjective
<1>11. ASSUME NEW i \in N, NEW j \in N, i < j
       PROVE  Ascending(S)[i] < Ascending(S)[j]
  <2>1. Ascending(S)[i] \in Int /\ Ascending(S)[j] \in Int
    BY <1>8
  <2> DEFINE x == Ascending(S)[i]
             y == Ascending(S)[j]
  <2>2. x \in S /\ y \in S /\ rank[x] = i /\ rank[y] = j
    BY <1>8
  <2>3. ~ (y < x) /\ x # y
    <3> HIDE DEF x, y
    <3>1. y < x => rank[y] < rank[x]
      BY <1>4, <2>2
    <3> QED
      BY <3>1, <2>2, <1>11
  <2> QED
    BY <2>1, <2>3
<1> QED
  BY <1>9, <1>10, <1>11

-----------------------------------------------------------------------------
\* A sequence over a set is one over a larger set.
LEMMA WiderSequence ==
    ASSUME NEW S, NEW T, S \subseteq T, NEW s \in Seq(S)
    PROVE  s \in Seq(T)
<1>1. Len(s) \in Nat /\ s \in [1..Len(s) -> S]
  OBVIOUS
<1>2. s \in [1..Len(s) -> T]
  BY <1>1
<1> QED
  BY <1>1, <1>2, SeqDef

\* An event is in its role's log, read or not; what is read or unread of a log
\* is in the order it was written, and what is unread comes later.
LogsKept ==
    /\ read \in Seq(1..Len(emitted))
    /\ unread \in [Actors -> Seq(1..Len(emitted))]
    /\ \A a \in Actors : \A j \in DOMAIN unread[a] : emitted[unread[a][j]].actor = a
    /\ \A k \in 1..Len(emitted) : k \in Range(read) \cup Range(unread[emitted[k].actor])
    /\ \A i, j \in DOMAIN read :
            i < j /\ emitted[read[i]].actor = emitted[read[j]].actor => read[i] < read[j]
    /\ \A i \in DOMAIN read : \A j \in DOMAIN unread[emitted[read[i]].actor] :
            read[i] < unread[emitted[read[i]].actor][j]
    /\ \A a \in Actors : \A i, j \in DOMAIN unread[a] : i < j => unread[a][i] < unread[a][j]

\* An execution that ended lost nothing, or says that it diverged.
EndKept ==
    /\ tail \in Seq(Range(tail))
    /\ \/ Running
       \/ tail[Len(tail)].kind = "execution.divergence"
       \/ /\ \A a \in Actors : unread[a] = <<>>
          /\ \E failed \in SUBSET Actors : tail = ExitEvents(case.roles, failed)

\* The inductive invariant of the evidence.
EvidenceInv ==
    /\ case \in Cases
    /\ emitted \in Seq(case.alphabet)
    /\ LogsKept
    /\ EndKept

\* A role writes: its new event is unread.
LEMMA EmitKeeps ==
    ASSUME EvidenceInv, NEW e \in case.alphabet, Emit(e)
    PROVE  EvidenceInv'
<1> DEFINE n == Len(emitted)
<1>1. /\ case \in Cases /\ case' = case /\ Actors' = Actors
      /\ e.actor \in Actors /\ emitted \in Seq(case.alphabet) /\ n \in Nat
  BY EvaluationAssumption DEF EvidenceInv, Emit, Actors
<1>2. /\ emitted' \in Seq(case.alphabet) /\ Len(emitted') = n + 1
      /\ emitted'[n + 1] = e
      /\ \A k \in 1..n : emitted'[k] = emitted[k]
  BY <1>1 DEF Emit
<1>3. /\ read' = read
      /\ unread' = [unread EXCEPT ![e.actor] = Append(@, n + 1)]
  BY DEF Emit
<1>4. LogsKept
  BY DEF EvidenceInv
<1> DEFINE u == unread[e.actor]
           u2 == unread'[e.actor]
<1>5. /\ u \in Seq(1..n) /\ u2 = Append(u, n + 1) /\ u2 \in Seq(1..(n + 1))
      /\ Len(u2) = Len(u) + 1 /\ u2[Len(u2)] = n + 1
      /\ \A j \in 1..Len(u) : u2[j] = u[j] /\ u[j] \in 1..n
      /\ Len(u) \in Nat /\ DOMAIN u = 1..Len(u) /\ DOMAIN u2 = 1..(Len(u) + 1)
  <2>1. u \in Seq(1..n) /\ u2 = Append(u, n + 1)
    BY <1>1, <1>3, <1>4 DEF LogsKept
  <2>2. u \in Seq(1..(n + 1))
    <3>1. \A x \in 1..n : x \in 1..(n + 1)
      BY <1>1
    <3> HIDE DEF n, u
    <3> QED BY <2>1, <3>1, WiderSequence
  <2> HIDE DEF u, u2, n
  <2> QED
    BY <1>1, <2>1, <2>2
<1>6. \A a \in Actors : a # e.actor => unread'[a] = unread[a]
  BY <1>1, <1>3, <1>4 DEF LogsKept
<1>7. /\ read' \in Seq(1..Len(emitted')) /\ read \in Seq(1..n)
      /\ \A i \in DOMAIN read : read[i] \in 1..n
  BY <1>1, <1>2, <1>3, <1>4 DEF LogsKept
<1>8. unread' \in [Actors' -> Seq(1..Len(emitted'))]
  <2>1. \A a \in Actors : unread'[a] \in Seq(1..(n + 1))
    <3> SUFFICES ASSUME NEW a \in Actors PROVE unread'[a] \in Seq(1..(n + 1))
      OBVIOUS
    <3>1. CASE a = e.actor
      BY <3>1, <1>5
    <3>2. CASE a # e.actor
      <4>1. unread'[a] \in Seq(1..n)
        BY <3>2, <1>6, <1>4 DEF LogsKept
      <4> QED BY <4>1, <1>1
    <3> QED BY <3>1, <3>2
  <2>2. DOMAIN unread' = Actors
    BY <1>3, <1>4 DEF LogsKept
  <2>3. unread' = [a \in Actors |-> unread'[a]]
    BY <1>3, <1>4, <2>2 DEF LogsKept
  <2> HIDE DEF n
  <2> QED
    BY <1>1, <1>2, <2>1, <2>3
<1>9. \A a \in Actors : \A j \in DOMAIN unread[a] : unread[a][j] \in 1..n
  BY <1>4 DEF LogsKept
<1> HIDE DEF u, u2
<1>10. \A a \in Actors : \A j \in DOMAIN unread'[a] :
            /\ emitted'[unread'[a][j]].actor = a
            /\ \/ j \in DOMAIN unread[a] /\ unread'[a][j] = unread[a][j]
               \/ a = e.actor /\ j = Len(unread[a]) + 1 /\ unread'[a][j] = n + 1
  <2> SUFFICES ASSUME NEW a \in Actors, NEW j \in DOMAIN unread'[a]
               PROVE  /\ emitted'[unread'[a][j]].actor = a
                      /\ \/ j \in DOMAIN unread[a] /\ unread'[a][j] = unread[a][j]
                         \/ a = e.actor /\ j = Len(unread[a]) + 1 /\ unread'[a][j] = n + 1
    OBVIOUS
  <2>1. CASE j \in DOMAIN unread[a] /\ unread'[a][j] = unread[a][j]
    <3>1. emitted[unread[a][j]].actor = a /\ unread[a][j] \in 1..n
      BY <2>1, <1>4, <1>9 DEF LogsKept
    <3>2. emitted'[unread[a][j]] = emitted[unread[a][j]]
      BY <3>1, <1>2
    <3> QED
      BY <2>1, <3>1, <3>2
  <2>2. CASE ~(j \in DOMAIN unread[a] /\ unread'[a][j] = unread[a][j])
    <3>1. a = e.actor /\ j = Len(unread[a]) + 1 /\ unread'[a][j] = n + 1
      <4>1. a = e.actor
        BY <2>2, <1>6
      <4>2. j \in 1..(Len(u) + 1) /\ ~(j \in 1..Len(u) /\ u2[j] = u[j])
        BY <2>2, <4>1, <1>5 DEF u, u2
      <4>3. j = Len(u) + 1
        BY <4>2, <1>5
      <4> QED
        BY <4>1, <4>3, <1>5 DEF u, u2
    <3> QED
      BY <3>1, <1>2
  <2> QED
    BY <2>1, <2>2
<1>11. \A k \in 1..Len(emitted') : k \in Range(read') \cup Range(unread'[emitted'[k].actor])
  <2> SUFFICES ASSUME NEW k \in 1..(n + 1)
               PROVE  k \in Range(read) \cup Range(unread'[emitted'[k].actor])
    BY <1>2, <1>3
  <2>1. CASE k = n + 1
    <3>1. emitted'[k] = e /\ u2[Len(u2)] = k /\ Len(u2) \in DOMAIN u2
      BY <2>1, <1>2, <1>5
    <3> QED
      BY <3>1 DEF Range, u2
  <2>2. CASE k # n + 1
    <3>1. k \in 1..n /\ emitted'[k] = emitted[k]
      BY <2>2, <1>1, <1>2
    <3>2. k \in Range(read) \cup Range(unread[emitted[k].actor])
      BY <3>1, <1>4 DEF LogsKept
    <3>3. emitted[k].actor # e.actor \/ k \in Range(read) \cup Range(u2)
      <4> SUFFICES ASSUME emitted[k].actor = e.actor, k \in Range(u)
                   PROVE  k \in Range(u2)
        BY <3>2 DEF u
      <4>1. PICK j \in DOMAIN u : u[j] = k
        BY DEF Range
      <4> QED
        BY <4>1, <1>5 DEF Range
    <3>4. emitted[k].actor \in Actors
      BY <1>1, <3>1, EvaluationAssumption DEF Actors
    <3> QED
      BY <3>1, <3>2, <3>3, <3>4, <1>6 DEF u2
  <2> QED
    BY <2>1, <2>2
<1>12. \A i, j \in DOMAIN read' :
            i < j /\ emitted'[read'[i]].actor = emitted'[read'[j]].actor => read'[i] < read'[j]
  BY <1>2, <1>3, <1>4, <1>7 DEF LogsKept
<1>13. \A i \in DOMAIN read' : \A j \in DOMAIN unread'[emitted'[read'[i]].actor] :
            read'[i] < unread'[emitted'[read'[i]].actor][j]
  <2> SUFFICES ASSUME NEW i \in DOMAIN read, NEW j \in DOMAIN unread'[emitted[read[i]].actor]
               PROVE  read[i] < unread'[emitted[read[i]].actor][j]
    BY <1>2, <1>3, <1>7
  <2> DEFINE a == emitted[read[i]].actor
  <2>1. a \in Actors /\ read[i] \in 1..n
    BY <1>1, <1>7, EvaluationAssumption DEF Actors
  <2>2. CASE j \in DOMAIN unread[a] /\ unread'[a][j] = unread[a][j]
    BY <2>2, <1>4 DEF LogsKept
  <2>3. CASE unread'[a][j] = n + 1
    BY <2>1, <2>3, <1>1
  <2> HIDE DEF a
  <2> QED
    BY <2>1, <2>2, <2>3, <1>10 DEF a
<1>14. \A a \in Actors : \A i, j \in DOMAIN unread'[a] : i < j => unread'[a][i] < unread'[a][j]
  <2> SUFFICES ASSUME NEW a \in Actors, NEW i \in DOMAIN unread'[a], NEW j \in DOMAIN unread'[a], i < j
               PROVE  unread'[a][i] < unread'[a][j]
    OBVIOUS
  <2>1. CASE a # e.actor
    BY <2>1, <1>4, <1>6 DEF LogsKept
  <2>2. CASE a = e.actor
    <3>1. /\ i \in 1..Len(u)
          /\ \/ j \in 1..Len(u)
             \/ j = Len(u) + 1 /\ unread'[a][j] = n + 1
      BY <2>2, <1>5 DEF u, u2
    <3>2. unread'[a][i] = unread[a][i] /\ unread[a][i] \in 1..n
      BY <2>2, <3>1, <1>5 DEF u, u2
    <3>3. CASE j \in 1..Len(u)
      BY <2>2, <3>1, <3>3, <1>4, <1>5 DEF LogsKept, u, u2
    <3>4. CASE unread'[a][j] = n + 1
      BY <3>2, <3>4, <1>1
    <3> QED
      BY <3>1, <3>3, <3>4
  <2> QED
    BY <2>1, <2>2
<1>15. LogsKept'
  <2> HIDE DEF n
  <2> QED
    BY <1>1, <1>7, <1>8, <1>10, <1>11, <1>12, <1>13, <1>14 DEF LogsKept
<1>16. EndKept'
  BY DEF EvidenceInv, EndKept, Emit, Running
<1> QED
  BY <1>1, <1>2, <1>15, <1>16 DEF EvidenceInv

\* A log is read: the events it held move to what was read, in their order.
LEMMA PollKeeps ==
    ASSUME EvidenceInv, NEW actor \in Actors, Poll(actor)
    PROVE  EvidenceInv'
<1> DEFINE n == Len(emitted)
           u == unread[actor]
<1>1. /\ case' = case /\ Actors' = Actors /\ emitted' = emitted /\ tail' = tail
      /\ read' = read \o u
      /\ unread' = [unread EXCEPT ![actor] = <<>>]
  BY DEF Poll, Actors
<1>2. LogsKept
  BY DEF EvidenceInv
<1>3. /\ read \in Seq(1..n) /\ u \in Seq(1..n) /\ n \in Nat
      /\ \A k \in 1..n : emitted[k].actor \in Actors
  BY <1>2, EvaluationAssumption DEF LogsKept, EvidenceInv, Actors
<1> HIDE DEF u, n
<1>4. /\ Len(read) \in Nat /\ DOMAIN read = 1..Len(read)
      /\ Len(u) \in Nat /\ DOMAIN u = 1..Len(u)
      /\ read' \in Seq(1..n)
      /\ DOMAIN read' = 1..(Len(read) + Len(u))
      /\ \A i \in 1..Len(read) : read'[i] = read[i] /\ read[i] \in 1..n
      /\ \A i \in 1..(Len(read) + Len(u)) : i \notin 1..Len(read) =>
            i - Len(read) \in 1..Len(u) /\ read'[i] = u[i - Len(read)]
      /\ \A j \in 1..Len(u) : u[j] \in 1..n /\ Len(read) + j \in 1..(Len(read) + Len(u))
                              /\ read'[Len(read) + j] = u[j]
  BY <1>1, <1>3
<1>5. /\ unread' \in [Actors -> Seq(1..n)]
      /\ unread'[actor] = <<>>
      /\ \A a \in Actors : a # actor => unread'[a] = unread[a]
  <2>1. unread \in [Actors -> Seq(1..n)]
    BY <1>2 DEF LogsKept, n
  <2>2. <<>> \in Seq(1..n)
    OBVIOUS
  <2> QED
    BY <2>1, <2>2, <1>1
<1>6. \A a \in Actors : \A j \in DOMAIN unread'[a] : a # actor /\ unread'[a] = unread[a]
  BY <1>5
<1>7. \A j \in 1..Len(u) : emitted[u[j]].actor = actor
  BY <1>2, <1>4 DEF LogsKept, u
<1>8. \A k \in 1..n : k \in Range(read') \cup Range(unread'[emitted[k].actor])
  <2> SUFFICES ASSUME NEW k \in 1..n
               PROVE  k \in Range(read') \cup Range(unread'[emitted[k].actor])
    OBVIOUS
  <2>1. k \in Range(read) \cup Range(unread[emitted[k].actor])
    BY <1>2 DEF LogsKept, n
  <2>2. CASE k \in Range(read)
    <3>1. PICK i \in 1..Len(read) : read[i] = k
      BY <2>2, <1>4 DEF Range
    <3>2. i \in DOMAIN read' /\ read'[i] = k
      BY <3>1, <1>4
    <3> QED
      BY <3>2 DEF Range
  <2>3. CASE k \in Range(u)
    <3>1. PICK j \in 1..Len(u) : u[j] = k
      BY <2>3, <1>4 DEF Range
    <3>2. Len(read) + j \in DOMAIN read' /\ read'[Len(read) + j] = k
      BY <3>1, <1>4
    <3> QED
      BY <3>2 DEF Range
  <2>4. CASE emitted[k].actor # actor
    BY <2>1, <2>2, <2>4, <1>3, <1>5
  <2> QED
    BY <2>1, <2>2, <2>3, <2>4 DEF u
<1>9. ASSUME NEW i \in DOMAIN read', NEW j \in DOMAIN read', i < j,
             emitted[read'[i]].actor = emitted[read'[j]].actor
      PROVE  read'[i] < read'[j]
  <2>1. CASE i \in 1..Len(read) /\ j \in 1..Len(read)
    BY <2>1, <1>2, <1>4, <1>9 DEF LogsKept
  <2>2. CASE i \in 1..Len(read) /\ j \notin 1..Len(read)
    <3>1. j - Len(read) \in 1..Len(u) /\ read'[j] = u[j - Len(read)]
      BY <2>2, <1>4
    <3>2. read'[i] = read[i] /\ emitted[read[i]].actor = actor
      BY <3>1, <2>2, <1>4, <1>7, <1>9
    <3>3. read[i] < u[j - Len(read)]
      BY <3>1, <3>2, <2>2, <1>2, <1>4 DEF LogsKept, u
    <3> QED
      BY <3>1, <3>2, <3>3
  <2>3. CASE i \notin 1..Len(read)
    <3>1. /\ i - Len(read) \in 1..Len(u) /\ read'[i] = u[i - Len(read)]
          /\ j - Len(read) \in 1..Len(u) /\ read'[j] = u[j - Len(read)]
          /\ i - Len(read) < j - Len(read)
      BY <2>3, <1>4, <1>9
    <3>2. \A x, y \in 1..Len(u) : x < y => u[x] < u[y]
      BY <1>2, <1>4 DEF LogsKept, u
    <3> QED
      BY <3>1, <3>2
  <2> QED
    BY <2>1, <2>2, <2>3
<1>10. ASSUME NEW i \in DOMAIN read', NEW j \in DOMAIN unread'[emitted[read'[i]].actor]
       PROVE  read'[i] < unread'[emitted[read'[i]].actor][j]
  <2>1. read'[i] \in 1..n
    BY <1>4
  <2>2. emitted[read'[i]].actor # actor
    BY <2>1, <1>3, <1>10, <1>6
  <2>3. i \in 1..Len(read)
    BY <2>2, <1>4, <1>7
  <2>4. /\ read'[i] = read[i] /\ i \in DOMAIN read
        /\ unread'[emitted[read[i]].actor] = unread[emitted[read[i]].actor]
    BY <2>1, <2>2, <2>3, <1>3, <1>4, <1>5
  <2>5. j \in DOMAIN unread[emitted[read[i]].actor]
    BY <2>4, <1>10
  <2>6. read[i] < unread[emitted[read[i]].actor][j]
    BY <2>4, <2>5, <1>2 DEF LogsKept
  <2> QED
    BY <2>4, <2>6
<1>11. LogsKept'
  <2>1. \A a \in Actors : \A j \in DOMAIN unread'[a] : emitted[unread'[a][j]].actor = a
    BY <1>2, <1>6 DEF LogsKept
  <2>2. \A a \in Actors : \A i, j \in DOMAIN unread'[a] : i < j => unread'[a][i] < unread'[a][j]
    BY <1>2, <1>6 DEF LogsKept
  <2> QED
    BY <1>1, <1>4, <1>5, <1>8, <1>9, <1>10, <2>1, <2>2 DEF LogsKept, n
<1>12. EndKept'
  BY DEF EvidenceInv, EndKept, Poll, Running
<1> QED
  BY <1>1, <1>11, <1>12 DEF EvidenceInv

\* The sequence of the processes' ends, also if some roles were not launched.
LEMMA ExitsAreSequence ==
    ASSUME NEW S, NEW launched \in Seq(S), NEW failed
    PROVE  /\ ExitEvents(launched, failed) \in Seq(Range(ExitEvents(launched, failed)))
           /\ DOMAIN ExitEvents(launched, failed) = DOMAIN launched
<1> DEFINE ends == ExitEvents(launched, failed)
<1>1. Len(launched) \in Nat /\ DOMAIN launched = 1..Len(launched)
  OBVIOUS
<1>2. DOMAIN ends = 1..Len(launched)
  BY <1>1 DEF ExitEvents
<1>3. ends = [i \in 1..Len(launched) |-> ends[i]]
  BY <1>1 DEF ExitEvents
<1> HIDE DEF ends
<1>4. ends \in [1..Len(launched) -> Range(ends)]
  BY <1>2, <1>3 DEF Range
<1> QED
  BY <1>1, <1>2, <1>4, SeqDef DEF ends

\* The execution ends, completely or by a divergence.
LEMMA EndKeeps ==
    ASSUME EvidenceInv,
           \/ \E failed \in Failures(Actors) : Complete(failed)
           \/ \E launched \in DOMAIN case.roles, affected \in Actors \cup {None} :
                 \E failed \in Failures({case.roles[i] : i \in 1..launched}) :
                    Diverge(launched, failed, affected)
    PROVE  EvidenceInv'
<1>1. case.roles \in Seq(Actors)
  BY EvaluationAssumption DEF EvidenceInv, Actors
<1>2. ASSUME NEW failed \in Failures(Actors), Complete(failed)
      PROVE  EvidenceInv'
  <2>1. tail' = ExitEvents(case.roles, failed) /\ failed \in SUBSET Actors
    BY <1>2 DEF Complete, Failures
  <2>2. UNCHANGED <<case, stamped, emitted, unread, read>> /\ \A a \in Actors : unread[a] = <<>>
    BY <1>2 DEF Complete
  <2>3. tail' \in Seq(Range(tail'))
    BY <1>1, <2>1, ExitsAreSequence
  <2>4. EndKept'
    BY <2>1, <2>2, <2>3 DEF EndKept, Actors
  <2>5. LogsKept'
    BY <2>2 DEF EvidenceInv, LogsKept, Actors
  <2> QED
    BY <2>2, <2>4, <2>5 DEF EvidenceInv
<1>3. ASSUME NEW launched \in DOMAIN case.roles, NEW affected, NEW failed,
             Diverge(launched, failed, affected)
      PROVE  EvidenceInv'
  <2> DEFINE ends == ExitEvents(SubSeq(case.roles, 1, launched), failed)
             last == Divergence(IF affected = None THEN case.roles[launched] ELSE affected)
  <2>1. tail' = Append(ends, last)
    BY <1>3 DEF Diverge
  <2>2. UNCHANGED <<case, stamped, emitted, unread, read>>
    BY <1>3 DEF Diverge
  <2>3. ends \in Seq(Range(ends))
    <3>1. SubSeq(case.roles, 1, launched) \in Seq(Actors)
      BY <1>1
    <3> QED
      BY <3>1, ExitsAreSequence
  <2>4. last.kind = "execution.divergence"
    BY DEF Divergence
  <2> HIDE DEF ends, last
  <2>5. ends \in Seq(Range(ends) \cup {last})
    BY <2>3, WiderSequence
  <2>6. /\ tail' \in Seq(Range(ends) \cup {last})
        /\ tail'[Len(tail')] = last
    BY <2>1, <2>5
  <2>7. tail' \in Seq(Range(tail'))
    <3>1. Len(tail') \in Nat /\ DOMAIN tail' = 1..Len(tail') /\ tail' = [i \in 1..Len(tail') |-> tail'[i]]
      BY <2>6
    <3>2. tail' \in [1..Len(tail') -> Range(tail')]
      BY <3>1 DEF Range
    <3> QED
      BY <3>1, <3>2, SeqDef
  <2>8. EndKept'
    BY <2>4, <2>6, <2>7 DEF EndKept
  <2>9. LogsKept'
    BY <2>2 DEF EvidenceInv, LogsKept, Actors
  <2> QED
    BY <2>2, <2>8, <2>9 DEF EvidenceInv
<1> QED
  BY <1>2, <1>3

\* The evidence invariant holds of the specification: logs are read to their ends
\* before an execution completes (fastdds.py:387-402).
LEMMA EvidenceInvariant == Spec => []EvidenceInv
<1>1. Init => EvidenceInv
  <2> SUFFICES ASSUME Init PROVE EvidenceInv
    OBVIOUS
  <2>1. /\ case \in Cases /\ emitted = <<>> /\ unread = [a \in Actors |-> <<>>]
        /\ read = <<>> /\ tail = <<>>
    BY DEF Init
  <2>2. emitted \in Seq(case.alphabet) /\ read \in Seq(1..Len(emitted)) /\ Len(emitted) = 0
        /\ tail \in Seq(Range(tail))
    BY <2>1
  <2>3. unread \in [Actors -> Seq(1..Len(emitted))]
    BY <2>1
  <2>4. LogsKept
    BY <2>1, <2>2, <2>3 DEF LogsKept
  <2>5. EndKept
    BY <2>1, <2>2 DEF EndKept, Running
  <2> QED
    BY <2>1, <2>2, <2>4, <2>5 DEF EvidenceInv
<1>2. EvidenceInv /\ [Next]_vars => EvidenceInv'
  <2> SUFFICES ASSUME EvidenceInv, [Next]_vars PROVE EvidenceInv'
    OBVIOUS
  <2>1. CASE UNCHANGED vars
    BY <2>1 DEF vars, EvidenceInv, LogsKept, EndKept, Actors, Running
  <2>2. ASSUME NEW e \in case.alphabet, Emit(e) PROVE EvidenceInv'
    BY <2>2, EmitKeeps
  <2>3. ASSUME NEW actor \in Actors, Poll(actor) PROVE EvidenceInv'
    BY <2>3, PollKeeps
  <2>4. ASSUME NEW failed \in Failures(Actors), Complete(failed) PROVE EvidenceInv'
    BY <2>4, EndKeeps
  <2>5. ASSUME NEW launched \in DOMAIN case.roles, NEW affected \in Actors \cup {None},
               NEW failed \in Failures({case.roles[i] : i \in 1..launched}),
               Diverge(launched, failed, affected)
        PROVE EvidenceInv'
    BY <2>5, EndKeeps
  <2> QED
    BY <2>1, <2>2, <2>3, <2>4, <2>5 DEF Next
<1> QED
  BY <1>1, <1>2, PTL DEF Spec
-----------------------------------------------------------------------------
\* The events of ev are among those of ev2: the one at i is at m[i].
Embeds(m, ev, ev2) ==
    /\ m \in [DOMAIN ev -> DOMAIN ev2]
    /\ \A i, j \in DOMAIN ev : m[i] = m[j] => i = j
    /\ \A i \in DOMAIN ev : ev2[m[i]] = ev[i]

\* What a conclusion is, by what was found.
LEMMA ConcludeStatus ==
    ASSUME NEW v, NEW c
    PROVE  /\ Conclude(v, c).status = "violation" <=> v # {}
           /\ v # {} => Conclude(v, c) = [status |-> "violation", cited |-> v]
           /\ v = {} /\ c # {} => Conclude(v, c) = [status |-> "pass", cited |-> c]
           /\ v = {} /\ c = {} => Conclude(v, c) = [status |-> "not_applicable", cited |-> {}]
BY DEF Conclude, Result, NotApplicable

\* An assertion is judged by the oracle it names.
LEMMA Assessed ==
    ASSUME NEW s, NEW a, NEW ev
    PROVE  /\ a.oracle = "crypto_token_recipient_binding" => Assess(s, a, ev) = RecipientBinding(s, a, ev)
           /\ a.oracle = "unauthorized_key_disclosure" => Assess(s, a, ev) = KeyDisclosure(s, a, ev)
           /\ a.oracle = "application_writer_impersonation" => Assess(s, a, ev) = Impersonation(s, a, ev)
           /\ a.oracle = "key_scope_separation" => Assess(s, a, ev) = KeyScope(s, a, ev)
           /\ a.oracle = "revoked_authority_reuse" => Assess(s, a, ev) = RevokedReuse(s, a, ev)
           /\ a.oracle = "policy_authorization_consistency" => Assess(s, a, ev) = PolicyConsistency(s, a, ev)
           /\ a.oracle = "crypto_token_transport_consistency" => Assess(s, a, ev) = TokenTransport(s, a, ev)
           /\ a.oracle = "observer_health" => Assess(s, a, ev) = ObserverHealth(s, a, ev)
           /\ a.oracle = "endpoint_key_lifecycle" => Assess(s, a, ev) = EndpointLifecycle(s, a, ev)
           /\ a.oracle = "session_rotation_delivery" => Assess(s, a, ev) = SessionRotation(s, a, ev)
           /\ \/ a.oracle \in OrderFree \cup {"revoked_authority_reuse", "session_rotation_delivery"}
              \/ Assess(s, a, ev) = NotApplicable({})
<1>1. a.oracle = "crypto_token_recipient_binding" => Assess(s, a, ev) = RecipientBinding(s, a, ev)
  BY DEF Assess
<1>2. a.oracle = "unauthorized_key_disclosure" => Assess(s, a, ev) = KeyDisclosure(s, a, ev)
  BY DEF Assess
<1>3. a.oracle = "application_writer_impersonation" => Assess(s, a, ev) = Impersonation(s, a, ev)
  BY DEF Assess
<1>4. a.oracle = "key_scope_separation" => Assess(s, a, ev) = KeyScope(s, a, ev)
  BY DEF Assess
<1>5. a.oracle = "revoked_authority_reuse" => Assess(s, a, ev) = RevokedReuse(s, a, ev)
  BY DEF Assess
<1>6. a.oracle = "policy_authorization_consistency" => Assess(s, a, ev) = PolicyConsistency(s, a, ev)
  BY DEF Assess
<1>7. a.oracle = "crypto_token_transport_consistency" => Assess(s, a, ev) = TokenTransport(s, a, ev)
  BY DEF Assess
<1>8. a.oracle = "observer_health" => Assess(s, a, ev) = ObserverHealth(s, a, ev)
  BY DEF Assess
<1>9. a.oracle = "endpoint_key_lifecycle" => Assess(s, a, ev) = EndpointLifecycle(s, a, ev)
  BY DEF Assess
<1>10. a.oracle = "session_rotation_delivery" => Assess(s, a, ev) = SessionRotation(s, a, ev)
  BY DEF Assess
<1>11. \/ a.oracle \in OrderFree \cup {"revoked_authority_reuse", "session_rotation_delivery"}
       \/ Assess(s, a, ev) = NotApplicable({})
  BY DEF Assess, OrderFree
<1> QED
  BY <1>1, <1>2, <1>3, <1>4, <1>5, <1>6, <1>7, <1>8, <1>9, <1>10, <1>11

\* More evidence has at least as many rotations.
LEMMA RotationsEmbed ==
    ASSUME NEW a, NEW S, NEW ev \in Seq(S), NEW ev2 \in Seq(S), NEW m, Embeds(m, ev, ev2)
    PROVE  /\ Cardinality(Rotations(a, ev)) <= Cardinality(Rotations(a, ev2))
           /\ Cardinality(Rotations(a, ev)) \in Nat
           /\ Cardinality(Rotations(a, ev2)) \in Nat
<1> DEFINE R == Rotations(a, ev)
           R2 == Rotations(a, ev2)
           f == [r \in R |-> m[r]]
<1>1. IsFiniteSet(R) /\ IsFiniteSet(R2)
  <2>1. IsFiniteSet(DOMAIN ev) /\ IsFiniteSet(DOMAIN ev2)
    BY FS_Interval
  <2>2. R \subseteq DOMAIN ev /\ R2 \subseteq DOMAIN ev2
    BY DEF Rotations, Events
  <2> QED
    BY <2>1, <2>2, FS_Subset
<1>2. \A r \in R : m[r] \in R2 /\ r \in DOMAIN ev
  BY DEF Embeds, Rotations, Events
<1>3. f \in Injection(R, R2)
  <2> HIDE DEF R, R2
  <2> QED
    BY <1>2 DEF Injection, IsInjective, Embeds
<1> QED
  <2> HIDE DEF R, R2, f
  <2>1. Cardinality(R) <= Cardinality(R2)
    BY <1>1, <1>3, FS_Injection
  <2> QED
    BY <2>1, <1>1, FS_CardinalityType DEF R, R2

\* What accuses by being there still does when more has been seen.
LEMMA ViolationsEmbed ==
    ASSUME NEW s, NEW a, a.oracle \in Persistent, a.oracle = "session_rotation_delivery" => a.minimum \in Int,
           NEW S, NEW ev \in Seq(S), NEW ev2 \in Seq(S), NEW m, Embeds(m, ev, ev2),
           Assess(s, a, ev).status = "violation"
    PROVE  Assess(s, a, ev2).status = "violation"
<1>1. CASE a.oracle = "crypto_token_recipient_binding"
  <2>1. Assess(s, a, ev) = RecipientBinding(s, a, ev) /\ Assess(s, a, ev2) = RecipientBinding(s, a, ev2)
    BY <1>1, Assessed
  <2> DEFINE Misaddressed(e) == /\ e.kind = "crypto_token.observed"
                                 /\ Selects(a.observer, e.actor) /\ Selects(a.token_class, e.token_class)
                                 /\ None \notin {e.local, e.destination} /\ e.local # e.destination
  <2>2. \E i \in DOMAIN ev : Misaddressed(ev[i])
    BY <2>1 DEF RecipientBinding, Events, Conclude, NotApplicable, Result
  <2>3. \E i \in DOMAIN ev2 : Misaddressed(ev2[i])
    <3> HIDE DEF Misaddressed
    <3> QED BY <2>2 DEF Embeds
  <2> QED
    BY <2>1, <2>3 DEF RecipientBinding, Events, Conclude, Result
<1>2. CASE a.oracle = "unauthorized_key_disclosure"
  <2>1. Assess(s, a, ev) = KeyDisclosure(s, a, ev) /\ Assess(s, a, ev2) = KeyDisclosure(s, a, ev2)
    BY <1>2, Assessed
  <2> QED
    BY <2>1 DEF KeyDisclosure, Denials, Events, Embeds, NotApplicable, Result
<1>3. CASE a.oracle = "application_writer_impersonation"
  <2>1. Assess(s, a, ev) = Impersonation(s, a, ev) /\ Assess(s, a, ev2) = Impersonation(s, a, ev2)
    BY <1>3, Assessed
  <2> QED
    BY <2>1 DEF Impersonation, Events, Embeds, Conclude, NotApplicable, Result
<1>4. CASE a.oracle = "key_scope_separation"
  <2>1. Assess(s, a, ev) = KeyScope(s, a, ev) /\ Assess(s, a, ev2) = KeyScope(s, a, ev2)
    BY <1>4, Assessed
  <2> DEFINE Scoped(e) == /\ e.kind = "key_material.observed" /\ e.outcome = "observed"
                           /\ Selects(a.key_class, e.key_class) /\ Selects(a.phase, e.phase)
                           /\ Selects(a.endpoint_class, e.endpoint_class)
                           /\ Selects(Semantics(a), e.semantics)
                           /\ e.fingerprint # None /\ e[a.scope] # None
             Collide(e, f) == /\ Scoped(e) /\ Scoped(f)
                              /\ e.fingerprint = f.fingerprint /\ e[a.scope] # f[a.scope]
  <2>2. \E i, j \in DOMAIN ev : Collide(ev[i], ev[j])
    BY <2>1 DEF KeyScope, Events, Conclude, NotApplicable, Result
  <2>3. \E i, j \in DOMAIN ev2 : Collide(ev2[i], ev2[j])
    <3> HIDE DEF Collide
    <3> QED BY <2>2 DEF Embeds
  <2> QED
    BY <2>1, <2>3 DEF KeyScope, Events, Conclude, Result
<1>5. CASE a.oracle = "policy_authorization_consistency"
  <2>1. Assess(s, a, ev) = PolicyConsistency(s, a, ev) /\ Assess(s, a, ev2) = PolicyConsistency(s, a, ev2)
    BY <1>5, Assessed
  <2> QED
    BY <2>1 DEF PolicyConsistency, Events, Embeds, Conclude, NotApplicable, Result
<1>6. CASE a.oracle = "session_rotation_delivery"
  <2>1. Assess(s, a, ev) = SessionRotation(s, a, ev) /\ Assess(s, a, ev2) = SessionRotation(s, a, ev2)
    BY <1>6, Assessed
  <2>2. /\ {a.writer, a.reader} \subseteq s.participants
        /\ ~(Cardinality(Rotations(a, ev)) < a.minimum)
        /\ \E r \in Rotations(a, ev) : ~Advances(ev[r])
    BY <2>1 DEF SessionRotation, NotApplicable, Result
  <2>3. ~(Cardinality(Rotations(a, ev2)) < a.minimum)
    BY <2>2, <1>6, RotationsEmbed
  <2>4. \E r \in Rotations(a, ev2) : ~Advances(ev2[r])
    BY <2>2 DEF Rotations, Events, Embeds
  <2> QED
    BY <2>1, <2>2, <2>3, <2>4 DEF SessionRotation, Result
<1> QED
  BY <1>1, <1>2, <1>3, <1>4, <1>5, <1>6 DEF Persistent

-----------------------------------------------------------------------------
\* A status that depends on what was seen, whatever the order and the number.
LEMMA StatusOfSeen ==
    ASSUME NEW s, NEW a, a.oracle \in OrderFree \ {"endpoint_key_lifecycle"},
           NEW ev, NEW ev2, Range(ev) = Range(ev2)
    PROVE  Assess(s, a, ev).status = Assess(s, a, ev2).status
<1>0. /\ \A i \in DOMAIN ev : \E j \in DOMAIN ev2 : ev2[j] = ev[i]
      /\ \A j \in DOMAIN ev2 : \E i \in DOMAIN ev : ev[i] = ev2[j]
  <2>1. /\ \A i \in DOMAIN ev : ev[i] \in Range(ev2)
        /\ \A j \in DOMAIN ev2 : ev2[j] \in Range(ev)
    BY DEF Range
  <2> QED
    BY <2>1 DEF Range
<1>1. CASE a.oracle = "crypto_token_recipient_binding"
  <2> DEFINE Seen(e) == /\ e.kind = "crypto_token.observed"
                         /\ Selects(a.observer, e.actor) /\ Selects(a.token_class, e.token_class)
             Misaddressed(e) == Seen(e) /\ None \notin {e.local, e.destination} /\ e.local # e.destination
  <2>1. ASSUME NEW v
        PROVE  Assess(s, a, v).status =
                    IF \E i \in DOMAIN v : Misaddressed(v[i]) THEN "violation"
                    ELSE IF \E i \in DOMAIN v : Seen(v[i]) THEN "pass" ELSE "not_applicable"
    <3>1. Assess(s, a, v) = RecipientBinding(s, a, v)
      BY <1>1, Assessed
    <3> QED
      BY <3>1 DEF RecipientBinding, Events, Conclude, NotApplicable, Result
  <2> HIDE DEF Seen, Misaddressed
  <2> QED
    BY <2>1, <1>0
<1>2. CASE a.oracle = "unauthorized_key_disclosure"
  <2>1. Assess(s, a, ev) = KeyDisclosure(s, a, ev) /\ Assess(s, a, ev2) = KeyDisclosure(s, a, ev2)
    BY <1>2, Assessed
  <2> DEFINE Denial(e) == e.actor = a.actor /\ e.kind = "access_control.decision" /\ e.outcome = "denied"
             Key(e) == /\ e.actor = a.actor /\ e.kind = "key_material.observed" /\ e.outcome = "observed"
                       /\ \/ e.keyPresent
                          \/ e.phase = "received" /\ e.endpoint_class = "user" /\ e.fingerprint # None
  <2>2. ASSUME NEW v
        PROVE  KeyDisclosure(s, a, v).status =
                 IF (\A i \in DOMAIN v : ~Denial(v[i])) /\ HasAnyPermission(s, a.actor, "subscribe")
                 THEN "not_applicable"
                 ELSE IF \E i \in DOMAIN v : Key(v[i]) THEN "violation" ELSE "pass"
    BY DEF KeyDisclosure, Denials, Events, NotApplicable, Result
  <2> HIDE DEF Denial, Key
  <2> QED
    BY <2>1, <2>2, <1>0
<1>3. CASE a.oracle = "application_writer_impersonation"
  <2> DEFINE Attempt(e) == /\ e.kind \in {"capability.forge", "network.packet_sent"}
                            /\ Selects(a.attacker, e.actor) /\ e.outcome = "succeeded" /\ e.controlled
             Delivery(e) == /\ e.kind = "application.sample_received"
                            /\ Selects(a.receiver, e.actor) /\ e.outcome = "received" /\ e.controlled
  <2>1. ASSUME NEW v
        PROVE  Assess(s, a, v).status =
                    IF \E i \in DOMAIN v : Delivery(v[i]) THEN "violation"
                    ELSE IF \E i \in DOMAIN v : Attempt(v[i]) THEN "pass" ELSE "not_applicable"
    <3>1. Assess(s, a, v) = Impersonation(s, a, v)
      BY <1>3, Assessed
    <3> QED
      BY <3>1 DEF Impersonation, Events, Conclude, NotApplicable, Result
  <2> HIDE DEF Attempt, Delivery
  <2> QED
    BY <2>1, <1>0
<1>4. CASE a.oracle = "key_scope_separation"
  <2> DEFINE Scoped(e) == /\ e.kind = "key_material.observed" /\ e.outcome = "observed"
                           /\ Selects(a.key_class, e.key_class) /\ Selects(a.phase, e.phase)
                           /\ Selects(a.endpoint_class, e.endpoint_class)
                           /\ Selects(Semantics(a), e.semantics)
                           /\ e.fingerprint # None /\ e[a.scope] # None
             Collide(e, f) == /\ Scoped(e) /\ Scoped(f)
                              /\ e.fingerprint = f.fingerprint /\ e[a.scope] # f[a.scope]
  <2>1. ASSUME NEW v
        PROVE  Assess(s, a, v).status =
                    IF \E i, j \in DOMAIN v : Collide(v[i], v[j]) THEN "violation"
                    ELSE IF \E i \in DOMAIN v : Scoped(v[i]) THEN "pass" ELSE "not_applicable"
    <3>1. Assess(s, a, v) = KeyScope(s, a, v)
      BY <1>4, Assessed
    <3> QED
      BY <3>1 DEF KeyScope, Events, Conclude, NotApplicable, Result
  <2> HIDE DEF Scoped, Collide
  <2> QED
    BY <2>1, <1>0
<1>5. CASE a.oracle = "policy_authorization_consistency"
  <2> DEFINE Decision(e) == /\ e.kind = "access_control.decision" /\ Selects(a.actor, e.actor)
                             /\ e.operation \in DOMAIN PermissionOf /\ e.topic # None
                             /\ Selects(Normalized(a.operation), PermissionOf[e.operation])
             Overgrant(e) == /\ Decision(e) /\ e.outcome = "allowed"
                             /\ ~IsPermitted(s, e.actor, e.operation, e.topic)
  <2>1. ASSUME NEW v
        PROVE  Assess(s, a, v).status =
                    IF \E i \in DOMAIN v : Overgrant(v[i]) THEN "violation"
                    ELSE IF \E i \in DOMAIN v : Decision(v[i]) THEN "pass" ELSE "not_applicable"
    <3>1. Assess(s, a, v) = PolicyConsistency(s, a, v)
      BY <1>5, Assessed
    <3> QED
      BY <3>1 DEF PolicyConsistency, Events, Conclude, NotApplicable, Result
  <2> HIDE DEF Decision, Overgrant
  <2> QED
    BY <2>1, <1>0
<1>6. CASE a.oracle = "crypto_token_transport_consistency"
  <2> DEFINE Routed(e) == /\ e.kind = "key_material.observed" /\ e.outcome = "observed"
                           /\ e.phase \in {"generated", "received"}
                           /\ None \notin {e.fingerprint, e.local, e.destination, e.endpoints}
                           /\ Selects(a.token_class, e.token_class)
             Generated(e) == Routed(e) /\ e.phase = "generated" /\ e.local # e.destination
             Received(e) == Routed(e) /\ e.phase = "received"
             Stray(v, e) == Received(e) /\ \A g \in DOMAIN v : Generated(v[g]) => Route(v[g]) # Route(e)
             Unmatched(v, e) == Generated(e) /\ \A i \in DOMAIN v : Received(v[i]) => Route(v[i]) # Route(e)
             Misrouted(v, e) ==
                /\ Stray(v, e)
                /\ \E g \in DOMAIN v : Generated(v[g]) /\ v[g].fingerprint = e.fingerprint
  <2>1. ASSUME NEW v
        PROVE  Assess(s, a, v).status =
                    IF \E i \in DOMAIN v : Misrouted(v, v[i]) THEN "violation"
                    ELSE IF \E i \in DOMAIN v : Stray(v, v[i]) \/ (a.require_all /\ Unmatched(v, v[i]))
                    THEN "not_applicable"
                    ELSE IF \E i \in DOMAIN v : Generated(v[i]) \/ Received(v[i])
                    THEN "pass" ELSE "not_applicable"
    <3>1. Assess(s, a, v) = TokenTransport(s, a, v)
      BY <1>6, Assessed
    <3> QED
      BY <3>1 DEF TokenTransport, Events, Conclude, NotApplicable, Result
  <2>2. \A e : /\ Stray(ev, e) <=> Stray(ev2, e)
               /\ Unmatched(ev, e) <=> Unmatched(ev2, e)
               /\ Misrouted(ev, e) <=> Misrouted(ev2, e)
    <3> HIDE DEF Generated, Received
    <3> QED BY <1>0
  <2> HIDE DEF Generated, Received, Stray, Unmatched, Misrouted
  <2> QED
    BY <2>1, <2>2, <1>0
<1>7. CASE a.oracle = "observer_health"
  <2>1. Assess(s, a, ev) = ObserverHealth(s, a, ev) /\ Assess(s, a, ev2) = ObserverHealth(s, a, ev2)
    BY <1>7, Assessed
  <2> QED
    BY <2>1, <1>0 DEF ObserverHealth, Events, Conclude, NotApplicable, Result
<1> QED
  BY <1>1, <1>2, <1>3, <1>4, <1>5, <1>6, <1>7 DEF OrderFree

\* The same events, those of each actor in the same order.
Rearranges(m, ev, ev2) ==
    /\ Embeds(m, ev, ev2)
    /\ \A j \in DOMAIN ev2 : \E i \in DOMAIN ev : m[i] = j
    /\ \A i, j \in DOMAIN ev : i < j /\ ev[i].actor = ev[j].actor => m[i] < m[j]

\* Such a rearrangement has the same events, and can be undone.
LEMMA RearrangedBack ==
    ASSUME NEW ev, NEW ev2, NEW m, Rearranges(m, ev, ev2)
    PROVE  /\ Range(ev) = Range(ev2)
           /\ \E m2 : Embeds(m2, ev2, ev)
<1>1. Range(ev) = Range(ev2)
  BY DEF Range, Rearranges, Embeds
<1> DEFINE back == [j \in DOMAIN ev2 |-> CHOOSE i \in DOMAIN ev : m[i] = j]
<1>2. \A j \in DOMAIN ev2 : back[j] \in DOMAIN ev /\ m[back[j]] = j
  BY DEF Rearranges
<1>3. back \in [DOMAIN ev2 -> DOMAIN ev]
  BY <1>2
<1> HIDE DEF back
<1>4. Embeds(back, ev2, ev)
  BY <1>2, <1>3 DEF Rearranges, Embeds
<1> QED
  BY <1>1, <1>4

\* The oracle that orders the events of one actor.
LEMMA LifecycleRearranged ==
    ASSUME NEW s, NEW a, NEW S, NEW ev \in Seq(S), NEW ev2 \in Seq(S), NEW m, Rearranges(m, ev, ev2)
    PROVE  EndpointLifecycle(s, a, ev).status = EndpointLifecycle(s, a, ev2).status
<1> DEFINE B(v) == Boundaries(a, v)
           first(v) == CHOOSE i \in B(v) : TRUE
           Key(e) == /\ e.actor = a.actor /\ e.kind = "key_material.observed"
                     /\ e.token_class = a.token_class /\ e.endpoint_class = a.endpoint_class
                     /\ e.phase = a.phase /\ e.fingerprint # None
           keys(v) == {i \in DOMAIN v : Key(v[i])}
           pre(v) == {v[i].fingerprint : i \in {k \in keys(v) : k < first(v)}}
           post(v) == {v[i].fingerprint : i \in {k \in keys(v) : k > first(v)}}
<1>1. ASSUME NEW v
      PROVE  EndpointLifecycle(s, a, v).status =
                IF a.actor \notin s.participants \/ Cardinality(B(v)) # 1 \/ pre(v) = {} \/ post(v) = {}
                THEN "not_applicable"
                ELSE IF \E i \in keys(v) : v[i].fingerprint \in pre(v) \cap post(v)
                THEN "violation" ELSE "pass"
  BY DEF EndpointLifecycle, Events, NotApplicable, Result
<1>2. /\ DOMAIN ev = 1..Len(ev) /\ DOMAIN ev2 = 1..Len(ev2)
      /\ Len(ev) \in Nat /\ Len(ev2) \in Nat
      /\ m \in [DOMAIN ev -> DOMAIN ev2]
      /\ \A i, j \in DOMAIN ev : m[i] = m[j] => i = j
      /\ \A i \in DOMAIN ev : ev2[m[i]] = ev[i]
      /\ \A j \in DOMAIN ev2 : \E i \in DOMAIN ev : m[i] = j
      /\ \A i, j \in DOMAIN ev : i < j /\ ev[i].actor = ev[j].actor => m[i] < m[j]
  BY DEF Rearranges, Embeds
<1>3. IsFiniteSet(B(ev)) /\ IsFiniteSet(B(ev2)) /\ B(ev) \subseteq DOMAIN ev /\ B(ev2) \subseteq DOMAIN ev2
  <2>1. IsFiniteSet(DOMAIN ev) /\ IsFiniteSet(DOMAIN ev2)
    BY <1>2, FS_Interval
  <2>2. B(ev) \subseteq DOMAIN ev /\ B(ev2) \subseteq DOMAIN ev2
    BY DEF Boundaries, Events
  <2> QED
    BY <2>1, <2>2, FS_Subset
<1>4. \A i \in DOMAIN ev : i \in B(ev) <=> m[i] \in B(ev2)
  BY <1>2 DEF Boundaries, Events
<1>5. \A b : B(ev) = {b} => B(ev2) = {m[b]}
  BY <1>2, <1>3, <1>4
<1>6. \A j : B(ev2) = {j} => \E b \in DOMAIN ev : B(ev) = {b}
  BY <1>2, <1>3, <1>4
<1>7. Cardinality(B(ev)) = 1 <=> Cardinality(B(ev2)) = 1
  BY <1>3, <1>5, <1>6, FS_Singleton
<1>8. CASE Cardinality(B(ev)) # 1
  <2> HIDE DEF B, pre, post, keys
  <2> QED
    BY <1>1, <1>7, <1>8
<1>9. CASE Cardinality(B(ev)) = 1
  <2>1. PICK b \in DOMAIN ev : B(ev) = {b}
    BY <1>3, <1>9, FS_Singleton
  <2>2. B(ev2) = {m[b]} /\ first(ev) = b /\ first(ev2) = m[b]
    BY <1>5, <2>1
  <2> HIDE DEF first
  <2>3. ev[b].actor = a.actor
    BY <2>1 DEF Boundaries, Events
  <2>4. \A i \in DOMAIN ev : i \in keys(ev) <=> m[i] \in keys(ev2)
    BY <1>2
  <2>5. \A i \in keys(ev) : i \in DOMAIN ev /\ ev[i].actor = ev[b].actor
    BY <2>3
  <2> HIDE DEF Key
  <2>6. \A i \in keys(ev) : /\ i < b <=> m[i] < m[b]
                            /\ i > b <=> m[i] > m[b]
    <3> SUFFICES ASSUME NEW i \in keys(ev)
                 PROVE  /\ i < b <=> m[i] < m[b]
                        /\ i > b <=> m[i] > m[b]
      OBVIOUS
    <3>1. i \in DOMAIN ev /\ ev[i].actor = ev[b].actor
      BY <2>5
    <3>2. i < b => m[i] < m[b]
      BY <3>1, <1>2
    <3>3. b < i => m[b] < m[i]
      BY <3>1, <1>2
    <3>4. i \in Int /\ b \in Int /\ m[i] \in Int /\ m[b] \in Int
      BY <3>1, <1>2
    <3> QED
      BY <3>2, <3>3, <3>4
  <2>7. \A j \in keys(ev2) : \E i \in keys(ev) : m[i] = j
    BY <1>2, <2>4
  <2>8. pre(ev) = pre(ev2)
    BY <1>2, <2>2, <2>4, <2>6, <2>7
  <2>9. post(ev) = post(ev2)
    BY <1>2, <2>2, <2>4, <2>6, <2>7
  <2>10. {ev[i].fingerprint : i \in keys(ev)} = {ev2[i].fingerprint : i \in keys(ev2)}
    BY <1>2, <2>4, <2>7
  <2> HIDE DEF B, pre, post, keys
  <2>11. (\E i \in keys(ev) : ev[i].fingerprint \in pre(ev) \cap post(ev))
            <=> \E i \in keys(ev2) : ev2[i].fingerprint \in pre(ev2) \cap post(ev2)
    BY <2>8, <2>9, <2>10
  <2> QED
    BY <1>1, <1>7, <2>8, <2>9, <2>11
<1> QED
  BY <1>8, <1>9
-----------------------------------------------------------------------------
\* A list of the indexes of S, each once.
Lists(o, S) ==
    /\ o \in Seq(S)
    /\ \A x \in S : \E i \in DOMAIN o : o[i] = x
    /\ \A i, j \in DOMAIN o : o[i] = o[j] => i = j

\* The events at a list of indexes, and how the execution ended.
Listed(em, o, t) == [i \in DOMAIN o |-> em[o[i]]] \o t

\* Where those events are.
IsListed(em, o, t) ==
    /\ Len(o) \in Nat /\ DOMAIN o = 1..Len(o)
    /\ Len(t) \in Nat /\ DOMAIN t = 1..Len(t)
    /\ DOMAIN Listed(em, o, t) = 1..(Len(o) + Len(t))
    /\ \A i \in 1..Len(o) : Listed(em, o, t)[i] = em[o[i]]
    /\ \A i \in 1..(Len(o) + Len(t)) :
         i \notin 1..Len(o) => /\ i - Len(o) \in 1..Len(t)
                               /\ Listed(em, o, t)[i] = t[i - Len(o)]

\* Events listed at indexes, and then the end, are a sequence.
LEMMA ListedEvents ==
    ASSUME NEW A, NEW em \in Seq(A), NEW o \in Seq(DOMAIN em), NEW T, NEW t \in Seq(T)
    PROVE  Listed(em, o, t) \in Seq(A \cup T) /\ IsListed(em, o, t)
<1> DEFINE first == [i \in DOMAIN o |-> em[o[i]]]
<1>1. Len(o) \in Nat /\ DOMAIN o = 1..Len(o) /\ Len(t) \in Nat /\ DOMAIN t = 1..Len(t)
  OBVIOUS
<1>2. first \in [1..Len(o) -> A \cup T]
  BY <1>1
<1>3. first \in Seq(A \cup T) /\ Len(first) = Len(o)
  <2>1. first \in Seq(A \cup T)
    <3> HIDE DEF first
    <3> QED BY <1>1, <1>2, SeqDef
  <2> QED
    BY <1>1, <2>1
<1>4. t \in Seq(A \cup T)
  BY WiderSequence
<1>5. \A i \in 1..Len(o) : first[i] = em[o[i]]
  BY <1>1
<1> HIDE DEF first
<1>6. /\ first \o t \in Seq(A \cup T)
      /\ Len(first \o t) = Len(o) + Len(t)
      /\ \A i \in 1..Len(o) : (first \o t)[i] = em[o[i]]
      /\ \A i \in 1..(Len(o) + Len(t)) :
            i \notin 1..Len(o) => /\ i - Len(o) \in 1..Len(t)
                                  /\ (first \o t)[i] = t[i - Len(o)]
  <2>1. /\ first \o t \in Seq(A \cup T)
        /\ Len(first \o t) = Len(first) + Len(t)
        /\ \A i \in 1..(Len(first) + Len(t)) :
              (first \o t)[i] = IF i <= Len(first) THEN first[i] ELSE t[i - Len(first)]
    BY <1>3, <1>4, ConcatProperties
  <2> QED
    BY <2>1, <1>1, <1>3, <1>5
<1>7. DOMAIN (first \o t) = 1..(Len(o) + Len(t))
  BY <1>6
<1> QED
  BY <1>1, <1>6, <1>7 DEF Listed, IsListed, first

\* The event at i of a list is the one at m[i] of another.
Finds(m, em, o, o2, t) ==
    /\ \A i \in 1..Len(o) : m[i] \in 1..Len(o2) /\ o2[m[i]] = o[i]
    /\ \A i \in DOMAIN Listed(em, o, t) :
          i \notin 1..Len(o) => m[i] = i - Len(o) + Len(o2) /\ m[i] \notin 1..Len(o2)

\* A longer list, and an end where there was none, keep all events.
LEMMA ListedEmbed ==
    ASSUME NEW A, NEW em \in Seq(A), NEW T, NEW t \in Seq(T), NEW t2 \in Seq(T), t \in {<<>>, t2},
           NEW S, NEW S2, S \subseteq S2, S2 \subseteq DOMAIN em,
           NEW o, NEW o2, Lists(o, S), Lists(o2, S2)
    PROVE  \E m : Embeds(m, Listed(em, o, t), Listed(em, o2, t2)) /\ Finds(m, em, o, o2, t)
<1> DEFINE ev == Listed(em, o, t)
           ev2 == Listed(em, o2, t2)
           n == Len(o)
           n2 == Len(o2)
           place(x) == CHOOSE j \in DOMAIN o2 : o2[j] = x
           m == [i \in DOMAIN ev |-> IF i \in 1..n THEN place(o[i]) ELSE i - n + n2]
<1>1. o \in Seq(DOMAIN em) /\ o2 \in Seq(DOMAIN em)
  BY WiderSequence DEF Lists
<1>11. IsListed(em, o, t) /\ IsListed(em, o2, t2)
  BY <1>1, ListedEvents
<1>2. /\ n \in Nat /\ DOMAIN o = 1..n /\ Len(t) \in Nat /\ Len(t2) \in Nat
      /\ DOMAIN ev = 1..(n + Len(t))
      /\ \A i \in 1..n : ev[i] = em[o[i]]
      /\ \A i \in 1..(n + Len(t)) : i \notin 1..n => i - n \in 1..Len(t) /\ ev[i] = t[i - n]
  BY <1>11 DEF IsListed
<1>3. /\ n2 \in Nat /\ DOMAIN o2 = 1..n2
      /\ DOMAIN ev2 = 1..(n2 + Len(t2))
      /\ \A i \in 1..n2 : ev2[i] = em[o2[i]]
      /\ \A i \in 1..(n2 + Len(t2)) : i \notin 1..n2 => i - n2 \in 1..Len(t2) /\ ev2[i] = t2[i - n2]
  BY <1>11 DEF IsListed
<1> HIDE DEF ev, ev2, n, n2
<1>4. \A i \in 1..n : place(o[i]) \in 1..n2 /\ o2[place(o[i])] = o[i]
  <2>1. \A i \in 1..n : o[i] \in S2
    BY <1>2 DEF Lists
  <2>2. \A x \in S2 : place(x) \in DOMAIN o2 /\ o2[place(x)] = x
    BY DEF Lists
  <2> HIDE DEF place
  <2> QED
    BY <2>1, <2>2, <1>3
<1>5. t = <<>> \/ t = t2
  OBVIOUS
<1>6. \A i \in 1..(n + Len(t)) : i \notin 1..n =>
        /\ i - n + n2 \in 1..(n2 + Len(t2)) /\ i - n + n2 \notin 1..n2
        /\ ev2[i - n + n2] = ev[i]
  <2>1. Len(t) = 0 \/ t = t2
    BY <1>5
  <2> SUFFICES ASSUME NEW i \in 1..(n + Len(t)), i \notin 1..n
               PROVE  /\ i - n + n2 \in 1..(n2 + Len(t2)) /\ i - n + n2 \notin 1..n2
                      /\ ev2[i - n + n2] = ev[i]
    OBVIOUS
  <2>2. t = t2 /\ i - n \in 1..Len(t2) /\ ev[i] = t2[i - n]
    BY <2>1, <1>2
  <2>3. i - n + n2 \in 1..(n2 + Len(t2)) /\ i - n + n2 \notin 1..n2 /\ (i - n + n2) - n2 = i - n
    BY <2>2, <1>2, <1>3
  <2> QED
    BY <2>2, <2>3, <1>3
<1> HIDE DEF place
<1>7. \A i \in DOMAIN ev :
        /\ i \in 1..n => m[i] \in 1..n2 /\ o2[m[i]] = o[i]
        /\ i \notin 1..n => m[i] = i - n + n2 /\ m[i] \notin 1..n2
        /\ m[i] \in 1..(n2 + Len(t2))
        /\ ev2[m[i]] = ev[i]
  <2> SUFFICES ASSUME NEW i \in DOMAIN ev
               PROVE  /\ i \in 1..n => m[i] \in 1..n2 /\ o2[m[i]] = o[i]
                      /\ i \notin 1..n => m[i] = i - n + n2 /\ m[i] \notin 1..n2
                      /\ m[i] \in 1..(n2 + Len(t2))
                      /\ ev2[m[i]] = ev[i]
    OBVIOUS
  <2>1. CASE i \in 1..n
    <3>1. m[i] = place(o[i])
      BY <2>1
    <3>2. m[i] \in 1..n2 /\ o2[m[i]] = o[i]
      BY <2>1, <3>1, <1>4
    <3> HIDE DEF m
    <3>3. ev2[m[i]] = em[o[i]] /\ ev[i] = em[o[i]]
      BY <2>1, <3>2, <1>2, <1>3
    <3> QED
      BY <2>1, <3>2, <3>3, <1>3
  <2>2. CASE i \notin 1..n
    <3>1. m[i] = i - n + n2
      BY <2>2
    <3> HIDE DEF m
    <3> QED
      BY <2>2, <3>1, <1>2, <1>6
  <2> QED
    BY <2>1, <2>2
<1>8. m \in [DOMAIN ev -> DOMAIN ev2]
  BY <1>3, <1>7
<1> HIDE DEF m
<1>9. \A i, j \in DOMAIN ev : m[i] = m[j] => i = j
  <2> SUFFICES ASSUME NEW i \in DOMAIN ev, NEW j \in DOMAIN ev, m[i] = m[j]
               PROVE  i = j
    OBVIOUS
  <2>1. CASE i \in 1..n /\ j \in 1..n
    <3>1. o[i] = o[j]
      BY <2>1, <1>7
    <3> QED
      BY <2>1, <3>1, <1>2 DEF Lists
  <2>2. CASE i \notin 1..n /\ j \notin 1..n
    BY <2>2, <1>2, <1>3, <1>7
  <2> QED
    BY <2>1, <2>2, <1>7
<1>10. Embeds(m, ev, ev2)
  BY <1>7, <1>8, <1>9 DEF Embeds
<1>12. /\ \A i \in 1..n : m[i] \in 1..n2 /\ o2[m[i]] = o[i]
       /\ \A i \in DOMAIN ev : i \notin 1..n => m[i] = i - n + n2 /\ m[i] \notin 1..n2
  <2>1. \A i \in 1..n : i \in DOMAIN ev
    BY <1>2
  <2> QED
    BY <2>1, <1>7
<1> QED
  BY <1>10, <1>12 DEF Finds, ev, ev2, n, n2

\* The events of each actor are listed in the order they were written.
InOrder(em, o) ==
    \A i, j \in DOMAIN o : i < j /\ em[o[i]].actor = em[o[j]].actor => o[i] < o[j]

\* Two such lists of the same events are rearrangements of each other.
LEMMA ListedRearrange ==
    ASSUME NEW A, NEW em \in Seq(A), NEW T, NEW t \in Seq(T), NEW S, S \subseteq DOMAIN em,
           NEW o, NEW o2, Lists(o, S), Lists(o2, S), InOrder(em, o), InOrder(em, o2)
    PROVE  \E m : /\ Rearranges(m, Listed(em, o, t), Listed(em, o2, t))
                  /\ Finds(m, em, o, o2, t)
<1> DEFINE ev == Listed(em, o, t)
           ev2 == Listed(em, o2, t)
           n == Len(o)
           n2 == Len(o2)
<1>0. PICK m : Embeds(m, ev, ev2) /\ Finds(m, em, o, o2, t)
  <2>1. t \in {<<>>, t} /\ S \subseteq S
    OBVIOUS
  <2> QED
    BY <2>1, ListedEmbed
<1>1. /\ Embeds(m, ev, ev2)
      /\ \A i \in 1..n : m[i] \in 1..n2 /\ o2[m[i]] = o[i]
      /\ \A i \in DOMAIN ev : i \notin 1..n => m[i] = i - n + n2 /\ m[i] \notin 1..n2
  BY <1>0 DEF Finds
<1>2. IsListed(em, o, t) /\ IsListed(em, o2, t)
  <2>1. o \in Seq(DOMAIN em) /\ o2 \in Seq(DOMAIN em)
    BY WiderSequence DEF Lists
  <2> QED
    BY <2>1, ListedEvents
<1>3. /\ n \in Nat /\ n2 \in Nat /\ Len(t) \in Nat /\ DOMAIN o = 1..n /\ DOMAIN o2 = 1..n2
      /\ DOMAIN ev = 1..(n + Len(t)) /\ DOMAIN ev2 = 1..(n2 + Len(t))
      /\ \A i \in 1..n : ev[i] = em[o[i]]
      /\ \A i \in 1..n2 : ev2[i] = em[o2[i]]
  BY <1>2 DEF IsListed
<1>4. /\ \A i \in 1..n : o[i] \in Int /\ i \in DOMAIN ev
      /\ \A i, j \in 1..n2 : o2[i] = o2[j] => i = j
  <2>1. \A i \in 1..n : o[i] \in DOMAIN em /\ i \in 1..(n + Len(t))
    BY <1>3 DEF Lists
  <2>2. \A x \in DOMAIN em : x \in Int
    OBVIOUS
  <2>3. \A i, j \in 1..n2 : o2[i] = o2[j] => i = j
    BY <1>3 DEF Lists
  <2> HIDE DEF n, n2, ev
  <2> QED
    BY <2>1, <2>2, <2>3, <1>3
<1> HIDE DEF ev, ev2, n, n2
<1>5. \A j \in DOMAIN ev2 : \E i \in DOMAIN ev : m[i] = j
  <2> SUFFICES ASSUME NEW j \in DOMAIN ev2 PROVE \E i \in DOMAIN ev : m[i] = j
    OBVIOUS
  <2>1. CASE j \in 1..n2
    <3>1. o2[j] \in S
      BY <2>1, <1>3 DEF Lists
    <3>2. PICK i \in 1..n : o[i] = o2[j]
      BY <3>1, <1>3 DEF Lists
    <3>3. m[i] \in 1..n2 /\ o2[m[i]] = o2[j]
      BY <3>2, <1>1
    <3>4. m[i] = j
      BY <2>1, <3>3, <1>4
    <3> QED
      BY <3>4, <1>4
  <2>2. CASE j \notin 1..n2
    <3>1. j - n2 + n \in DOMAIN ev /\ j - n2 + n \notin 1..n
      BY <2>2, <1>3
    <3>2. m[j - n2 + n] = (j - n2 + n) - n + n2
      BY <3>1, <1>1
    <3>3. (j - n2 + n) - n + n2 = j
      BY <1>3
    <3> QED
      BY <3>1, <3>2, <3>3
  <2> QED
    BY <2>1, <2>2
<1>6. ASSUME NEW i \in DOMAIN ev, NEW j \in DOMAIN ev, i < j, ev[i].actor = ev[j].actor
      PROVE  m[i] < m[j]
  <2>1. CASE i \in 1..n /\ j \in 1..n
    <3>1. o[i] < o[j]
      BY <2>1, <1>3, <1>6 DEF InOrder
    <3>2. /\ m[i] \in 1..n2 /\ m[j] \in 1..n2
          /\ o2[m[i]] = o[i] /\ o2[m[j]] = o[j]
      BY <2>1, <1>1
    <3>3. em[o2[m[i]]].actor = em[o2[m[j]]].actor
      BY <2>1, <3>2, <1>3, <1>6
    <3>4. m[j] < m[i] => o[j] < o[i]
      BY <3>2, <3>3, <1>3 DEF InOrder
    <3>5. m[i] # m[j]
      BY <3>1, <3>2, <2>1, <1>4
    <3> QED
      BY <2>1, <3>1, <3>2, <3>4, <3>5, <1>3, <1>4
  <2>2. CASE i \in 1..n /\ j \notin 1..n
    BY <2>2, <1>1, <1>3
  <2>3. CASE i \notin 1..n
    <3>1. j \notin 1..n
      BY <2>3, <1>3, <1>6
    <3>2. m[i] = i - n + n2 /\ m[j] = j - n + n2
      BY <2>3, <3>1, <1>1
    <3> QED
      BY <3>2, <1>3, <1>6
  <2> QED
    BY <2>1, <2>2, <2>3
<1> QED
  BY <1>0, <1>1, <1>5, <1>6 DEF Rearranges, ev, ev2

-----------------------------------------------------------------------------
\* The orders the evidence may be in list what was read, each actor's in order.
LEMMA EvidenceLists ==
    ASSUME EvidenceInv
    PROVE  /\ emitted \in Seq(case.alphabet) /\ Range(read) \subseteq DOMAIN emitted
           /\ Lists(read, Range(read)) /\ InOrder(emitted, read)
           /\ Lists(Ascending(Range(read)), Range(read)) /\ InOrder(emitted, Ascending(Range(read)))
           /\ Lists(Order, Range(read)) /\ InOrder(emitted, Order)
           /\ Evidence = Listed(emitted, Order, tail)
           /\ Written = Listed(emitted, Ascending(Range(read)), tail)
<1> DEFINE S == Range(read)
<1>1. /\ emitted \in Seq(case.alphabet) /\ read \in Seq(1..Len(emitted))
      /\ InOrder(emitted, read)
  BY DEF EvidenceInv, LogsKept, InOrder
<1>2. S \subseteq 1..Len(emitted) /\ DOMAIN emitted = 1..Len(emitted) /\ Len(emitted) \in Nat
      /\ DOMAIN read = 1..Len(read) /\ Len(read) \in Nat /\ \A i \in DOMAIN read : read[i] \in S
  BY <1>1 DEF Range
<1>3. S \in SUBSET Int /\ IsFiniteSet(S)
  <2>1. IsFiniteSet(1..Len(emitted))
    BY <1>2, FS_Interval
  <2>2. IsFiniteSet(S)
    BY <2>1, <1>2, FS_Subset
  <2> QED
    BY <2>2, <1>2
<1>4. Lists(read, S)
  <2>1. read \in Seq(S)
    <3> HIDE DEF S
    <3>1. read \in [1..Len(read) -> S]
      BY <1>1, <1>2
    <3> QED BY <3>1, <1>2, SeqDef
  <2>2. \A x \in S : \E i \in DOMAIN read : read[i] = x
    BY DEF Range
  <2>3. ASSUME NEW i \in DOMAIN read, NEW j \in DOMAIN read, i < j
        PROVE  read[i] # read[j]
    BY <2>3, <1>1, <1>2 DEF InOrder
  <2>4. \A i, j \in DOMAIN read : read[i] = read[j] => i = j
    BY <2>3, <1>2
  <2> QED
    BY <2>1, <2>2, <2>4 DEF Lists
<1> HIDE DEF S
<1> DEFINE asc == Ascending(S)
           n == Cardinality(S)
<1>5. /\ n \in Nat /\ asc \in [1..n -> S]
      /\ \A x \in S : \E i \in 1..n : asc[i] = x
      /\ \A i, j \in 1..n : i < j => asc[i] < asc[j]
  BY <1>3, AscendingLists, FS_CardinalityType
<1> HIDE DEF asc, n
<1>6. Lists(asc, S)
  <2>1. asc \in Seq(S)
    BY <1>5, SeqDef
  <2>2. ASSUME NEW i \in 1..n, NEW j \in 1..n, asc[i] = asc[j] PROVE i = j
    <3>1. asc[i] \in Int /\ asc[j] \in Int
      BY <1>3, <1>5
    <3> QED
      BY <3>1, <2>2, <1>5
  <2> QED
    BY <2>1, <2>2, <1>5 DEF Lists
<1>7. InOrder(emitted, asc)
  BY <1>5 DEF InOrder
<1>8. Order = asc \/ Order = read
  BY DEF Order, asc, S
<1>9. Evidence = Listed(emitted, Order, tail) /\ Written = Listed(emitted, asc, tail)
  BY DEF Evidence, Written, Listed, asc, S
<1> QED
  BY <1>1, <1>2, <1>4, <1>6, <1>7, <1>8, <1>9 DEF S, asc

\* The evidence, and what it is when it is put into the order of writing.
LEMMA EvidenceRearranges ==
    ASSUME EvidenceInv
    PROVE  /\ \E m : Rearranges(m, Evidence, Written)
           /\ Evidence \in Seq(case.alphabet \cup Range(tail))
           /\ Written \in Seq(case.alphabet \cup Range(tail))
<1>1. tail \in Seq(Range(tail))
  BY DEF EvidenceInv, EndKept
<1> DEFINE asc == Ascending(Range(read))
           S == Range(read)
<1>2. /\ emitted \in Seq(case.alphabet) /\ S \subseteq DOMAIN emitted
      /\ Lists(asc, S) /\ InOrder(emitted, asc)
      /\ Lists(Order, S) /\ InOrder(emitted, Order)
      /\ Evidence = Listed(emitted, Order, tail)
      /\ Written = Listed(emitted, asc, tail)
  BY EvidenceLists
<1> HIDE DEF asc, S
<1>3. \E m : Rearranges(m, Evidence, Written)
  BY <1>1, <1>2, ListedRearrange
<1>4. asc \in Seq(DOMAIN emitted) /\ Order \in Seq(DOMAIN emitted)
  BY <1>2, WiderSequence DEF Lists
<1>5. Evidence \in Seq(case.alphabet \cup Range(tail)) /\ Written \in Seq(case.alphabet \cup Range(tail))
  BY <1>1, <1>2, <1>4, ListedEvents
<1> QED
  BY <1>3, <1>5

\* The order in which the logs are read changes no status of an oracle that does
\* not compare the order of actors, and accuses no session rotation.
THEOREM ReadingOrderIsHarmless == Spec => []ReadingOrderHarmless
<1>1. EvidenceInv => ReadingOrderHarmless
  <2> SUFFICES ASSUME EvidenceInv, NEW a \in case.assertions
               PROVE  /\ a.oracle \in OrderFree => Status(a, Evidence) = Status(a, Written)
                      /\ a.oracle = "session_rotation_delivery" =>
                            (Status(a, Evidence) = "violation" <=> Status(a, Written) = "violation")
    BY DEF ReadingOrderHarmless
  <2> DEFINE S == case.alphabet \cup Range(tail)
  <2>1. PICK m : Rearranges(m, Evidence, Written)
    BY EvidenceRearranges
  <2>2. Evidence \in Seq(S) /\ Written \in Seq(S)
    BY EvidenceRearranges
  <2>3. Embeds(m, Evidence, Written)
    BY <2>1 DEF Rearranges
  <2>4. Range(Evidence) = Range(Written) /\ \E m2 : Embeds(m2, Written, Evidence)
    BY <2>1, RearrangedBack
  <2>5. PICK m2 : Embeds(m2, Written, Evidence)
    BY <2>4
  <2> HIDE DEF S
  <2>6. CASE a.oracle \in OrderFree \ {"endpoint_key_lifecycle"}
    <3>1. Assess(case.scenario, a, Evidence).status = Assess(case.scenario, a, Written).status
      BY <2>4, <2>6, StatusOfSeen
    <3>2. a.oracle # "session_rotation_delivery"
      BY <2>6 DEF OrderFree
    <3> QED
      BY <3>1, <3>2 DEF Status
  <2>7. CASE a.oracle = "endpoint_key_lifecycle"
    <3>1. EndpointLifecycle(case.scenario, a, Evidence).status = EndpointLifecycle(case.scenario, a, Written).status
      BY <2>1, <2>2, LifecycleRearranged
    <3> QED
      BY <2>7, <3>1, Assessed DEF Status
  <2>8. CASE a.oracle = "session_rotation_delivery"
    <3>1. a.minimum \in Int /\ a.oracle \in Persistent /\ a.oracle \notin OrderFree
      BY <2>8, EvaluationAssumption DEF EvidenceInv, Persistent, OrderFree
    <3>2. Status(a, Evidence) = "violation" => Status(a, Written) = "violation"
      BY <2>2, <2>3, <3>1, ViolationsEmbed DEF Status
    <3>3. Status(a, Written) = "violation" => Status(a, Evidence) = "violation"
      BY <2>2, <2>5, <3>1, ViolationsEmbed DEF Status
    <3> QED
      BY <3>1, <3>2, <3>3
  <2> QED
    BY <2>6, <2>7, <2>8
<1> QED
  BY <1>1, EvidenceInvariant, PTL

\* The evidence lists what was read.
EvidenceListed ==
    /\ emitted \in Seq(case.alphabet) /\ Range(read) \subseteq DOMAIN emitted
    /\ Lists(Order, Range(read)) /\ tail \in Seq(Range(tail))
    /\ Evidence = Listed(emitted, Order, tail)

\* The evidence invariant makes it so.
LEMMA EvidenceIsListed == EvidenceInv => EvidenceListed
<1> SUFFICES ASSUME EvidenceInv PROVE EvidenceListed
  OBVIOUS
<1>1. tail \in Seq(Range(tail))
  BY DEF EvidenceInv, EndKept
<1> QED
  BY <1>1, EvidenceLists DEF EvidenceListed

\* A step changes no event that was read and takes none back.
LEMMA StepsAdd ==
    ASSUME EvidenceInv, [Next]_vars
    PROVE  /\ case' = case
           /\ Range(read) \subseteq Range(read')
           /\ \A k \in DOMAIN emitted : emitted'[k] = emitted[k]
           /\ tail \in {<<>>, tail'}
<1>1. /\ emitted \in Seq(case.alphabet) /\ read \in Seq(1..Len(emitted))
      /\ unread \in [Actors -> Seq(1..Len(emitted))]
  BY DEF EvidenceInv, LogsKept
<1>2. CASE UNCHANGED vars
  BY <1>2 DEF vars
<1>3. ASSUME NEW e \in case.alphabet, Emit(e)
      PROVE  /\ case' = case /\ read' = read /\ tail' = tail
             /\ \A k \in DOMAIN emitted : emitted'[k] = emitted[k]
  BY <1>1, <1>3 DEF Emit
<1>4. ASSUME NEW actor \in Actors, Poll(actor)
      PROVE  /\ case' = case /\ Range(read) \subseteq Range(read')
             /\ emitted' = emitted /\ tail' = tail
  <2>1. unread[actor] \in Seq(1..Len(emitted)) /\ read' = read \o unread[actor]
    BY <1>1, <1>4 DEF Poll
  <2> DEFINE u == unread[actor]
  <2> HIDE DEF u
  <2>2. \A i \in DOMAIN read : i \in DOMAIN (read \o u) /\ (read \o u)[i] = read[i]
    BY <1>1, <2>1 DEF u
  <2>3. Range(read) \subseteq Range(read')
    BY <2>1, <2>2 DEF Range, u
  <2> QED
    BY <1>4, <2>3 DEF Poll
<1>5. ASSUME NEW failed, Complete(failed)
      PROVE  case' = case /\ read' = read /\ emitted' = emitted /\ tail = <<>>
  BY <1>5 DEF Complete, Running
<1>6. ASSUME NEW launched, NEW affected, NEW failed, Diverge(launched, failed, affected)
      PROVE  case' = case /\ read' = read /\ emitted' = emitted /\ tail = <<>>
  BY <1>6 DEF Diverge, Running
<1>7. CASE \E e \in case.alphabet : Emit(e)
  BY <1>3, <1>7
<1>8. CASE \E actor \in Actors : Poll(actor)
  BY <1>4, <1>8
<1>9. CASE \/ \E failed \in Failures(Actors) : Complete(failed)
           \/ \E launched \in DOMAIN case.roles, affected \in Actors \cup {None} :
                 \E failed \in Failures({case.roles[i] : i \in 1..launched}) :
                    Diverge(launched, failed, affected)
  BY <1>5, <1>6, <1>9
<1> QED
  BY <1>2, <1>7, <1>8, <1>9 DEF Next

\* What a step adds to the evidence takes no accusation of these oracles back.
THEOREM AccusationsStay == Spec => ViolationStays
<1>1. ASSUME EvidenceInv, EvidenceInv', [Next]_vars
      PROVE  /\ \E m : Embeds(m, Evidence, Evidence')
             /\ \E S : Evidence \in Seq(S) /\ Evidence' \in Seq(S)
  <2> DEFINE S == Range(read)
             T == Range(tail')
             A == case'.alphabet
  <2>1. EvidenceListed
    BY <1>1, EvidenceIsListed
  <2>2. EvidenceListed'
    <3>1. EvidenceInv' => EvidenceListed'
      BY EvidenceIsListed, PTL
    <3> QED
      BY <1>1, <3>1
  <2>3. /\ S \subseteq Range(read')
        /\ \A k \in DOMAIN emitted : emitted'[k] = emitted[k]
        /\ tail \in {<<>>, tail'}
    BY <1>1, StepsAdd
  <2>4. /\ emitted' \in Seq(A) /\ Range(read') \subseteq DOMAIN emitted'
        /\ Lists(Order', Range(read')) /\ tail' \in Seq(T)
        /\ Evidence' = Listed(emitted', Order', tail')
    BY <2>2 DEF EvidenceListed
  <2>5. Lists(Order, S) /\ S \subseteq DOMAIN emitted
    BY <2>1 DEF EvidenceListed
  <2>6. Evidence = Listed(emitted', Order, tail)
    <3>1. \A i \in DOMAIN Order : emitted[Order[i]] = emitted'[Order[i]]
      BY <2>3, <2>5 DEF Lists
    <3> QED
      BY <2>1, <3>1 DEF EvidenceListed, Listed
  <2> HIDE DEF S, T, A
  <2>7. tail \in Seq(T)
    <3>1. CASE tail = <<>>
      BY <3>1, EmptySeq
    <3>2. CASE tail = tail'
      BY <3>2, <2>4
    <3> QED
      BY <3>1, <3>2, <2>3
  <2>8. \E m : Embeds(m, Listed(emitted', Order, tail), Listed(emitted', Order', tail'))
    BY <2>3, <2>4, <2>5, <2>7, ListedEmbed
  <2>9. Order \in Seq(DOMAIN emitted') /\ Order' \in Seq(DOMAIN emitted')
    <3>1. S \subseteq DOMAIN emitted'
      BY <2>3, <2>4
    <3> QED
      BY <3>1, <2>4, <2>5, WiderSequence DEF Lists
  <2>10. Evidence \in Seq(A \cup T) /\ Evidence' \in Seq(A \cup T)
    BY <2>4, <2>6, <2>7, <2>9, ListedEvents
  <2> QED
    BY <2>4, <2>6, <2>8, <2>10
<1>2. EvidenceInv /\ EvidenceInv' /\ [Next]_vars =>
        [\A a \in case.assertions :
            a.oracle \in Persistent /\ Status(a, Evidence) = "violation"
                => Status(a, Evidence') = "violation"]_vars
  <2> SUFFICES ASSUME EvidenceInv, EvidenceInv', [Next]_vars,
                      NEW a \in case.assertions, a.oracle \in Persistent,
                      Status(a, Evidence) = "violation"
               PROVE  Status(a, Evidence') = "violation"
    OBVIOUS
  <2>1. PICK m : Embeds(m, Evidence, Evidence')
    BY <1>1
  <2>2. PICK S : Evidence \in Seq(S) /\ Evidence' \in Seq(S)
    BY <1>1
  <2>3. a.oracle = "session_rotation_delivery" => a.minimum \in Int
    BY EvaluationAssumption DEF EvidenceInv
  <2>4. Assess(case.scenario, a, Evidence').status = "violation"
    BY <2>1, <2>2, <2>3, ViolationsEmbed DEF Status
  <2> QED
    BY <2>4 DEF Status
<1> QED
  BY <1>2, EvidenceInvariant, PTL DEF Spec, ViolationStays

\* A pass is given to whole executions only.
THEOREM PassesAreWhole == Spec => []PassIsWhole
<1>1. EvidenceInv => PassIsWhole
  <2> SUFFICES ASSUME EvidenceInv, ~Running, Verdict(Evidence) = "pass"
               PROVE  /\ Range(read) = DOMAIN emitted
                      /\ \A actor \in Actors : \E i \in DOMAIN tail :
                            tail[i] = [kind |-> "process.exit", actor |-> actor, outcome |-> "succeeded"]
                      /\ (\E a \in case.assertions : a.oracle = "observer_health") =>
                            Events(Evidence, LAMBDA e : e.kind = "probe.observer_error") = {}
    BY DEF PassIsWhole
  <2>1. /\ Failed(Evidence) = {} /\ Incomplete(Evidence) = {}
        /\ \A a \in case.assertions : Status(a, Evidence) # "not_applicable"
    BY DEF Verdict
  <2>2. /\ emitted \in Seq(case.alphabet) /\ Lists(Order, Range(read)) /\ Range(read) \subseteq DOMAIN emitted
        /\ Evidence = Listed(emitted, Order, tail)
        /\ tail \in Seq(Range(tail))
    BY EvidenceLists DEF EvidenceInv, EndKept
  <2>3. Order \in Seq(DOMAIN emitted)
    BY <2>2, WiderSequence DEF Lists
  <2>4. IsListed(emitted, Order, tail)
    BY <2>2, <2>3, ListedEvents
  <2>5. \A i \in DOMAIN tail : \E j \in DOMAIN Evidence : Evidence[j] = tail[i]
    <3> SUFFICES ASSUME NEW i \in 1..Len(tail)
                 PROVE  \E j \in DOMAIN Evidence : Evidence[j] = tail[i]
      BY <2>4 DEF IsListed
    <3>1. /\ Len(Order) + i \in 1..(Len(Order) + Len(tail))
          /\ Len(Order) + i \notin 1..Len(Order)
          /\ (Len(Order) + i) - Len(Order) = i
      BY <2>4 DEF IsListed
    <3> QED
      BY <3>1, <2>2, <2>4 DEF IsListed
  <2>6. tail[Len(tail)].kind # "execution.divergence"
    <3>1. Len(tail) \in DOMAIN tail
      BY <2>2 DEF Running
    <3>2. \A j \in DOMAIN Evidence : Evidence[j].kind # "execution.divergence"
      BY <2>1 DEF Incomplete, Diverged, Events
    <3> QED
      BY <3>1, <3>2, <2>5
  <2>7. PICK failed \in SUBSET Actors :
            tail = ExitEvents(case.roles, failed) /\ \A a \in Actors : unread[a] = <<>>
    BY <2>6 DEF EvidenceInv, EndKept
  <2>8. Range(read) = DOMAIN emitted
    <3>1. \A k \in 1..Len(emitted) : emitted[k].actor \in Actors
      BY <2>2, EvaluationAssumption DEF EvidenceInv, Actors
    <3>2. \A k \in 1..Len(emitted) : k \in Range(read)
      BY <2>7, <3>1 DEF EvidenceInv, LogsKept, Range
    <3>3. DOMAIN emitted = 1..Len(emitted)
      BY <2>2
    <3> QED
      BY <2>2, <3>2, <3>3
  <2>9. ASSUME NEW actor \in Actors
        PROVE  \E i \in DOMAIN tail :
                    tail[i] = [kind |-> "process.exit", actor |-> actor, outcome |-> "succeeded"]
    <3>1. PICK i \in DOMAIN case.roles : case.roles[i] = actor
      BY DEF Actors, Range
    <3>2. i \in DOMAIN tail /\
          tail[i] = [kind |-> "process.exit", actor |-> actor,
                     outcome |-> IF actor \in failed THEN "failed" ELSE "succeeded"]
      BY <2>7, <3>1 DEF ExitEvents
    <3>3. PICK j \in DOMAIN Evidence : Evidence[j] = tail[i]
      BY <3>2, <2>5
    <3>4. ~(Evidence[j].kind = "process.exit" /\ Evidence[j].outcome = "failed")
      BY <2>1 DEF Failed, Events
    <3> QED
      BY <3>2, <3>3, <3>4
  <2>10. ASSUME NEW a \in case.assertions, a.oracle = "observer_health"
         PROVE  Events(Evidence, LAMBDA e : e.kind = "probe.observer_error") = {}
    <3>1. ObserverHealth(case.scenario, a, Evidence).status # "not_applicable"
      BY <2>1, <2>10, Assessed DEF Status
    <3> QED
      BY <3>1 DEF ObserverHealth, NotApplicable, Result
  <2> QED
    BY <2>8, <2>9, <2>10
<1> QED
  BY <1>1, EvidenceInvariant, PTL

-----------------------------------------------------------------------------
(* The events a result cites, alone.                                       *)

\* A slice holds the events at some indexes, in their order: the one at i is from m[i].
IsSlice(m, slice, ev, cited) ==
    /\ cited \subseteq DOMAIN ev
    /\ m \in [DOMAIN slice -> cited]
    /\ \A c \in cited : \E i \in DOMAIN slice : m[i] = c
    /\ \A i, j \in DOMAIN slice : i < j <=> m[i] < m[j]
    /\ \A i \in DOMAIN slice : slice[i] = ev[m[i]]

LEMMA PartIsSlice ==
    ASSUME NEW S, NEW ev \in Seq(S), NEW cited \in SUBSET DOMAIN ev
    PROVE  /\ Part(ev, cited) \in Seq(S)
           /\ \E m : IsSlice(m, Part(ev, cited), ev, cited)
<1> DEFINE asc == Ascending(cited)
           n == Cardinality(cited)
           slice == Part(ev, cited)
<1>1. DOMAIN ev = 1..Len(ev) /\ Len(ev) \in Nat /\ \A i \in DOMAIN ev : ev[i] \in S
  OBVIOUS
<1>2. IsFiniteSet(cited) /\ cited \in SUBSET Int
  <2>1. IsFiniteSet(DOMAIN ev)
    BY <1>1, FS_Interval
  <2>2. IsFiniteSet(cited)
    BY <2>1, FS_Subset
  <2> QED
    BY <2>2, <1>1
<1>3. /\ n \in Nat /\ asc \in [1..n -> cited]
      /\ \A x \in cited : \E i \in 1..n : asc[i] = x
      /\ \A i, j \in 1..n : i < j => asc[i] < asc[j]
  BY <1>2, AscendingLists, FS_CardinalityType
<1>4. slice = [i \in DOMAIN asc |-> ev[asc[i]]]
  BY DEF Part
<1> HIDE DEF asc, n, slice
<1>5. DOMAIN slice = 1..n /\ \A i \in 1..n : slice[i] = ev[asc[i]] /\ slice[i] \in S
  BY <1>1, <1>3, <1>4
<1>6. slice \in Seq(S)
  <2>1. slice \in [1..n -> S]
    BY <1>3, <1>4, <1>5
  <2> QED
    BY <2>1, <1>3, SeqDef
<1>7. \A i, j \in 1..n : i < j <=> asc[i] < asc[j]
  <2> SUFFICES ASSUME NEW i \in 1..n, NEW j \in 1..n PROVE i < j <=> asc[i] < asc[j]
    OBVIOUS
  <2>1. asc[i] \in Int /\ asc[j] \in Int /\ i \in Int /\ j \in Int
    BY <1>2, <1>3
  <2>2. i < j => asc[i] < asc[j]
    BY <1>3
  <2>3. j < i => asc[j] < asc[i]
    BY <1>3
  <2> QED
    BY <2>1, <2>2, <2>3
<1>8. IsSlice(asc, slice, ev, cited)
  BY <1>3, <1>5, <1>7 DEF IsSlice
<1> QED
  BY <1>6, <1>8 DEF slice

\* What is seen in a slice is what is seen at the cited indexes.
LEMMA SliceShows ==
    ASSUME NEW m, NEW slice, NEW ev, NEW cited, IsSlice(m, slice, ev, cited)
    PROVE  /\ \A i \in DOMAIN slice : \E c \in cited : c \in DOMAIN ev /\ slice[i] = ev[c]
           /\ \A c \in cited : \E i \in DOMAIN slice : slice[i] = ev[c]
BY DEF IsSlice

\* The oracles that do not compare the order of events.
LEMMA SeenSuffices ==
    ASSUME NEW s, NEW a, a.oracle \in OrderFree \ {"endpoint_key_lifecycle"},
           NEW ev, NEW slice, NEW m, IsSlice(m, slice, ev, Assess(s, a, ev).cited),
           Assess(s, a, ev).status # "not_applicable"
    PROVE  Assess(s, a, slice).status = Assess(s, a, ev).status
<1> DEFINE cited == Assess(s, a, ev).cited
<1>0. /\ \A i \in DOMAIN slice : \E c \in cited : c \in DOMAIN ev /\ slice[i] = ev[c]
      /\ \A c \in cited : \E i \in DOMAIN slice : slice[i] = ev[c]
  BY SliceShows
<1> HIDE DEF cited
<1>1. CASE a.oracle = "crypto_token_recipient_binding"
  <2> DEFINE Seen(e) == /\ e.kind = "crypto_token.observed"
                         /\ Selects(a.observer, e.actor) /\ Selects(a.token_class, e.token_class)
             Misaddressed(e) == Seen(e) /\ None \notin {e.local, e.destination} /\ e.local # e.destination
  <2>1. ASSUME NEW v
        PROVE  Assess(s, a, v) = Conclude({i \in DOMAIN v : Misaddressed(v[i])}, {i \in DOMAIN v : Seen(v[i])})
    <3>1. Assess(s, a, v) = RecipientBinding(s, a, v)
      BY <1>1, Assessed
    <3>2. {i \in DOMAIN v : Misaddressed(v[i])} =
              {i \in {j \in DOMAIN v : Seen(v[j])} : None \notin {v[i].local, v[i].destination}
                                                       /\ v[i].local # v[i].destination}
      OBVIOUS
    <3> QED
      BY <3>1, <3>2 DEF RecipientBinding, Events
  <2>2. \A e : Misaddressed(e) => Seen(e)
    OBVIOUS
  <2> HIDE DEF Seen, Misaddressed
  <2> QED
    BY <2>1, <2>2, <1>0 DEF Conclude, NotApplicable, Result, cited
<1>2. CASE a.oracle = "unauthorized_key_disclosure"
  <2> DEFINE Denial(e) == e.actor = a.actor /\ e.kind = "access_control.decision" /\ e.outcome = "denied"
             Key(e) == /\ e.actor = a.actor /\ e.kind = "key_material.observed" /\ e.outcome = "observed"
                       /\ \/ e.keyPresent
                          \/ e.phase = "received" /\ e.endpoint_class = "user" /\ e.fingerprint # None
             denials(v) == {i \in DOMAIN v : Denial(v[i])}
             keys(v) == {i \in DOMAIN v : Key(v[i])}
  <2>1. ASSUME NEW v
        PROVE  Assess(s, a, v) =
                  IF denials(v) = {} /\ HasAnyPermission(s, a.actor, "subscribe") THEN NotApplicable({})
                  ELSE IF keys(v) # {} THEN Result("violation", denials(v) \cup keys(v))
                  ELSE Result("pass", denials(v))
    <3>1. Assess(s, a, v) = KeyDisclosure(s, a, v)
      BY <1>2, Assessed
    <3> QED
      BY <3>1 DEF KeyDisclosure, Denials, Events
  <2>2. \A e : ~(Denial(e) /\ Key(e))
    OBVIOUS
  <2> HIDE DEF Denial, Key
  <2> QED
    BY <2>1, <2>2, <1>0 DEF NotApplicable, Result, cited
<1>3. CASE a.oracle = "application_writer_impersonation"
  <2> DEFINE Attempt(e) == /\ e.kind \in {"capability.forge", "network.packet_sent"}
                            /\ Selects(a.attacker, e.actor) /\ e.outcome = "succeeded" /\ e.controlled
             Delivery(e) == /\ e.kind = "application.sample_received"
                            /\ Selects(a.receiver, e.actor) /\ e.outcome = "received" /\ e.controlled
  <2>1. ASSUME NEW v
        PROVE  Assess(s, a, v) = Conclude({i \in DOMAIN v : Delivery(v[i])}, {i \in DOMAIN v : Attempt(v[i])})
    <3>1. Assess(s, a, v) = Impersonation(s, a, v)
      BY <1>3, Assessed
    <3> QED
      BY <3>1 DEF Impersonation, Events
  <2>2. \A e : ~(Attempt(e) /\ Delivery(e))
    OBVIOUS
  <2> HIDE DEF Attempt, Delivery
  <2> QED
    BY <2>1, <2>2, <1>0 DEF Conclude, NotApplicable, Result, cited
<1>4. CASE a.oracle = "key_scope_separation"
  <2> DEFINE Scoped(e) == /\ e.kind = "key_material.observed" /\ e.outcome = "observed"
                           /\ Selects(a.key_class, e.key_class) /\ Selects(a.phase, e.phase)
                           /\ Selects(a.endpoint_class, e.endpoint_class)
                           /\ Selects(Semantics(a), e.semantics)
                           /\ e.fingerprint # None /\ e[a.scope] # None
             Collide(e, f) == e.fingerprint = f.fingerprint /\ e[a.scope] # f[a.scope]
             scoped(v) == {i \in DOMAIN v : Scoped(v[i])}
             collisions(v) == {i \in scoped(v) : \E j \in scoped(v) : Collide(v[i], v[j])}
  <2>1. ASSUME NEW v
        PROVE  Assess(s, a, v) = Conclude(collisions(v), scoped(v))
    <3>1. Assess(s, a, v) = KeyScope(s, a, v)
      BY <1>4, Assessed
    <3> QED
      BY <3>1 DEF KeyScope, Events
  <2>2. \A e, f : Collide(e, f) => Collide(f, e)
    OBVIOUS
  <2> HIDE DEF Scoped, Collide
  <2>3. CASE Assess(s, a, ev).status = "violation"
    <3>1. cited = collisions(ev) /\ collisions(ev) # {}
      BY <2>1, <2>3 DEF Conclude, NotApplicable, Result, cited
    <3>2. PICK i \in DOMAIN ev, j \in DOMAIN ev :
            Scoped(ev[i]) /\ Scoped(ev[j]) /\ Collide(ev[i], ev[j])
      BY <3>1
    <3>3. i \in cited /\ j \in cited
      BY <2>2, <3>1, <3>2
    <3>4. \E k, l \in DOMAIN slice : slice[k] = ev[i] /\ slice[l] = ev[j]
      BY <3>3, <1>0
    <3>5. collisions(slice) # {}
      BY <3>2, <3>4
    <3> QED
      BY <2>1, <2>3, <3>5 DEF Conclude, Result
  <2>4. CASE Assess(s, a, ev).status # "violation"
    <3>1. collisions(ev) = {} /\ cited = scoped(ev) /\ scoped(ev) # {} /\ Assess(s, a, ev).status = "pass"
      BY <2>1, <2>4 DEF Conclude, NotApplicable, Result, cited
    <3>2. scoped(slice) # {}
      BY <3>1, <1>0
    <3>3. collisions(slice) = {}
      BY <3>1, <1>0
    <3> QED
      BY <2>1, <3>1, <3>2, <3>3 DEF Conclude, Result
  <2> QED
    BY <2>3, <2>4
<1>5. CASE a.oracle = "policy_authorization_consistency"
  <2> DEFINE Decision(e) == /\ e.kind = "access_control.decision" /\ Selects(a.actor, e.actor)
                             /\ e.operation \in DOMAIN PermissionOf /\ e.topic # None
                             /\ Selects(Normalized(a.operation), PermissionOf[e.operation])
             Overgrant(e) == /\ Decision(e) /\ e.outcome = "allowed"
                             /\ ~IsPermitted(s, e.actor, e.operation, e.topic)
  <2>1. ASSUME NEW v
        PROVE  Assess(s, a, v) = Conclude({i \in DOMAIN v : Overgrant(v[i])}, {i \in DOMAIN v : Decision(v[i])})
    <3>1. Assess(s, a, v) = PolicyConsistency(s, a, v)
      BY <1>5, Assessed
    <3>2. {i \in DOMAIN v : Overgrant(v[i])} =
              {i \in {j \in DOMAIN v : Decision(v[j])} :
                    v[i].outcome = "allowed" /\ ~IsPermitted(s, v[i].actor, v[i].operation, v[i].topic)}
      OBVIOUS
    <3> QED
      BY <3>1, <3>2 DEF PolicyConsistency, Events
  <2>2. \A e : Overgrant(e) => Decision(e)
    OBVIOUS
  <2> HIDE DEF Decision, Overgrant
  <2> QED
    BY <2>1, <2>2, <1>0 DEF Conclude, NotApplicable, Result, cited
<1>6. CASE a.oracle = "crypto_token_transport_consistency"
  <2> DEFINE Routed(e) == /\ e.kind = "key_material.observed" /\ e.outcome = "observed"
                           /\ e.phase \in {"generated", "received"}
                           /\ None \notin {e.fingerprint, e.local, e.destination, e.endpoints}
                           /\ Selects(a.token_class, e.token_class)
             Generated(e) == Routed(e) /\ e.phase = "generated" /\ e.local # e.destination
             Received(e) == Routed(e) /\ e.phase = "received"
             generated(v) == {i \in DOMAIN v : Generated(v[i])}
             received(v) == {i \in DOMAIN v : Received(v[i])}
             stray(v) == {i \in received(v) : \A g \in generated(v) : Route(v[g]) # Route(v[i])}
             Origins(v, i) == {g \in generated(v) : v[g].fingerprint = v[i].fingerprint}
             misrouted(v) == {i \in stray(v) : Origins(v, i) # {}}
             unmatched(v) == {g \in generated(v) : \A i \in received(v) : Route(v[i]) # Route(v[g])}
             incomplete(v) == stray(v) \cup (IF a.require_all THEN unmatched(v) ELSE {})
  <2>1. ASSUME NEW v
        PROVE  Assess(s, a, v) =
                  IF misrouted(v) # {}
                  THEN Result("violation", misrouted(v) \cup UNION {Origins(v, i) : i \in misrouted(v)})
                  ELSE IF incomplete(v) # {} THEN NotApplicable(incomplete(v))
                  ELSE Conclude({}, generated(v) \cup received(v))
    <3>1. Assess(s, a, v) = TokenTransport(s, a, v)
      BY <1>6, Assessed
    <3> DEFINE routed == {i \in DOMAIN v : Routed(v[i])}
    <3>2. /\ generated(v) = {i \in routed : v[i].phase = "generated" /\ v[i].local # v[i].destination}
          /\ received(v) = {i \in routed : v[i].phase = "received"}
      OBVIOUS
    <3> HIDE DEF generated, received
    <3> QED
      BY <3>1, <3>2 DEF TokenTransport, Events
  <2>2. \A e : ~(Generated(e) /\ Received(e))
    OBVIOUS
  <2> HIDE DEF Generated, Received
  <2>3. CASE Assess(s, a, ev).status = "violation"
    <3>1. /\ cited = misrouted(ev) \cup UNION {Origins(ev, i) : i \in misrouted(ev)}
          /\ misrouted(ev) # {}
      BY <2>1, <2>3 DEF Conclude, NotApplicable, Result, cited
    <3>2. PICK i \in misrouted(ev) : TRUE
      BY <3>1
    <3>3. PICK g \in Origins(ev, i) : TRUE
      BY <3>2
    <3>4. i \in cited /\ g \in cited
      BY <3>1, <3>2, <3>3
    <3>5. PICK k \in DOMAIN slice, l \in DOMAIN slice : slice[k] = ev[i] /\ slice[l] = ev[g]
      BY <3>4, <1>0
    <3>6. k \in received(slice) /\ l \in Origins(slice, k)
      BY <3>2, <3>3, <3>5
    <3>7. k \in stray(slice)
      BY <3>2, <3>5, <3>6, <1>0
    <3>8. misrouted(slice) # {}
      BY <3>6, <3>7
    <3> HIDE DEF misrouted, incomplete
    <3> DEFINE told == misrouted(slice) \cup UNION {Origins(slice, j) : j \in misrouted(slice)}
    <3>9. Assess(s, a, slice) = Result("violation", told)
      BY <2>1, <3>8
    <3> HIDE DEF told
    <3> QED
      BY <2>3, <3>9 DEF Result
  <2>4. CASE Assess(s, a, ev).status # "violation"
    <3>1. /\ misrouted(ev) = {} /\ incomplete(ev) = {} /\ Assess(s, a, ev).status = "pass"
          /\ cited = generated(ev) \cup received(ev) /\ cited # {}
      BY <2>1, <2>4 DEF Conclude, NotApplicable, Result, cited
    <3>2. generated(slice) \cup received(slice) # {}
      BY <3>1, <1>0
    <3>3. stray(slice) = {}
      <4> SUFFICES ASSUME NEW i \in received(slice)
                   PROVE  \E g \in generated(slice) : Route(slice[g]) = Route(slice[i])
        OBVIOUS
      <4>1. PICK c \in DOMAIN ev : c \in received(ev) /\ ev[c] = slice[i]
        BY <1>0
      <4>2. PICK g \in generated(ev) : Route(ev[g]) = Route(ev[c])
        BY <3>1, <4>1
      <4>3. PICK l \in DOMAIN slice : slice[l] = ev[g]
        BY <3>1, <4>2, <1>0
      <4> QED
        BY <4>1, <4>2, <4>3
    <3>4. a.require_all => unmatched(slice) = {}
      <4> SUFFICES ASSUME a.require_all, NEW g \in generated(slice)
                   PROVE  \E i \in received(slice) : Route(slice[i]) = Route(slice[g])
        OBVIOUS
      <4>1. PICK c \in DOMAIN ev : c \in generated(ev) /\ ev[c] = slice[g]
        BY <1>0
      <4>2. PICK i \in received(ev) : Route(ev[i]) = Route(ev[c])
        BY <3>1, <4>1
      <4>3. PICK l \in DOMAIN slice : slice[l] = ev[i]
        BY <3>1, <4>2, <1>0
      <4> QED
        BY <4>1, <4>2, <4>3
    <3>5. misrouted(slice) = {} /\ incomplete(slice) = {}
      BY <3>3, <3>4
    <3> HIDE DEF misrouted, incomplete
    <3> DEFINE seen == generated(slice) \cup received(slice)
    <3>6. Assess(s, a, slice) = Conclude({}, seen) /\ seen # {}
      BY <2>1, <3>2, <3>5
    <3> HIDE DEF seen
    <3>7. Assess(s, a, slice).status = "pass"
      BY <3>6 DEF Conclude, Result
    <3> QED
      BY <3>1, <3>7
  <2> QED
    BY <2>3, <2>4
<1>7. CASE a.oracle = "observer_health"
  <2>1. ASSUME NEW v
        PROVE  Assess(s, a, v) =
                  IF \E i \in DOMAIN v : v[i].kind = "probe.observer_error"
                  THEN NotApplicable({i \in DOMAIN v : v[i].kind = "probe.observer_error"})
                  ELSE Conclude({}, {i \in DOMAIN v : v[i].kind = a.required})
    <3>1. Assess(s, a, v) = ObserverHealth(s, a, v)
      BY <1>7, Assessed
    <3> QED
      BY <3>1 DEF ObserverHealth, Events
  <2> QED
    BY <2>1, <1>0 DEF Conclude, NotApplicable, Result, cited
<1> QED
  BY <1>1, <1>2, <1>3, <1>4, <1>5, <1>6, <1>7 DEF OrderFree

\* The oracle that orders the events of one actor: the boundary and its keys.
LEMMA LifecycleSuffices ==
    ASSUME NEW s, NEW a, NEW S, NEW ev \in Seq(S), NEW slice \in Seq(S), NEW m,
           IsSlice(m, slice, ev, EndpointLifecycle(s, a, ev).cited),
           EndpointLifecycle(s, a, ev).status # "not_applicable"
    PROVE  EndpointLifecycle(s, a, slice).status = EndpointLifecycle(s, a, ev).status
<1> DEFINE cited == EndpointLifecycle(s, a, ev).cited
           B(v) == Boundaries(a, v)
           first(v) == CHOOSE i \in B(v) : TRUE
           Key(e) == /\ e.actor = a.actor /\ e.kind = "key_material.observed"
                     /\ e.token_class = a.token_class /\ e.endpoint_class = a.endpoint_class
                     /\ e.phase = a.phase /\ e.fingerprint # None
           keys(v) == {i \in DOMAIN v : Key(v[i])}
           pre(v) == {v[i].fingerprint : i \in {k \in keys(v) : k < first(v)}}
           post(v) == {v[i].fingerprint : i \in {k \in keys(v) : k > first(v)}}
           reused(v) == {i \in keys(v) : v[i].fingerprint \in pre(v) \cap post(v)}
<1>1. ASSUME NEW v
      PROVE  EndpointLifecycle(s, a, v) =
                IF a.actor \notin s.participants \/ Cardinality(B(v)) # 1 THEN NotApplicable({})
                ELSE IF pre(v) = {} \/ post(v) = {} THEN NotApplicable(keys(v) \cup {first(v)})
                ELSE IF reused(v) # {} THEN Result("violation", reused(v) \cup {first(v)})
                ELSE Result("pass", keys(v) \cup {first(v)})
  BY DEF EndpointLifecycle, Events
<1>2. /\ cited \subseteq DOMAIN ev
      /\ \A i \in DOMAIN slice : m[i] \in cited /\ m[i] \in DOMAIN ev /\ slice[i] = ev[m[i]]
      /\ \A c \in cited : \E i \in DOMAIN slice : m[i] = c
      /\ \A i, j \in DOMAIN slice : i < j <=> m[i] < m[j]
      /\ \A i \in DOMAIN slice : i \in Int
      /\ \A i \in DOMAIN ev : i \in Int
  BY DEF IsSlice
<1> HIDE DEF cited
<1>3. IsFiniteSet(B(ev)) /\ IsFiniteSet(B(slice))
  <2>1. IsFiniteSet(DOMAIN ev) /\ IsFiniteSet(DOMAIN slice)
    BY FS_Interval
  <2>2. B(ev) \subseteq DOMAIN ev /\ B(slice) \subseteq DOMAIN slice
    BY DEF Boundaries, Events
  <2> QED
    BY <2>1, <2>2, FS_Subset
<1>4. \A i \in DOMAIN slice : /\ i \in B(slice) <=> m[i] \in B(ev)
                              /\ i \in keys(slice) <=> m[i] \in keys(ev)
  BY <1>2 DEF Boundaries, Events
<1>5. \A v : B(v) \subseteq DOMAIN v /\ keys(v) \subseteq DOMAIN v
  BY DEF Boundaries, Events
<1> HIDE DEF B, Key
<1>6. /\ a.actor \in s.participants /\ Cardinality(B(ev)) = 1
      /\ pre(ev) # {} /\ post(ev) # {}
      /\ reused(ev) # {} => cited = reused(ev) \cup {first(ev)} /\ EndpointLifecycle(s, a, ev).status = "violation"
      /\ reused(ev) = {} => cited = keys(ev) \cup {first(ev)} /\ EndpointLifecycle(s, a, ev).status = "pass"
  <2> HIDE DEF first, pre, post, reused, keys
  <2> QED BY <1>1 DEF NotApplicable, Result, cited
<1>7. PICK b : B(ev) = {b}
  BY <1>3, <1>6, FS_Singleton
<1>8. first(ev) = b /\ b \in DOMAIN ev /\ b \in cited
  BY <1>5, <1>6, <1>7
<1>9. PICK k \in DOMAIN slice : m[k] = b
  BY <1>2, <1>8
<1>10. B(slice) = {k}
  <2>1. k \in B(slice)
    BY <1>4, <1>7, <1>9
  <2>2. ASSUME NEW j \in B(slice) PROVE j = k
    <3>1. j \in DOMAIN slice /\ m[j] = b
      BY <2>2, <1>4, <1>5, <1>7
    <3>2. ~(j < k) /\ ~(k < j)
      BY <3>1, <1>2, <1>8, <1>9
    <3> QED
      BY <3>1, <3>2, <1>2
  <2> QED
    BY <2>1, <2>2
<1>11. Cardinality(B(slice)) = 1 /\ first(slice) = k
  BY <1>3, <1>10, FS_Singleton
<1> HIDE DEF first
<1>12. \A i \in DOMAIN slice : /\ i < first(slice) <=> m[i] < first(ev)
                               /\ i > first(slice) <=> m[i] > first(ev)
  BY <1>2, <1>8, <1>9, <1>11
<1>13. \A x \in keys(ev) \cap cited : \E i \in keys(slice) :
            /\ slice[i].fingerprint = ev[x].fingerprint
            /\ i < first(slice) <=> x < first(ev)
            /\ i > first(slice) <=> x > first(ev)
  BY <1>2, <1>4, <1>12
<1>14. \A i \in keys(slice) : \E x \in keys(ev) \cap cited :
            /\ slice[i].fingerprint = ev[x].fingerprint
            /\ i < first(slice) <=> x < first(ev)
            /\ i > first(slice) <=> x > first(ev)
  BY <1>2, <1>4, <1>5, <1>12
<1> HIDE DEF keys
<1>15. CASE reused(ev) # {}
  <2>1. PICK r \in keys(ev) : ev[r].fingerprint \in pre(ev) \cap post(ev)
    BY <1>15
  <2>2. PICK x \in keys(ev), y \in keys(ev) :
            /\ x < first(ev) /\ y > first(ev)
            /\ ev[x].fingerprint = ev[r].fingerprint /\ ev[y].fingerprint = ev[r].fingerprint
    BY <2>1
  <2>3. x \in reused(ev) /\ y \in reused(ev)
    BY <2>1, <2>2
  <2>4. x \in cited /\ y \in cited
    BY <2>3, <1>6
  <2>5. PICK i \in keys(slice) :
            i < first(slice) /\ slice[i].fingerprint = ev[r].fingerprint
    BY <2>2, <2>4, <1>13
  <2>6. PICK j \in keys(slice) :
            j > first(slice) /\ slice[j].fingerprint = ev[r].fingerprint
    BY <2>2, <2>4, <1>13
  <2>7. ev[r].fingerprint \in pre(slice) /\ ev[r].fingerprint \in post(slice)
    BY <2>5, <2>6
  <2>8. pre(slice) # {} /\ post(slice) # {} /\ reused(slice) # {}
    BY <2>5, <2>7
  <2> HIDE DEF pre, post, reused
  <2>9. EndpointLifecycle(s, a, slice) = Result("violation", reused(slice) \cup {first(slice)})
    BY <2>8, <1>1, <1>6, <1>11
  <2> QED
    BY <2>9, <1>6, <1>15 DEF Result
<1>16. CASE reused(ev) = {}
  <2>1. keys(ev) \subseteq cited
    BY <1>6, <1>16
  <2>2. pre(slice) = pre(ev)
    BY <2>1, <1>13, <1>14
  <2>3. post(slice) = post(ev)
    BY <2>1, <1>13, <1>14
  <2>4. reused(slice) = {}
    <3> HIDE DEF pre, post
    <3> QED BY <2>2, <2>3, <1>14, <1>16
  <2> HIDE DEF pre, post, reused
  <2>5. EndpointLifecycle(s, a, slice) = Result("pass", keys(slice) \cup {first(slice)})
    BY <2>2, <2>3, <2>4, <1>1, <1>6, <1>11
  <2> QED
    BY <2>5, <1>6, <1>16 DEF Result
<1> QED
  BY <1>15, <1>16

\* A revocation and a later use of its authority.
LEMMA ReuseSuffices ==
    ASSUME NEW s, NEW a, NEW S, NEW ev \in Seq(S), NEW slice \in Seq(S), NEW m,
           IsSlice(m, slice, ev, RevokedReuse(s, a, ev).cited),
           RevokedReuse(s, a, ev).status # "not_applicable"
    PROVE  RevokedReuse(s, a, slice).status = RevokedReuse(s, a, ev).status
<1> DEFINE cited == RevokedReuse(s, a, ev).cited
           Rev(e) == /\ e.kind = "authorization.revoked" /\ e.outcome = "succeeded"
                     /\ Selects(a.actor, e.actor) /\ e.authority # None
           Use(e) == /\ e.kind \in {"capability.decrypt", "capability.forge", "capability.availability",
                                    "crypto.protected_message_accepted", "application.sample_received"}
                     /\ e.outcome \in {"succeeded", "accepted", "received"}
           revs(v) == {i \in DOMAIN v : Rev(v[i])}
           uses(v) == {i \in DOMAIN v : Use(v[i])}
           latest(v) == {i \in revs(v) : \A j \in revs(v) : v[j].authority = v[i].authority => j <= i}
           Revoked(v, i) == {r \in latest(v) : v[r].authority = v[i].authority /\ r < i}
           stale(v) == {i \in uses(v) : Revoked(v, i) # {}}
           told(v) == stale(v) \cup UNION {Revoked(v, i) : i \in stale(v)}
<1>1. ASSUME NEW v
      PROVE  RevokedReuse(s, a, v) = Conclude(told(v), latest(v))
  BY DEF RevokedReuse, Events
<1>2. /\ cited \subseteq DOMAIN ev
      /\ \A i \in DOMAIN slice : m[i] \in cited /\ m[i] \in DOMAIN ev /\ slice[i] = ev[m[i]]
      /\ \A c \in cited : \E i \in DOMAIN slice : m[i] = c
      /\ \A i, j \in DOMAIN slice : i < j <=> m[i] < m[j]
      /\ \A i \in DOMAIN slice : i \in Int
      /\ \A i \in DOMAIN ev : i \in Int
  BY DEF IsSlice
<1>3. \A e : ~(Rev(e) /\ Use(e))
  OBVIOUS
<1> HIDE DEF cited, Rev, Use
<1>4. \A i \in DOMAIN slice : m[i] \in latest(ev) => i \in latest(slice)
  <2> SUFFICES ASSUME NEW i \in DOMAIN slice, m[i] \in latest(ev), NEW j \in DOMAIN slice,
                      Rev(slice[j]), slice[j].authority = slice[i].authority
               PROVE  Rev(slice[i]) /\ j <= i
    BY <1>2
  <2>1. m[j] <= m[i] /\ Rev(ev[m[i]])
    BY <1>2
  <2> QED
    BY <2>1, <1>2
<1>5. CASE stale(ev) # {}
  <2>1. PICK i \in stale(ev), r \in latest(ev) : r \in Revoked(ev, i)
    BY <1>5
  <2>2. /\ cited = told(ev) /\ told(ev) # {} /\ RevokedReuse(s, a, ev).status = "violation"
    <3>1. told(ev) # {}
      BY <1>5
    <3> HIDE DEF told, latest, stale
    <3> QED BY <3>1, <1>1 DEF Conclude, NotApplicable, Result, cited
  <2>3. i \in cited /\ r \in cited
    BY <2>1, <2>2
  <2>4. PICK k \in DOMAIN slice, l \in DOMAIN slice : m[k] = i /\ m[l] = r
    BY <2>3, <1>2
  <2>5. l \in latest(slice)
    BY <2>1, <2>4, <1>4
  <2> HIDE DEF latest
  <2>6. l \in Revoked(slice, k)
    BY <2>1, <2>4, <2>5, <1>2
  <2>7. k \in stale(slice)
    BY <2>1, <2>4, <2>6, <1>2
  <2>8. told(slice) # {}
    BY <2>7
  <2> HIDE DEF told
  <2> QED
    BY <2>2, <2>8, <1>1 DEF Conclude, Result
<1>6. CASE stale(ev) = {}
  <2>1. cited = latest(ev) /\ latest(ev) # {} /\ RevokedReuse(s, a, ev).status = "pass"
    <3>1. told(ev) = {}
      BY <1>6
    <3> HIDE DEF told, latest, stale
    <3> QED BY <3>1, <1>1 DEF Conclude, NotApplicable, Result, cited
  <2>2. latest(slice) # {}
    BY <2>1, <1>2, <1>4
  <2>3. stale(slice) = {}
    BY <2>1, <1>2, <1>3
  <2>4. told(slice) = {}
    BY <2>3
  <2> HIDE DEF told, latest, stale
  <2> QED
    BY <2>1, <2>2, <2>4, <1>1 DEF Conclude, Result
<1> QED
  BY <1>5, <1>6

\* The greatest of some of the first naturals.
LEMMA GreatestMember ==
    ASSUME NEW n \in Nat, NEW T, T \subseteq 1..n, T # {}
    PROVE  Max(T) \in T /\ \A x \in T : x <= Max(T)
<1> DEFINE below == {n - x : x \in T}
<1>0. \A x \in T : x \in Int /\ n - x \in Nat
  OBVIOUS
<1>1. below \subseteq Nat /\ below # {}
  BY <1>0
<1>2. PICK y \in below : \A z \in below : y <= z
  <2> HIDE DEF below
  <2> QED BY <1>1, LeastMember
<1>3. PICK x \in T : y = n - x
  BY <1>2
<1>4. \A z \in T : n - x <= n - z /\ x \in Int /\ z \in Int
  <2>1. \A z \in T : n - z \in below
    OBVIOUS
  <2> QED
    BY <1>0, <1>2, <1>3, <2>1
<1>5. \A z \in T : x >= z
  BY <1>4
<1>6. Max(T) \in T /\ \A z \in T : Max(T) >= z
  BY <1>3, <1>5 DEF Max
<1>7. \A z \in T : z \in Int
  OBVIOUS
<1> QED
  BY <1>6, <1>7

\* The rotations, each with its write and its delivery.
LEMMA RotationSuffices ==
    ASSUME NEW s, NEW a, a.minimum \in Nat \ {0},
           NEW S, NEW ev \in Seq(S), NEW slice \in Seq(S), NEW m,
           IsSlice(m, slice, ev, SessionRotation(s, a, ev).cited),
           SessionRotation(s, a, ev).status # "not_applicable",
           SessionRotation(s, a, ev).status = "violation" => a.minimum = 1
    PROVE  SessionRotation(s, a, slice).status = SessionRotation(s, a, ev).status
<1> DEFINE cited == SessionRotation(s, a, ev).cited
           R(v) == Rotations(a, v)
           Rotates(e) == /\ e.kind = "key.rotated" /\ e.actor = a.writer
                         /\ e.outcome = "rotated" /\ e.rotation_kind = "session_key"
                         /\ e.context = a.context
           invalid(v) == {r \in R(v) : ~Advances(v[r])}
           mismatched(v) == {r \in R(v) : ~Selects(a.max_blocks, v[r].max_blocks)}
           undelivered(v) == {r \in R(v) : Deliveries(a, v, r) = {}}
           few(v) == Cardinality(R(v)) < a.minimum
           parties == {a.writer, a.reader} \subseteq s.participants
           unfit(v) == mismatched(v) \cup UNION {Involved(a, v, r) : r \in undelivered(v)}
           involved(v) == UNION {Involved(a, v, r) : r \in R(v)}
<1>1. ASSUME NEW v
      PROVE  SessionRotation(s, a, v) =
                IF ~parties THEN NotApplicable({})
                ELSE IF few(v) THEN NotApplicable(R(v))
                ELSE IF invalid(v) # {} THEN Result("violation", invalid(v))
                ELSE IF mismatched(v) \cup undelivered(v) # {} THEN NotApplicable(unfit(v))
                ELSE Result("pass", involved(v))
  BY DEF SessionRotation
<1>2. /\ cited \subseteq DOMAIN ev
      /\ \A i \in DOMAIN slice : m[i] \in cited /\ m[i] \in DOMAIN ev /\ slice[i] = ev[m[i]]
      /\ \A c \in cited : \E i \in DOMAIN slice : m[i] = c
      /\ \A i, j \in DOMAIN slice : i < j <=> m[i] < m[j]
      /\ DOMAIN slice = 1..Len(slice) /\ Len(slice) \in Nat
      /\ DOMAIN ev = 1..Len(ev) /\ Len(ev) \in Nat
  BY DEF IsSlice
<1>3. \A v : R(v) = {r \in DOMAIN v : Rotates(v[r])}
  BY DEF Rotations, Events
<1> HIDE DEF cited, R, Rotates
<1>4. IsFiniteSet(R(ev)) /\ IsFiniteSet(R(slice)) /\ R(ev) \subseteq DOMAIN ev /\ R(slice) \subseteq DOMAIN slice
  <2>1. IsFiniteSet(DOMAIN ev) /\ IsFiniteSet(DOMAIN slice)
    BY <1>2, FS_Interval
  <2>2. R(ev) \subseteq DOMAIN ev /\ R(slice) \subseteq DOMAIN slice
    BY <1>3
  <2> QED
    BY <2>1, <2>2, FS_Subset
<1>5. \A i \in DOMAIN slice : i \in R(slice) <=> m[i] \in R(ev)
  BY <1>2, <1>3
<1>6. Cardinality(R(ev)) \in Nat /\ Cardinality(R(slice)) \in Nat
  BY <1>4, FS_CardinalityType
<1> HIDE DEF invalid, mismatched, undelivered, few, parties, unfit, involved
<1>7. parties /\ ~few(ev)
  BY <1>1 DEF NotApplicable, Result
<1>8. CASE invalid(ev) # {}
  <2>1. cited = invalid(ev) /\ SessionRotation(s, a, ev).status = "violation" /\ a.minimum = 1
    BY <1>1, <1>7, <1>8 DEF Result, cited
  <2>2. PICK r \in invalid(ev) : r \in R(ev) /\ ~Advances(ev[r])
    BY <1>8 DEF invalid
  <2>3. PICK i \in DOMAIN slice : m[i] = r
    BY <2>1, <2>2, <1>2
  <2>4. i \in R(slice) /\ i \in invalid(slice)
    BY <2>2, <2>3, <1>2, <1>5 DEF invalid
  <2>5. Cardinality(R(slice)) # 0
    BY <2>4, <1>4, FS_EmptySet
  <2>6. ~few(slice)
    BY <2>1, <2>5, <1>6 DEF few
  <2>7. SessionRotation(s, a, slice) = Result("violation", invalid(slice))
    BY <2>4, <2>6, <1>1, <1>7
  <2> QED
    BY <2>1, <2>7 DEF Result
<1>9. CASE invalid(ev) = {}
  <2>1. /\ cited = involved(ev) /\ SessionRotation(s, a, ev).status = "pass"
        /\ mismatched(ev) = {} /\ undelivered(ev) = {}
    BY <1>1, <1>7, <1>9 DEF Result, NotApplicable, cited
  <2>2. \A r \in R(ev) : Involved(a, ev, r) \subseteq cited
    BY <2>1 DEF involved
  <2>3. R(ev) \subseteq cited
    BY <2>2 DEF Involved
  <2>4. ~few(slice)
    <3> DEFINE f == [r \in R(ev) |-> CHOOSE i \in DOMAIN slice : m[i] = r]
    <3>1. \A r \in R(ev) : f[r] \in DOMAIN slice /\ m[f[r]] = r
      BY <2>3, <1>2
    <3>2. f \in [R(ev) -> R(slice)]
      <4>1. ASSUME NEW r \in R(ev) PROVE f[r] \in R(slice)
        <5> HIDE DEF f
        <5> QED
          BY <3>1, <1>5
      <4>2. f = [r \in R(ev) |-> f[r]]
        OBVIOUS
      <4> HIDE DEF f
      <4> QED
        BY <4>1, <4>2
    <3> HIDE DEF f
    <3>3. f \in Injection(R(ev), R(slice))
      BY <3>1, <3>2 DEF Injection, IsInjective
    <3>4. Cardinality(R(ev)) <= Cardinality(R(slice))
      BY <3>3, <1>4, FS_Injection
    <3> QED
      BY <3>4, <1>6, <1>7 DEF few
  <2>5. invalid(slice) = {} /\ mismatched(slice) = {}
    BY <2>1, <1>2, <1>4, <1>5, <1>9 DEF invalid, mismatched
  <2>6. ASSUME NEW k \in R(slice)
        PROVE  Deliveries(a, slice, k) # {}
    <3> DEFINE r == m[k]
               writes(v, i) == {j \in 1..(i - 1) : /\ v[j].actor = a.writer
                                                  /\ v[j].kind \in {"application.write_attempt",
                                                                    "application.sample_written"}}
    <3>1. r \in R(ev) /\ r \in DOMAIN ev /\ k \in DOMAIN slice
      BY <1>2, <1>4, <1>5
    <3>2. PICK d \in Deliveries(a, ev, r) : TRUE
      BY <3>1, <2>1 DEF undelivered
    <3>3. PICK t \in Trigger(a, ev, r) :
            /\ d \in (r + 1)..Len(ev) /\ ev[d].actor = a.reader
            /\ ev[d].kind = "application.sample_received" /\ ev[d].outcome = "received"
            /\ ev[d].sample = ev[t].sample
      BY <3>2 DEF Deliveries
    <3>4. /\ writes(ev, r) # {} /\ t = Max(writes(ev, r)) /\ ev[t].sample # None
          /\ ev[t].kind # "application.sample_written"
      BY <3>3 DEF Trigger
    <3>5. writes(ev, r) \subseteq 1..(r - 1) /\ r - 1 \in Nat
      BY <3>1, <1>2
    <3> HIDE DEF r
    <3>6. t \in writes(ev, r) /\ \A j \in writes(ev, r) : j <= t
      <4> HIDE DEF writes
      <4> QED BY <3>4, <3>5, GreatestMember
    <3>7. t \in cited /\ d \in cited
      BY <3>1, <3>2, <3>3, <2>2 DEF Involved
    <3>8. PICK t2 \in DOMAIN slice, d2 \in DOMAIN slice : m[t2] = t /\ m[d2] = d
      BY <3>7, <1>2
    <3>9. t2 \in writes(slice, k) /\ writes(slice, k) \subseteq 1..(k - 1) /\ k - 1 \in Nat
      <4>1. t < r /\ slice[t2] = ev[t] /\ k \in 1..Len(slice) /\ t2 \in 1..Len(slice)
        BY <3>1, <3>5, <3>6, <3>8, <1>2
      <4>2. t2 < k
        BY <4>1, <3>1, <3>8, <1>2 DEF r
      <4> QED
        BY <4>1, <4>2, <3>6, <1>2
    <3>10. \A j \in writes(slice, k) : j <= t2
      <4> SUFFICES ASSUME NEW j \in writes(slice, k) PROVE j <= t2
        OBVIOUS
      <4>1. j \in DOMAIN slice /\ j < k
        BY <3>1, <1>2
      <4>2. m[j] \in writes(ev, r)
        BY <4>1, <3>1, <1>2 DEF r
      <4>3. m[j] <= m[t2]
        BY <4>2, <3>6, <3>8
      <4> QED
        BY <4>1, <4>3, <3>8, <1>2
    <3>11. Max(writes(slice, k)) = t2
      <4>1. /\ Max(writes(slice, k)) \in writes(slice, k)
            /\ \A j \in writes(slice, k) : j <= Max(writes(slice, k))
        <5>1. writes(slice, k) # {}
          BY <3>9
        <5> HIDE DEF writes
        <5> QED BY <5>1, <3>9, GreatestMember
      <4> HIDE DEF writes
      <4> QED
        BY <4>1, <3>9, <3>10
    <3>12. t2 \in Trigger(a, slice, k)
      <4>1. slice[t2] = ev[t] /\ writes(slice, k) # {}
        BY <3>8, <3>9, <1>2
      <4> QED
        BY <4>1, <3>4, <3>11 DEF Trigger
    <3> DEFINE received == {i \in (k + 1)..Len(slice) :
                              /\ slice[i].actor = a.reader /\ slice[i].kind = "application.sample_received"
                              /\ slice[i].outcome = "received"
                              /\ \E x \in Trigger(a, slice, k) : slice[i].sample = slice[x].sample}
    <3>13. d2 \in received
      <4>1. d2 \in (k + 1)..Len(slice)
        BY <3>1, <3>3, <3>8, <1>2 DEF r
      <4>2. slice[d2] = ev[d] /\ slice[t2] = ev[t]
        BY <3>8, <1>2
      <4> QED
        BY <4>1, <4>2, <3>3, <3>12
    <3>14. received \subseteq Nat
      BY <3>1, <1>2
    <3>15. PICK x \in received : \A y \in received : x <= y
      <4> HIDE DEF received
      <4> QED BY <3>13, <3>14, LeastMember
    <3>16. x \in Deliveries(a, slice, k)
      BY <3>15 DEF Deliveries
    <3> QED
      BY <3>16
  <2>7. undelivered(slice) = {}
    BY <2>6 DEF undelivered
  <2>8. SessionRotation(s, a, slice) = Result("pass", involved(slice))
    BY <2>4, <2>5, <2>7, <1>1, <1>7
  <2> QED
    BY <2>1, <2>8 DEF Result
<1> QED
  BY <1>8, <1>9

\* A result cites events of the evidence.
LEMMA CitedAreEvents ==
    ASSUME NEW s, NEW a, NEW S, NEW ev \in Seq(S), Assess(s, a, ev).status # "not_applicable"
    PROVE  Assess(s, a, ev).cited \in SUBSET DOMAIN ev
<1>1. CASE a.oracle = "crypto_token_recipient_binding"
  <2>1. Assess(s, a, ev) = RecipientBinding(s, a, ev)
    BY <1>1, Assessed
  <2> QED
    BY <2>1 DEF RecipientBinding, Events, Conclude, NotApplicable, Result
<1>2. CASE a.oracle = "unauthorized_key_disclosure"
  <2>1. Assess(s, a, ev) = KeyDisclosure(s, a, ev)
    BY <1>2, Assessed
  <2> QED
    BY <2>1 DEF KeyDisclosure, Denials, Events, NotApplicable, Result
<1>3. CASE a.oracle = "application_writer_impersonation"
  <2>1. Assess(s, a, ev) = Impersonation(s, a, ev)
    BY <1>3, Assessed
  <2> QED
    BY <2>1 DEF Impersonation, Events, Conclude, NotApplicable, Result
<1>4. CASE a.oracle = "key_scope_separation"
  <2>1. Assess(s, a, ev) = KeyScope(s, a, ev)
    BY <1>4, Assessed
  <2> QED
    BY <2>1 DEF KeyScope, Events, Conclude, NotApplicable, Result
<1>5. CASE a.oracle = "policy_authorization_consistency"
  <2>1. Assess(s, a, ev) = PolicyConsistency(s, a, ev)
    BY <1>5, Assessed
  <2> QED
    BY <2>1 DEF PolicyConsistency, Events, Conclude, NotApplicable, Result
<1>6. CASE a.oracle = "crypto_token_transport_consistency"
  <2>1. Assess(s, a, ev) = TokenTransport(s, a, ev)
    BY <1>6, Assessed
  <2> DEFINE Routed(e) == /\ e.kind = "key_material.observed" /\ e.outcome = "observed"
                           /\ e.phase \in {"generated", "received"}
                           /\ None \notin {e.fingerprint, e.local, e.destination, e.endpoints}
                           /\ Selects(a.token_class, e.token_class)
             generated == {i \in DOMAIN ev : Routed(ev[i]) /\ ev[i].phase = "generated"
                                               /\ ev[i].local # ev[i].destination}
             received == {i \in DOMAIN ev : Routed(ev[i]) /\ ev[i].phase = "received"}
             stray == {i \in received : \A g \in generated : Route(ev[g]) # Route(ev[i])}
             Origins(i) == {g \in generated : ev[g].fingerprint = ev[i].fingerprint}
             misrouted == {i \in stray : Origins(i) # {}}
             unmatched == {g \in generated : \A i \in received : Route(ev[i]) # Route(ev[g])}
             incomplete == stray \cup (IF a.require_all THEN unmatched ELSE {})
             accused == misrouted \cup UNION {Origins(i) : i \in misrouted}
  <2>2. TokenTransport(s, a, ev) =
            IF misrouted # {} THEN Result("violation", accused)
            ELSE IF incomplete # {} THEN NotApplicable(incomplete)
            ELSE Conclude({}, generated \cup received)
    <3> DEFINE routed == {i \in DOMAIN ev : Routed(ev[i])}
    <3>1. /\ generated = {i \in routed : ev[i].phase = "generated" /\ ev[i].local # ev[i].destination}
          /\ received = {i \in routed : ev[i].phase = "received"}
      OBVIOUS
    <3> HIDE DEF generated, received
    <3> QED
      BY <3>1 DEF TokenTransport, Events
  <2>3. accused \subseteq DOMAIN ev /\ generated \cup received \subseteq DOMAIN ev
    OBVIOUS
  <2> HIDE DEF accused, generated, received, incomplete, misrouted
  <2> QED
    BY <2>1, <2>2, <2>3 DEF Conclude, NotApplicable, Result
<1>7. CASE a.oracle = "observer_health"
  <2>1. Assess(s, a, ev) = ObserverHealth(s, a, ev)
    BY <1>7, Assessed
  <2> QED
    BY <2>1 DEF ObserverHealth, Events, Conclude, NotApplicable, Result
<1>8. CASE a.oracle = "endpoint_key_lifecycle"
  <2>1. Assess(s, a, ev) = EndpointLifecycle(s, a, ev)
    BY <1>8, Assessed
  <2> DEFINE B == Boundaries(a, ev)
             b == CHOOSE i \in B : TRUE
             keys == {i \in DOMAIN ev :
                        /\ ev[i].actor = a.actor /\ ev[i].kind = "key_material.observed"
                        /\ ev[i].token_class = a.token_class
                        /\ ev[i].endpoint_class = a.endpoint_class
                        /\ ev[i].phase = a.phase /\ ev[i].fingerprint # None}
             pre == {ev[i].fingerprint : i \in {k \in keys : k < b}}
             post == {ev[i].fingerprint : i \in {k \in keys : k > b}}
             reused == {i \in keys : ev[i].fingerprint \in pre \cap post}
  <2>2. EndpointLifecycle(s, a, ev) =
            IF a.actor \notin s.participants \/ Cardinality(B) # 1 THEN NotApplicable({})
            ELSE IF pre = {} \/ post = {} THEN NotApplicable(keys \cup {b})
            ELSE IF reused # {} THEN Result("violation", reused \cup {b})
            ELSE Result("pass", keys \cup {b})
    BY DEF EndpointLifecycle, Events
  <2>3. B \subseteq DOMAIN ev
    BY DEF Boundaries, Events
  <2>4. Cardinality(B) = 1 => b \in B
    <3> HIDE DEF B
    <3>1. Cardinality({}) = 0
      BY FS_EmptySet
    <3>2. B = {} => Cardinality(B) = 0
      BY <3>1, Zenon
    <3> QED
      BY <3>2 DEF b
  <2>5. keys \subseteq DOMAIN ev /\ reused \subseteq keys
    OBVIOUS
  <2> HIDE DEF B, b, keys, pre, post, reused
  <2> QED
    BY <2>1, <2>2, <2>3, <2>4, <2>5 DEF NotApplicable, Result
<1>9. CASE a.oracle = "revoked_authority_reuse"
  <2>1. Assess(s, a, ev) = RevokedReuse(s, a, ev)
    BY <1>9, Assessed
  <2> QED
    BY <2>1 DEF RevokedReuse, Events, Conclude, NotApplicable, Result
<1>10. CASE a.oracle = "session_rotation_delivery"
  <2>1. Assess(s, a, ev) = SessionRotation(s, a, ev)
    BY <1>10, Assessed
  <2> DEFINE R == Rotations(a, ev)
             invalid == {r \in R : ~Advances(ev[r])}
             involved == UNION {Involved(a, ev, r) : r \in R}
  <2>2. R \subseteq DOMAIN ev /\ DOMAIN ev = 1..Len(ev) /\ Len(ev) \in Nat
    BY DEF Rotations, Events
  <2>3. ASSUME NEW r \in R PROVE Involved(a, ev, r) \subseteq DOMAIN ev
    <3>1. r \in 1..Len(ev) /\ Len(ev) \in Nat
      BY <2>2
    <3> DEFINE writes == {i \in 1..(r - 1) : /\ ev[i].actor = a.writer
                                              /\ ev[i].kind \in {"application.write_attempt",
                                                                 "application.sample_written"}}
    <3>2. Trigger(a, ev, r) \subseteq DOMAIN ev
      <4>1. CASE writes = {}
        BY <4>1 DEF Trigger
      <4>2. CASE writes # {}
        <5>1. writes \subseteq 1..(r - 1) /\ r - 1 \in Nat
          BY <3>1
        <5>2. Max(writes) \in writes
          <6> HIDE DEF writes
          <6> QED BY <4>2, <5>1, GreatestMember
        <5>3. Max(writes) \in DOMAIN ev
          BY <5>1, <5>2, <3>1, <2>2
        <5>4. Trigger(a, ev, r) \subseteq {Max(writes)}
          BY DEF Trigger
        <5> HIDE DEF writes
        <5> QED BY <5>3, <5>4
      <4> QED
        BY <4>1, <4>2
    <3>3. Deliveries(a, ev, r) \subseteq DOMAIN ev
      <4>1. (r + 1)..Len(ev) \subseteq DOMAIN ev
        BY <3>1, <2>2
      <4> QED
        BY <4>1 DEF Deliveries
    <3> QED
      BY <3>1, <3>2, <3>3, <2>2 DEF Involved
  <2>4. invalid \subseteq DOMAIN ev /\ involved \subseteq DOMAIN ev
    BY <2>2, <2>3
  <2>5. Assess(s, a, ev) \in {Result("violation", invalid), Result("pass", involved)}
    <3>1. \/ Assess(s, a, ev).status = "not_applicable"
          \/ Assess(s, a, ev) = Result("violation", invalid)
          \/ Assess(s, a, ev) = Result("pass", involved)
      BY <2>1 DEF SessionRotation, NotApplicable, Result
    <3> QED
      BY <3>1
  <2> HIDE DEF invalid, involved
  <2> QED
    BY <2>4, <2>5 DEF Result
<1>11. \/ a.oracle \in OrderFree \cup {"revoked_authority_reuse", "session_rotation_delivery"}
       \/ Assess(s, a, ev) = NotApplicable({})
  BY Assessed
<1>12. Assess(s, a, ev) # NotApplicable({})
  BY DEF NotApplicable, Result
<1> QED
  BY <1>1, <1>2, <1>3, <1>4, <1>5, <1>6, <1>7, <1>8, <1>9, <1>10, <1>11, <1>12 DEF OrderFree

\* The events a result cites, alone, give the status again (ARCHITECTURE.md:151).
THEOREM CitationsSuffice == Spec => []CitedEventsSuffice
<1>1. EvidenceInv => CitedEventsSuffice
  <2> SUFFICES ASSUME EvidenceInv, NEW a \in case.assertions,
                      Assess(case.scenario, a, Evidence).status # "not_applicable",
                      ~ /\ Assess(case.scenario, a, Evidence).status = "violation"
                        /\ a.oracle = "session_rotation_delivery" /\ a.minimum > 1
               PROVE  Status(a, Part(Evidence, Assess(case.scenario, a, Evidence).cited))
                        = Assess(case.scenario, a, Evidence).status
    BY DEF CitedEventsSuffice
  <2> DEFINE S == case.alphabet \cup Range(tail)
             s == case.scenario
             cited == Assess(s, a, Evidence).cited
             slice == Part(Evidence, cited)
  <2>1. Evidence \in Seq(S)
    BY EvidenceRearranges
  <2>2. cited \in SUBSET DOMAIN Evidence
    <3> HIDE DEF S
    <3> QED
      BY <2>1, CitedAreEvents
  <2> HIDE DEF S, cited
  <2>3. slice \in Seq(S) /\ \E m : IsSlice(m, slice, Evidence, cited)
    BY <2>1, <2>2, PartIsSlice
  <2>4. PICK m : IsSlice(m, slice, Evidence, cited)
    BY <2>3
  <2>5. case \in Cases
    BY DEF EvidenceInv
  <2> HIDE DEF slice
  <2>6. Assess(s, a, slice).status = Assess(s, a, Evidence).status
    <3>1. CASE a.oracle \in OrderFree \ {"endpoint_key_lifecycle"}
      BY <2>4, <3>1, SeenSuffices DEF cited
    <3>2. CASE a.oracle = "endpoint_key_lifecycle"
      <4>1. \A v : Assess(s, a, v) = EndpointLifecycle(s, a, v)
        BY <3>2, Assessed
      <4>2. EndpointLifecycle(s, a, Evidence).status # "not_applicable"
        BY <4>1
      <4>3. IsSlice(m, slice, Evidence, EndpointLifecycle(s, a, Evidence).cited)
        BY <4>1, <2>4 DEF cited
      <4>4. EndpointLifecycle(s, a, slice).status = EndpointLifecycle(s, a, Evidence).status
        BY <2>1, <2>3, <4>2, <4>3, LifecycleSuffices
      <4> QED
        BY <4>1, <4>4
    <3>3. CASE a.oracle = "revoked_authority_reuse"
      <4>1. \A v : Assess(s, a, v) = RevokedReuse(s, a, v)
        BY <3>3, Assessed
      <4>2. RevokedReuse(s, a, Evidence).status # "not_applicable"
        BY <4>1
      <4>3. IsSlice(m, slice, Evidence, RevokedReuse(s, a, Evidence).cited)
        BY <4>1, <2>4 DEF cited
      <4>4. RevokedReuse(s, a, slice).status = RevokedReuse(s, a, Evidence).status
        BY <2>1, <2>3, <4>2, <4>3, ReuseSuffices
      <4> QED
        BY <4>1, <4>4
    <3>4. CASE a.oracle = "session_rotation_delivery"
      <4>1. \A v : Assess(s, a, v) = SessionRotation(s, a, v)
        BY <3>4, Assessed
      <4>2. SessionRotation(s, a, Evidence).status # "not_applicable"
        BY <4>1
      <4>3. IsSlice(m, slice, Evidence, SessionRotation(s, a, Evidence).cited)
        BY <4>1, <2>4 DEF cited
      <4>4. a.minimum \in Nat \ {0}
        BY <2>5, <3>4, EvaluationAssumption
      <4>5. Assess(s, a, Evidence).status = "violation" => a.minimum = 1
        BY <3>4, <4>4
      <4>6. SessionRotation(s, a, Evidence).status = "violation" => a.minimum = 1
        BY <4>1, <4>5
      <4>7. SessionRotation(s, a, slice).status = SessionRotation(s, a, Evidence).status
        BY <2>1, <2>3, <4>2, <4>3, <4>4, <4>6, RotationSuffices
      <4> QED
        BY <4>1, <4>7
    <3>5. \/ a.oracle \in OrderFree \cup {"revoked_authority_reuse", "session_rotation_delivery"}
          \/ Assess(s, a, Evidence) = NotApplicable({})
      BY Assessed
    <3>6. Assess(s, a, Evidence) # NotApplicable({})
      BY DEF NotApplicable, Result
    <3> QED
      BY <3>1, <3>2, <3>3, <3>4, <3>5, <3>6
  <2> QED
    BY <2>6 DEF Status, slice, cited
<1> QED
  BY <1>1, EvidenceInvariant, PTL

-----------------------------------------------------------------------------
(* What candidates tell of accusations.                                    *)

\* An overgrant the oracle accuses is one the candidates tell of: its actor has
\* a delivery candidate that covers it, or a candidate of its own.
LEMMA OvergrantsAreLed ==
    ASSUME NEW s, NEW a, NEW ev, NEW i \in PolicyConsistency(s, a, ev).cited,
           PolicyConsistency(s, a, ev).status = "violation"
    PROVE  \E c \in Observed(s, ev) :
              /\ c.family \in {"policy_overgrant", "unauthorized_application_delivery"}
              /\ ev[i].actor \in c.actors
<1> DEFINE decisions == Events(ev, LAMBDA e :
              /\ e.kind = "access_control.decision"
              /\ Selects(a.actor, e.actor)
              /\ e.operation \in DOMAIN PermissionOf /\ e.topic # None
              /\ Selects(Normalized(a.operation), PermissionOf[e.operation]))
           overgrants == {j \in decisions : /\ ev[j].outcome = "allowed"
                                            /\ ~IsPermitted(s, ev[j].actor, ev[j].operation, ev[j].topic)}
<1>1. PolicyConsistency(s, a, ev) = Conclude(overgrants, decisions)
  BY DEF PolicyConsistency
<1>2. i \in overgrants
  <2> HIDE DEF overgrants, decisions
  <2> QED
    BY <1>1, ConcludeStatus
<1>3. /\ i \in DOMAIN ev /\ ev[i].kind = "access_control.decision" /\ ev[i].outcome = "allowed"
      /\ ev[i].operation \in DOMAIN PermissionOf /\ ev[i].topic # None
      /\ ~IsPermitted(s, ev[i].actor, ev[i].operation, ev[i].topic)
  BY <1>2 DEF Events
<1>4. None \notin {ev[i].operation, ev[i].topic}
  BY <1>3, OperationAssumption
<1>5. i \in Overgrants(s, ev)
  BY <1>3, <1>4 DEF Overgrants, Events
<1>6. CASE ev[i].actor \in Covered(s, ev)
  <2>1. PICK p \in Unauthorized(s, ev) : p[1] = ev[i].actor
    BY <1>6 DEF Covered
  <2> DEFINE c == Candidate("unauthorized_application_delivery", {p[1]}, {p[2]},
                      Enabling(s, ev, p[1], p[2]) \cup KeysOf(s, ev, p[1]) \cup
                      {j \in UnauthorizedDeliveries(s, ev) :
                          ev[j].actor = p[1] /\ p[2] \in Resource(s, ev[j], "subscribe")})
  <2>2. c \in DeliveryCandidates(s, ev)
    BY Zenon DEF DeliveryCandidates
  <2>3. c.family = "unauthorized_application_delivery" /\ c.actors = {p[1]}
    BY DEF Candidate
  <2> HIDE DEF c
  <2> QED
    BY <2>1, <2>2, <2>3 DEF Observed
<1>7. CASE ev[i].actor \notin Covered(s, ev)
  <2>1. ev[i].actor \in ActorsOf(ev, Overgrants(s, ev)) \ Covered(s, ev)
    BY <1>5, <1>7 DEF ActorsOf
  <2> DEFINE own == {g \in Overgrants(s, ev) : ev[g].actor = ev[i].actor}
             c == Candidate("policy_overgrant", {ev[i].actor}, Topics(ev, own), own)
  <2>2. c \in OvergrantCandidates(s, ev)
    BY <2>1, Zenon DEF OvergrantCandidates
  <2>3. c.family = "policy_overgrant" /\ c.actors = {ev[i].actor}
    BY DEF Candidate
  <2> HIDE DEF c
  <2> QED
    BY <2>2, <2>3 DEF Observed
<1> QED
  BY <1>6, <1>7

\* No accusation is lost on the way to the candidates, although a result about
\* the policy makes none where a candidate tells of an overgrant already.
THEOREM AccusationsLead == Spec => []AccusationsAreLed
<1>1. AccusationsAreLed
  <2> SUFFICES ASSUME NEW r \in Results(Evidence), r.status = "violation",
                      ~ \E c \in Candidates(Evidence) : r.cited \subseteq c.events
               PROVE  /\ r.oracle = "policy_authorization_consistency"
                      /\ \A i \in r.cited : \E c \in Candidates(Evidence) :
                            /\ c.family \in {"policy_overgrant", "unauthorized_application_delivery"}
                            /\ Evidence[i].actor \in c.actors
    BY DEF AccusationsAreLed
  <2>1. r.oracle = "policy_authorization_consistency"
    <3>1. ASSUME r.oracle # "policy_authorization_consistency"
          PROVE  Candidate(r.oracle, {}, {}, r.cited) \in Candidates(Evidence)
      BY <3>1 DEF Candidates, Leads, InvariantCandidates
    <3>2. Candidate(r.oracle, {}, {}, r.cited).events = r.cited
      BY DEF Candidate
    <3> QED
      BY <3>1, <3>2
  <2>2. PICK a \in case.assertions :
            /\ r.oracle = a.oracle
            /\ r.status = Assess(case.scenario, a, Evidence).status
            /\ r.cited = Assess(case.scenario, a, Evidence).cited
    BY DEF Results, Scenario
  <2>3. Assess(case.scenario, a, Evidence) = PolicyConsistency(case.scenario, a, Evidence)
    BY <2>1, <2>2, Assessed
  <2>4. Observed(case.scenario, Evidence) \subseteq Candidates(Evidence)
    BY DEF Candidates, Leads, Scenario
  <2> QED
    BY <2>1, <2>2, <2>3, <2>4, OvergrantsAreLed
<1> QED
  BY <1>1, PTL

-----------------------------------------------------------------------------
(* The artifacts before the distinct ones are exported.                    *)

All(s, ev) == Revocations(s, ev) \cup Replays(ev) \cup KeyEpochs(ev) \cup KeyRecipients(ev)
                \cup IdentityBindings(ev) \cup RevokedCapabilities(ev) \cup DeliveryCardinality(ev)

\* The least of some naturals.
LEMMA LeastOfNaturals ==
    ASSUME NEW T, T \subseteq Nat, T # {}
    PROVE  Min(T) \in T /\ \A x \in T : Min(T) <= x
BY LeastMember DEF Min

\* Every family of artifacts is told by its name, and its artifacts have a place.
LEMMA RevocationsPlaced ==
    ASSUME NEW s, NEW S, NEW ev \in Seq(S), NEW a \in Revocations(s, ev)
    PROVE  a.at \in Nat /\ a.family \in {"post_revocation_delivery_observed", "split_enforcement_after_revocation"}
<1>1. DOMAIN ev = 1..Len(ev) /\ Len(ev) \in Nat
  OBVIOUS
<1>2. PICK p \in LocalRevocations(ev) \X Succeeded(ev) : a \in RevocationArtifact(s, ev, p[1], p[2])
  BY DEF Revocations
<1>3. p[1] \in DOMAIN ev /\ p[2] \in DOMAIN ev
  BY DEF LocalRevocations, Succeeded, Events
<1>4. Pair(ev, p[1], p[2]) \in Nat
  BY <1>1, <1>3 DEF Pair
<1>5. /\ a.at = Pair(ev, p[1], p[2])
      /\ a.family \in {"post_revocation_delivery_observed", "split_enforcement_after_revocation"}
  BY <1>2 DEF RevocationArtifact, Artifact
<1> QED
  BY <1>4, <1>5

LEMMA ReplaysPlaced ==
    ASSUME NEW S, NEW ev \in Seq(S), NEW a \in Replays(ev)
    PROVE  a.at \in Nat /\ a.family \in {"replay_redelivery_observed", "replay_suppression_observed"}
<1>1. DOMAIN ev = 1..Len(ev) /\ Len(ev) \in Nat
  OBVIOUS
<1>2. PICK r \in Replayed(ev) : a \in ReplayArtifact(ev, r)
  BY DEF Replays
<1>3. r \in Nat
  BY <1>1 DEF Replayed, Events
<1>4. a.at = r /\ a.family \in {"replay_redelivery_observed", "replay_suppression_observed"}
  BY <1>2 DEF ReplayArtifact, Artifact
<1> QED
  BY <1>3, <1>4

LEMMA KeyEpochsPlaced ==
    ASSUME NEW S, NEW ev \in Seq(S), NEW a \in KeyEpochs(ev)
    PROVE  a.at \in Nat /\ a.family = "participant_key_epoch_transition"
<1>1. DOMAIN ev = 1..Len(ev) /\ Len(ev) \in Nat
  OBVIOUS
<1>2. \E i \in DOMAIN ev : a.at = i /\ a.family = "participant_key_epoch_transition"
  BY DEF KeyEpochs, Artifact, Events
<1> QED
  BY <1>1, <1>2

LEMMA KeyRecipientsPlaced ==
    ASSUME NEW S, NEW ev \in Seq(S), NEW a \in KeyRecipients(ev)
    PROVE  a.at \in Nat /\ a.family = "key_recipient_topology"
<1>1. DOMAIN ev = 1..Len(ev) /\ Len(ev) \in Nat
  OBVIOUS
<1> DEFINE Members(f) == {i \in UserKeys(ev) : ev[i].fingerprint = f}
<1>10. \E f \in {ev[i].fingerprint : i \in UserKeys(ev)} : \E o, as, rs, sg, sd :
          a = Artifact(Min(Members(f)), "key_recipient_topology", o, as, rs, sg, sd)
  BY Zenon DEF KeyRecipients
<1>2. PICK f \in {ev[i].fingerprint : i \in UserKeys(ev)} :
          a.at = Min(Members(f)) /\ a.family = "key_recipient_topology"
  <2> HIDE DEF Members
  <2> QED
    BY <1>10 DEF Artifact
<1> DEFINE T == Members(f)
<1>3. T \subseteq Nat /\ T # {}
  BY <1>1, <1>2 DEF UserKeys, Events
<1> HIDE DEF T
<1>4. Min(T) \in Nat
  BY <1>3, LeastOfNaturals
<1> QED
  BY <1>2, <1>4 DEF T

LEMMA IdentityBindingsPlaced ==
    ASSUME NEW S, NEW ev \in Seq(S), NEW a \in IdentityBindings(ev)
    PROVE  a.at \in Nat /\ a.family = "identity_guid_binding"
<1>1. DOMAIN ev = 1..Len(ev) /\ Len(ev) \in Nat
  OBVIOUS
<1> DEFINE bound == Events(ev, LAMBDA e : e.kind = "credential.authenticated" /\ Attr(e, "guid") # None)
           T(actor) == {i \in bound : ev[i].actor \in {actor}}
<1>10. \/ \E o, as, rs, sg, sd : a = Artifact(0, "identity_guid_binding", o, as, rs, sg, sd)
       \/ \E actor \in ActorsOf(ev, bound) : \E o, as, rs, sg, sd :
             a = Artifact(Min(T(actor)), "identity_guid_binding", o, as, rs, sg, sd)
  BY Zenon DEF IdentityBindings
<1>2. /\ a.family = "identity_guid_binding"
      /\ a.at = 0 \/ \E actor \in ActorsOf(ev, bound) : a.at = Min(T(actor))
  <2> HIDE DEF T, bound
  <2> QED
    BY <1>10 DEF Artifact
<1>3. ASSUME NEW actor \in ActorsOf(ev, bound)
      PROVE  T(actor) \subseteq Nat /\ T(actor) # {}
  BY <1>1 DEF ActorsOf, Events
<1> HIDE DEF T, bound
<1>4. \A actor \in ActorsOf(ev, bound) : Min(T(actor)) \in Nat
  BY <1>3, LeastOfNaturals
<1> QED
  BY <1>2, <1>4

LEMMA RevokedCapabilitiesPlaced ==
    ASSUME NEW S, NEW ev \in Seq(S), NEW a \in RevokedCapabilities(ev)
    PROVE  a.at \in Nat /\ a.family = "post_revocation_capability"
<1>1. DOMAIN ev = 1..Len(ev) /\ Len(ev) \in Nat
  OBVIOUS
<1>2. \E i \in DOMAIN ev : a.at = i /\ a.family = "post_revocation_capability"
  BY DEF RevokedCapabilities, Artifact, Events
<1> QED
  BY <1>1, <1>2

LEMMA DeliveryCardinalityPlaced ==
    ASSUME NEW S, NEW ev \in Seq(S), NEW a \in DeliveryCardinality(ev)
    PROVE  a.at \in Nat /\ a.family = "delivery_cardinality"
<1>1. DOMAIN ev = 1..Len(ev) /\ Len(ev) \in Nat
  OBVIOUS
<1>2. \E i \in DOMAIN ev : a.at = i /\ a.family = "delivery_cardinality"
  <2>1. \E i \in Windows(ev) : \E o, as, rs, sg, sd : a = Artifact(i, "delivery_cardinality", o, as, rs, sg, sd)
    BY Zenon DEF DeliveryCardinality
  <2>2. Windows(ev) \subseteq DOMAIN ev
    BY DEF Windows, Events
  <2> QED
    BY <2>1, <2>2 DEF Artifact
<1> QED
  BY <1>1, <1>2

\* The export leaves out no fingerprint.
LEMMA DistinctKeeps ==
    ASSUME NEW s, NEW S, NEW ev \in Seq(S), NEW a \in All(s, ev)
    PROVE  \E b \in SemanticArtifacts(s, ev) : Fingerprint(b) = Fingerprint(a)
<1> DEFINE X == All(s, ev)
           same == {b \in X : Fingerprint(b) = Fingerprint(a)}
           places == {b.at : b \in same}
<1>1. \A b \in X : b.at \in Nat
  BY RevocationsPlaced, ReplaysPlaced, KeyEpochsPlaced, KeyRecipientsPlaced, IdentityBindingsPlaced,
     RevokedCapabilitiesPlaced, DeliveryCardinalityPlaced, Zenon DEF All
<1>2. SemanticArtifacts(s, ev) = Distinct(X)
  BY DEF SemanticArtifacts, All
<1> HIDE DEF X
<1>3. places \subseteq Nat /\ places # {}
  BY <1>1 DEF X
<1>4. PICK p \in places : \A q \in places : p <= q
  <2> HIDE DEF places
  <2> QED
    BY <1>3, LeastMember
<1>5. PICK b \in same : b.at = p
  BY <1>4
<1>6. b \in Distinct(X)
  BY <1>4, <1>5 DEF Distinct
<1> QED
  BY <1>2, <1>5, <1>6

\* What is exported was found.
LEMMA DistinctFound ==
    ASSUME NEW s, NEW ev PROVE SemanticArtifacts(s, ev) \subseteq All(s, ev)
BY DEF SemanticArtifacts, All, Distinct

\* The families that are exported are those found.
LEMMA FamiliesFound ==
    ASSUME NEW s, NEW S, NEW ev \in Seq(S)
    PROVE  /\ "post_revocation_delivery_observed" \in Families(SemanticArtifacts(s, ev))
                <=> \E a \in Revocations(s, ev) : a.family = "post_revocation_delivery_observed"
           /\ "replay_redelivery_observed" \in Families(SemanticArtifacts(s, ev))
                <=> \E a \in Replays(ev) : a.family = "replay_redelivery_observed"
<1>1. \A a \in All(s, ev) : a.family = "post_revocation_delivery_observed" => a \in Revocations(s, ev)
  BY ReplaysPlaced, KeyEpochsPlaced, KeyRecipientsPlaced, IdentityBindingsPlaced,
     RevokedCapabilitiesPlaced, DeliveryCardinalityPlaced DEF All
<1>2. \A a \in All(s, ev) : a.family = "replay_redelivery_observed" => a \in Replays(ev)
  BY RevocationsPlaced, KeyEpochsPlaced, KeyRecipientsPlaced, IdentityBindingsPlaced,
     RevokedCapabilitiesPlaced, DeliveryCardinalityPlaced DEF All
<1>3. \A f : f \in Families(SemanticArtifacts(s, ev)) <=> \E a \in All(s, ev) : a.family = f
  <2>1. \A a, b : Fingerprint(b) = Fingerprint(a) => b.family = a.family
    BY DEF Fingerprint
  <2>2. \A a \in All(s, ev) : \E b \in SemanticArtifacts(s, ev) : b.family = a.family
    BY <2>1, DistinctKeeps
  <2> QED
    BY <2>2, DistinctFound DEF Families
<1>4. Revocations(s, ev) \subseteq All(s, ev) /\ Replays(ev) \subseteq All(s, ev)
  BY DEF All
<1> QED
  BY <1>1, <1>2, <1>3, <1>4

-----------------------------------------------------------------------------
(* Three views of the same deliveries.                                     *)

\* Samples are written and received with these outcomes only.
Outcomes(ev) ==
    \A i \in DOMAIN ev : /\ ev[i].kind = "application.sample_written" => ev[i].outcome = "succeeded"
                         /\ ev[i].kind = "application.sample_received" => ev[i].outcome = "received"

\* r revokes an actor whose later write w is received at d.
Bypass(ev, r, w, d) ==
    /\ r \in LocalRevocations(ev) /\ w \in Writes(ev) /\ d \in Receipts(ev)
    /\ r < w /\ w < d /\ ev[r].actor = ev[w].actor /\ ev[w].message = ev[d].message

Bypassed(ev) == \E r, w, d \in DOMAIN ev : Bypass(ev, r, w, d)

LEMMA BypassArtifact ==
    ASSUME NEW s, NEW S, NEW ev \in Seq(S), Outcomes(ev)
    PROVE  (\E a \in Revocations(s, ev) : a.family = "post_revocation_delivery_observed") <=> Bypassed(ev)
<1>1. DOMAIN ev = 1..Len(ev) /\ Len(ev) \in Nat
  OBVIOUS
<1>2. Delivered(ev) \cap Receipts(ev) = Receipts(ev) /\ Writes(ev) \subseteq Succeeded(ev)
  BY DEF Outcomes, Delivered, Receipts, Writes, Succeeded, Events
<1>3. ASSUME NEW a \in Revocations(s, ev), a.family = "post_revocation_delivery_observed"
      PROVE  Bypassed(ev)
  <2>1. PICK p \in LocalRevocations(ev) \X Succeeded(ev) :
            /\ a \in RevocationArtifact(s, ev, p[1], p[2])
            /\ p[1] < p[2] /\ ev[p[1]].actor = ev[p[2]].actor
    BY <1>3 DEF Revocations
  <2> DEFINE deliveries == {i \in Delivered(ev) \cap OfSample(ev, Receipts(ev), p[2]) :
                                i > p[2] /\ p[2] \in Writes(ev)}
  <2>2. deliveries # {}
    BY <1>3, <2>1 DEF RevocationArtifact, Artifact
  <2>3. PICK d \in Receipts(ev) : d > p[2] /\ p[2] \in Writes(ev) /\ ev[d].message = ev[p[2]].message
    BY <2>2 DEF OfSample
  <2>4. p[1] \in DOMAIN ev /\ p[2] \in DOMAIN ev /\ d \in DOMAIN ev
    BY DEF LocalRevocations, Succeeded, Receipts, Events
  <2>5. p[2] < d
    BY <1>1, <2>3, <2>4
  <2>6. Bypass(ev, p[1], p[2], d)
    BY <2>1, <2>3, <2>5 DEF Bypass
  <2> QED
    BY <2>4, <2>6 DEF Bypassed
<1>4. ASSUME NEW r \in DOMAIN ev, NEW w \in DOMAIN ev, NEW d \in DOMAIN ev, Bypass(ev, r, w, d)
      PROVE  \E a \in Revocations(s, ev) : a.family = "post_revocation_delivery_observed"
  <2> DEFINE deliveries == {i \in Delivered(ev) \cap OfSample(ev, Receipts(ev), w) :
                                i > w /\ w \in Writes(ev)}
  <2>1. d \in deliveries
    BY <1>1, <1>2, <1>4 DEF Bypass, OfSample
  <2>2. \E a \in RevocationArtifact(s, ev, r, w) : a.family = "post_revocation_delivery_observed"
    BY <2>1 DEF RevocationArtifact, Artifact
  <2>3. <<r, w>> \in {q \in LocalRevocations(ev) \X Succeeded(ev) :
                        q[1] < q[2] /\ ev[q[1]].actor = ev[q[2]].actor}
    BY <1>2, <1>4 DEF Bypass
  <2>4. RevocationArtifact(s, ev, r, w) \subseteq Revocations(s, ev)
    BY <2>3 DEF Revocations
  <2> QED
    BY <2>2, <2>4
<1> QED
  BY <1>3, <1>4 DEF Bypassed

LEMMA BypassLead ==
    ASSUME NEW s, NEW S, NEW ev \in Seq(S), Outcomes(ev)
    PROVE  RevocationCandidates(s, ev) # {} <=> Bypassed(ev)
<1>1. DOMAIN ev = 1..Len(ev) /\ Len(ev) \in Nat
  OBVIOUS
<1>2. Delivered(ev) \cap Receipts(ev) = Receipts(ev)
  BY DEF Outcomes, Delivered, Receipts, Events
<1> DEFINE Of(actor) == {r \in LocalRevocations(ev) : ev[r].actor = actor}
           Since(actor) == {w \in Writes(ev) : /\ ev[w].actor = actor
                                               /\ \A r \in FirstRevocation(ev, actor) : r < w}
           Reached(actor) == {p \in Since(actor) \X (Delivered(ev) \cap Receipts(ev)) :
                                p[1] < p[2] /\ ev[p[1]].message = ev[p[2]].message}
<1>3. RevocationCandidates(s, ev) # {} <=>
        \E actor \in ActorsOf(ev, LocalRevocations(ev)) : Reached(actor) # {}
  <2>1. ASSUME NEW c \in RevocationCandidates(s, ev)
        PROVE  \E actor \in ActorsOf(ev, LocalRevocations(ev)) : Reached(actor) # {}
    BY <2>1, Zenon DEF RevocationCandidates
  <2>2. ASSUME NEW actor \in ActorsOf(ev, LocalRevocations(ev)), Reached(actor) # {}
        PROVE  \E c : c \in RevocationCandidates(s, ev)
    <3> DEFINE c == Candidate("credential_revocation_bypass",
                        {actor} \cup {ev[p[2]].actor : p \in Reached(actor)}, s.topics,
                        FirstRevocation(ev, actor) \cup UNION {{p[1], p[2]} : p \in Reached(actor)})
    <3>1. c \in RevocationCandidates(s, ev)
      BY <2>2, Zenon DEF RevocationCandidates
    <3> QED
      BY <3>1
  <2> HIDE DEF Reached
  <2> QED
    BY <2>1, <2>2
<1>4. ASSUME NEW actor \in ActorsOf(ev, LocalRevocations(ev))
      PROVE  /\ Min(Of(actor)) \in Of(actor) /\ \A r \in Of(actor) : Min(Of(actor)) <= r
             /\ FirstRevocation(ev, actor) = {Min(Of(actor))}
  <2>1. Of(actor) \subseteq Nat /\ Of(actor) # {}
    BY <1>1, <1>4 DEF ActorsOf, LocalRevocations, Events
  <2>2. FirstRevocation(ev, actor) = {Min(Of(actor))}
    BY DEF FirstRevocation
  <2> HIDE DEF Of
  <2> QED
    BY <2>1, <2>2, LeastOfNaturals
<1>5. \A i \in LocalRevocations(ev) \cup Writes(ev) \cup Receipts(ev) : i \in DOMAIN ev /\ i \in Int
  BY <1>1 DEF LocalRevocations, Writes, Receipts, Events
<1>6. ASSUME NEW actor \in ActorsOf(ev, LocalRevocations(ev)), Reached(actor) # {}
      PROVE  Bypassed(ev)
  <2>1. PICK p \in Reached(actor) : TRUE
    BY <1>6
  <2>2. /\ p[1] \in Writes(ev) /\ ev[p[1]].actor = actor /\ Min(Of(actor)) < p[1]
        /\ p[2] \in Receipts(ev) /\ p[1] < p[2] /\ ev[p[1]].message = ev[p[2]].message
    BY <1>2, <1>4, <2>1
  <2>3. Min(Of(actor)) \in LocalRevocations(ev) /\ ev[Min(Of(actor))].actor = actor
    BY <1>4
  <2>4. Bypass(ev, Min(Of(actor)), p[1], p[2])
    BY <2>2, <2>3 DEF Bypass
  <2> QED
    BY <1>5, <2>2, <2>3, <2>4 DEF Bypassed
<1>7. ASSUME NEW r \in DOMAIN ev, NEW w \in DOMAIN ev, NEW d \in DOMAIN ev, Bypass(ev, r, w, d)
      PROVE  \E actor \in ActorsOf(ev, LocalRevocations(ev)) : Reached(actor) # {}
  <2> DEFINE actor == ev[r].actor
  <2>1. actor \in ActorsOf(ev, LocalRevocations(ev)) /\ r \in Of(actor)
    BY <1>7 DEF Bypass, ActorsOf
  <2>2. Min(Of(actor)) <= r /\ Min(Of(actor)) \in Int /\ FirstRevocation(ev, actor) = {Min(Of(actor))}
    <3>1. /\ Min(Of(actor)) \in Of(actor) /\ \A x \in Of(actor) : Min(Of(actor)) <= x
          /\ FirstRevocation(ev, actor) = {Min(Of(actor))}
      <4> HIDE DEF actor, Of
      <4> QED
        BY <1>4, <2>1
    <3> QED
      BY <1>5, <2>1, <3>1
  <2>3. Min(Of(actor)) < w
    BY <1>1, <1>7, <2>2 DEF Bypass
  <2>4. w \in Since(actor)
    BY <1>7, <2>2, <2>3 DEF Bypass
  <2>5. <<w, d>> \in Reached(actor)
    BY <1>2, <1>7, <2>4 DEF Bypass
  <2> QED
    BY <2>1, <2>5
<1> QED
  BY <1>3, <1>6, <1>7 DEF Bypassed

LEMMA BypassAnomaly ==
    ASSUME NEW S, NEW ev \in Seq(S)
    PROVE  <<"post_revocation_application_delivery">> \in Anomalies(ev) <=> Bypassed(ev)
<1>1. DOMAIN ev = 1..Len(ev) /\ Len(ev) \in Nat
  OBVIOUS
<1>2. \A e : <<"post_revocation_application_delivery">> \notin EventAnomalies(e)
  BY DEF EventAnomalies
<1>3. <<"post_revocation_application_delivery">> \in Anomalies(ev) <=> PostRevocationReceipts(ev) # {}
  <2> DEFINE x == <<"post_revocation_application_delivery">>
             y == <<"duplicate_application_delivery">>
  <2>1. x # y
    OBVIOUS
  <2>2. x \notin UNION {EventAnomalies(ev[i]) : i \in DOMAIN ev}
    <3>1. \A e : x \notin EventAnomalies(e)
      BY <1>2
    <3> HIDE DEF x
    <3> QED
      BY <3>1
  <2> DEFINE A == UNION {EventAnomalies(ev[i]) : i \in DOMAIN ev}
             X == {x : i \in PostRevocationReceipts(ev)}
             Y == {y : i \in Repeated(ev)}
  <2>3. Anomalies(ev) = A \cup X \cup Y
    BY Zenon DEF Anomalies
  <2> HIDE DEF x, y
  <2>4. x \in X <=> PostRevocationReceipts(ev) # {}
    OBVIOUS
  <2>5. x \notin Y
    BY <2>1
  <2> HIDE DEF A, X, Y
  <2>6. x \in Anomalies(ev) <=> PostRevocationReceipts(ev) # {}
    BY <2>2, <2>3, <2>4, <2>5 DEF A
  <2> QED
    BY <2>6 DEF x
<1>4. PostRevocationReceipts(ev) # {} => Bypassed(ev)
  BY DEF PostRevocationReceipts, PostRevocationWrites, OfSample, Bypassed, Bypass, LocalRevocations,
     Writes, Receipts, Events
<1>5. Bypassed(ev) => PostRevocationReceipts(ev) # {}
  BY DEF PostRevocationReceipts, PostRevocationWrites, OfSample, Bypassed, Bypass
<1> QED
  BY <1>3, <1>4, <1>5

\* The replay r falls between two receipts i and j of a sample.
Twice(ev, i, r, j) ==
    /\ i \in Receipts(ev) /\ j \in Receipts(ev) /\ r \in Replayed(ev)
    /\ None \notin {Attr(ev[i], "topic"), Attr(ev[i], "sample")}
    /\ SampleKey(ev[i]) = SampleKey(ev[j])
    /\ i < r /\ r < j

DeliveredTwice(ev) == \E i, r, j \in DOMAIN ev : Twice(ev, i, r, j)

\* A key names its topic and its sample.
LEMMA KeyNames ==
    ASSUME NEW e, NEW f, SampleKey(e) = SampleKey(f)
    PROVE  Attr(e, "topic") = Attr(f, "topic") /\ Attr(e, "sample") = Attr(f, "sample")
BY DEF SampleKey

LEMMA TwiceArtifact ==
    ASSUME NEW S, NEW ev \in Seq(S), Outcomes(ev)
    PROVE  (\E a \in Replays(ev) : a.family = "replay_redelivery_observed") <=> DeliveredTwice(ev)
<1>1. DOMAIN ev = 1..Len(ev) /\ Len(ev) \in Nat
  OBVIOUS
<1>2. Delivered(ev) \cap Receipts(ev) = Receipts(ev)
  BY DEF Outcomes, Delivered, Receipts, Events
<1>3. Receipts(ev) \subseteq 1..Len(ev) /\ Replayed(ev) \subseteq 1..Len(ev) /\ 1..Len(ev) \subseteq Nat
  BY <1>1 DEF Receipts, Replayed, Events
<1> DEFINE Same(j) == {k \in Receipts(ev) : SampleKey(ev[k]) = SampleKey(ev[j])}
           Keyed == {j \in Receipts(ev) : None \notin {Attr(ev[j], "topic"), Attr(ev[j], "sample")}}
<1>4. \A r : Redelivered(ev, r) = {j \in Keyed : Min(Same(j)) < r /\ r < Max(Same(j))}
  BY <1>2 DEF Redelivered
<1>5. ASSUME NEW j \in Receipts(ev)
      PROVE  /\ Min(Same(j)) \in Same(j) /\ \A k \in Same(j) : Min(Same(j)) <= k
             /\ Max(Same(j)) \in Same(j) /\ \A k \in Same(j) : k <= Max(Same(j))
  <2>1. Same(j) \subseteq Nat /\ Same(j) \subseteq 1..Len(ev) /\ Same(j) # {}
    BY <1>3
  <2> HIDE DEF Same
  <2> QED
    BY <2>1, <1>1, LeastOfNaturals, GreatestMember
<1>6. ASSUME NEW a \in Replays(ev), a.family = "replay_redelivery_observed"
      PROVE  DeliveredTwice(ev)
  <2>1. PICK r \in Replayed(ev) : a \in ReplayArtifact(ev, r)
    BY DEF Replays
  <2>2. Redelivered(ev, r) # {}
    BY <1>6, <2>1 DEF ReplayArtifact, Artifact
  <2>3. PICK j \in Keyed : Min(Same(j)) < r /\ r < Max(Same(j))
    BY <1>4, <2>2
  <2>4. Min(Same(j)) \in Same(j) /\ Max(Same(j)) \in Same(j)
    BY <1>5
  <2> DEFINE i == Min(Same(j))
             k == Max(Same(j))
  <2>5. /\ i \in Receipts(ev) /\ k \in Receipts(ev)
        /\ SampleKey(ev[i]) = SampleKey(ev[j]) /\ SampleKey(ev[k]) = SampleKey(ev[j])
        /\ i < r /\ r < k
    BY <2>3, <2>4
  <2> HIDE DEF i, k
  <2>6. None \notin {Attr(ev[i], "topic"), Attr(ev[i], "sample")}
    BY <2>5, KeyNames
  <2>7. Twice(ev, i, r, k)
    BY <2>5, <2>6 DEF Twice
  <2> QED
    BY <1>1, <1>3, <2>5, <2>7 DEF DeliveredTwice
<1>7. ASSUME NEW i \in DOMAIN ev, NEW r \in DOMAIN ev, NEW k \in DOMAIN ev, Twice(ev, i, r, k)
      PROVE  \E a \in Replays(ev) : a.family = "replay_redelivery_observed"
  <2>1. i \in Keyed /\ i \in Same(i) /\ k \in Same(i) /\ i < r /\ r < k /\ r \in Replayed(ev)
    BY <1>7 DEF Twice
  <2>2. Min(Same(i)) <= i /\ k <= Max(Same(i)) /\ Min(Same(i)) \in Same(i) /\ Max(Same(i)) \in Same(i)
    BY <1>5, <2>1
  <2>3. Min(Same(i)) \in Int /\ Max(Same(i)) \in Int
    BY <1>3, <2>2
  <2>4. Min(Same(i)) < r /\ r < Max(Same(i))
    BY <1>1, <2>1, <2>2, <2>3
  <2>5. Redelivered(ev, r) # {}
    BY <1>4, <2>1, <2>4
  <2>6. \E a \in ReplayArtifact(ev, r) : a.family = "replay_redelivery_observed"
    BY <2>5 DEF ReplayArtifact, Artifact
  <2> QED
    BY <2>1, <2>6 DEF Replays
<1> QED
  BY <1>6, <1>7 DEF DeliveredTwice

LEMMA TwiceLead ==
    ASSUME NEW S, NEW ev \in Seq(S), Outcomes(ev)
    PROVE  ReplayCandidates(ev) # {} <=> DeliveredTwice(ev)
<1>1. DOMAIN ev = 1..Len(ev) /\ Len(ev) \in Nat
  OBVIOUS
<1>2. Delivered(ev) \cap Receipts(ev) = Receipts(ev)
  BY DEF Outcomes, Delivered, Receipts, Events
<1> DEFINE sampled == {i \in Delivered(ev) \cap Receipts(ev) :
                        None \notin {Attr(ev[i], "topic"), Attr(ev[i], "sample")}}
           ReceiptsOf(key) == {i \in sampled : SampleKey(ev[i]) = key}
           Between(key) == {r \in Replayed(ev) : Min(ReceiptsOf(key)) < r /\ r < Max(ReceiptsOf(key))}
<1>3. sampled \subseteq 1..Len(ev) /\ Replayed(ev) \subseteq 1..Len(ev) /\ 1..Len(ev) \subseteq Nat
  BY <1>1 DEF Receipts, Replayed, Events
<1>4. ReplayCandidates(ev) # {} <=> \E x \in sampled : Between(SampleKey(ev[x])) # {}
  <2>1. ASSUME NEW c \in ReplayCandidates(ev)
        PROVE  \E key \in {SampleKey(ev[i]) : i \in sampled} : Between(key) # {}
    BY <2>1, Zenon DEF ReplayCandidates
  <2>2. ASSUME NEW x \in sampled, Between(SampleKey(ev[x])) # {}
        PROVE  \E c : c \in ReplayCandidates(ev)
    <3> DEFINE key == SampleKey(ev[x])
               c == Candidate("transport_replay_duplicate_delivery", {key[1]}, {key[2]},
                              ReceiptsOf(key) \cup Between(key))
    <3>1. key \in {k \in {SampleKey(ev[i]) : i \in sampled} : Between(k) # {}}
      <4> HIDE DEF Between, sampled
      <4> QED
        BY <2>2
    <3> HIDE DEF key
    <3>2. c \in ReplayCandidates(ev)
      BY <3>1, Zenon DEF ReplayCandidates
    <3> QED
      BY <3>2
  <2> HIDE DEF Between, sampled
  <2> QED
    BY <2>1, <2>2
<1>5. ASSUME NEW x \in sampled
      PROVE  LET R == ReceiptsOf(SampleKey(ev[x])) IN
             /\ x \in R
             /\ Min(R) \in R /\ \A k \in R : Min(R) <= k
             /\ Max(R) \in R /\ \A k \in R : k <= Max(R)
  <2> DEFINE R == ReceiptsOf(SampleKey(ev[x]))
  <2>1. R \subseteq Nat /\ R \subseteq 1..Len(ev) /\ x \in R
    BY <1>3
  <2> HIDE DEF R
  <2>2. /\ Min(R) \in R /\ \A k \in R : Min(R) <= k
        /\ Max(R) \in R /\ \A k \in R : k <= Max(R)
    BY <2>1, <1>1, LeastOfNaturals, GreatestMember
  <2> QED
    BY <2>1, <2>2 DEF R
<1>6. ASSUME NEW x \in sampled, Between(SampleKey(ev[x])) # {}
      PROVE  DeliveredTwice(ev)
  <2> DEFINE R == ReceiptsOf(SampleKey(ev[x]))
  <2>1. PICK r \in Replayed(ev) : Min(R) < r /\ r < Max(R)
    BY <1>6
  <2>2. Min(R) \in R /\ Max(R) \in R
    BY <1>5
  <2> DEFINE i == Min(R)
             k == Max(R)
  <2>3. /\ i \in Receipts(ev) /\ k \in Receipts(ev) /\ i < r /\ r < k
        /\ SampleKey(ev[i]) = SampleKey(ev[k])
        /\ None \notin {Attr(ev[i], "topic"), Attr(ev[i], "sample")}
        /\ i \in DOMAIN ev /\ k \in DOMAIN ev
    BY <1>1, <1>3, <2>1, <2>2
  <2> HIDE DEF i, k
  <2>4. Twice(ev, i, r, k)
    BY <2>3 DEF Twice
  <2> QED
    BY <1>1, <1>3, <2>3, <2>4 DEF DeliveredTwice
<1>7. ASSUME NEW i \in DOMAIN ev, NEW r \in DOMAIN ev, NEW k \in DOMAIN ev, Twice(ev, i, r, k)
      PROVE  \E x \in sampled : Between(SampleKey(ev[x])) # {}
  <2> DEFINE R == ReceiptsOf(SampleKey(ev[i]))
  <2>1. i \in sampled
    BY <1>2, <1>7 DEF Twice
  <2>2. k \in R
    <3>1. None \notin {Attr(ev[k], "topic"), Attr(ev[k], "sample")}
      BY <1>7, KeyNames DEF Twice
    <3> QED
      BY <1>2, <1>7, <3>1 DEF Twice
  <2>3. /\ i \in R /\ Min(R) \in R /\ \A x \in R : Min(R) <= x
        /\ Max(R) \in R /\ \A x \in R : x <= Max(R)
    BY <1>5, <2>1
  <2>4. Min(R) <= i /\ k <= Max(R) /\ Min(R) \in Int /\ Max(R) \in Int
    BY <1>3, <2>2, <2>3
  <2>5. Min(R) < r /\ r < Max(R) /\ r \in Replayed(ev)
    BY <1>1, <1>7, <2>4 DEF Twice
  <2>6. r \in Between(SampleKey(ev[i]))
    BY <2>5
  <2> QED
    BY <2>1, <2>6
<1> QED
  <2> HIDE DEF Between, sampled
  <2> QED
    BY <1>4, <1>6, <1>7 DEF DeliveredTwice

\* A sample delivered twice is an anomaly, replayed or not.
LEMMA TwiceAnomaly ==
    ASSUME NEW S, NEW ev \in Seq(S), DeliveredTwice(ev)
    PROVE  <<"duplicate_application_delivery">> \in Anomalies(ev)
<1>1. DOMAIN ev = 1..Len(ev) /\ Len(ev) \in Nat
  OBVIOUS
<1>2. PICK i \in DOMAIN ev, r \in DOMAIN ev, j \in DOMAIN ev : Twice(ev, i, r, j)
  BY DEF DeliveredTwice
<1>3. None \notin {Attr(ev[j], "topic"), Attr(ev[j], "sample")}
  BY <1>2, KeyNames DEF Twice
<1>4. i < j
  BY <1>1, <1>2 DEF Twice
<1>5. j \in Repeated(ev)
  BY <1>2, <1>3, <1>4 DEF Repeated, Twice
<1> DEFINE y == <<"duplicate_application_delivery">>
           Y == {y : k \in Repeated(ev)}
<1>6. Y \subseteq Anomalies(ev)
  BY Zenon DEF Anomalies
<1>7. y \in Y
  <2> HIDE DEF y
  <2> QED
    BY <1>5
<1> QED
  BY <1>6, <1>7

\* What is appended at the end tells of processes only.
EndEvents == \A i \in DOMAIN tail : tail[i].kind \in {"process.exit", "execution.divergence"}

LEMMA EndIsOfProcesses == Spec => []EndEvents
<1>1. Init => EndEvents
  BY DEF Init, EndEvents
<1>2. EvidenceInv /\ EndEvents /\ [Next]_vars => EndEvents'
  <2> SUFFICES ASSUME EvidenceInv, EndEvents, [Next]_vars PROVE EndEvents'
    OBVIOUS
  <2>1. ASSUME UNCHANGED tail PROVE EndEvents'
    BY <2>1 DEF EndEvents
  <2>2. ASSUME NEW failed, Complete(failed) PROVE EndEvents'
    <3>1. tail' = ExitEvents(case.roles, failed)
      BY <2>2 DEF Complete
    <3> QED
      BY <3>1 DEF ExitEvents, EndEvents
  <2>3. ASSUME NEW launched \in DOMAIN case.roles, NEW affected, NEW failed,
               Diverge(launched, failed, affected)
        PROVE EndEvents'
    <3> DEFINE ends == ExitEvents(SubSeq(case.roles, 1, launched), failed)
               last == Divergence(IF affected = None THEN case.roles[launched] ELSE affected)
    <3>1. tail' = Append(ends, last)
      BY <2>3 DEF Diverge
    <3>2. \A i \in DOMAIN ends : ends[i].kind = "process.exit"
      BY DEF ExitEvents
    <3>3. last.kind = "execution.divergence"
      BY DEF Divergence
    <3>4. ends \in Seq(Range(ends))
      <4>1. case.roles \in Seq(Actors)
        BY EvaluationAssumption DEF EvidenceInv, Actors
      <4>2. SubSeq(case.roles, 1, launched) \in Seq(Actors)
        BY <4>1
      <4> QED
        BY <4>2, ExitsAreSequence
    <3> HIDE DEF ends, last
    <3>5. /\ Len(ends) \in Nat /\ DOMAIN ends = 1..Len(ends) /\ DOMAIN tail' = 1..(Len(ends) + 1)
          /\ \A i \in 1..Len(ends) : tail'[i] = ends[i]
          /\ tail'[Len(ends) + 1] = last
      <4>1. ends \in Seq(Range(ends) \cup {last})
        BY <3>4, WiderSequence
      <4> QED
        BY <3>1, <4>1
    <3>6. ASSUME NEW i \in DOMAIN tail' PROVE tail'[i].kind \in {"process.exit", "execution.divergence"}
      BY <3>2, <3>3, <3>5
    <3> QED
      BY <3>6 DEF EndEvents
  <2> QED
    BY <2>1, <2>2, <2>3 DEF Next, Emit, Poll, vars
<1> QED
  BY <1>1, <1>2, EvidenceInvariant, PTL DEF Spec

\* Of samples there is only news that they were written or received.
LEMMA EvidenceOutcomes ==
    ASSUME EvidenceInv, EndEvents
    PROVE  /\ Outcomes(Evidence)
           /\ Evidence \in Seq(case.alphabet \cup Range(tail))
<1> DEFINE S == case.alphabet \cup Range(tail)
<1>1. Evidence \in Seq(S)
  BY EvidenceRearranges
<1>2. \A e \in S : /\ e.kind = "application.sample_written" => e.outcome = "succeeded"
                   /\ e.kind = "application.sample_received" => e.outcome = "received"
  <2>1. \A e \in case.alphabet : /\ e.kind = "application.sample_written" => e.outcome = "succeeded"
                                 /\ e.kind = "application.sample_received" => e.outcome = "received"
    BY EvaluationAssumption DEF EvidenceInv
  <2>2. \A e \in Range(tail) : e.kind \in {"process.exit", "execution.divergence"}
    BY DEF EndEvents, Range
  <2> QED
    BY <2>1, <2>2
<1> HIDE DEF S
<1>3. \A i \in DOMAIN Evidence : Evidence[i] \in S
  BY <1>1
<1> QED
  BY <1>1, <1>2, <1>3 DEF Outcomes, S

\* A family of candidates is found by its own detector only.
LEMMA LeadFamilies ==
    ASSUME NEW s, NEW ev
    PROVE  /\ "credential_revocation_bypass" \in Families(Observed(s, ev))
                <=> RevocationCandidates(s, ev) # {}
           /\ "transport_replay_duplicate_delivery" \in Families(Observed(s, ev))
                <=> ReplayCandidates(ev) # {}
<1>1. \A c \in MemoryCandidates(s, ev) : c.family = "sanitizer_memory_safety_failure"
  <2>1. \A c \in MemoryCandidates(s, ev) : \E actors, resources, events :
            c = Candidate("sanitizer_memory_safety_failure", actors, resources, events)
    BY Zenon DEF MemoryCandidates
  <2> QED
    BY <2>1 DEF Candidate
<1>2. \A c \in ReplayCandidates(ev) : c.family = "transport_replay_duplicate_delivery"
  <2>1. \A c \in ReplayCandidates(ev) : \E actors, resources, events :
            c = Candidate("transport_replay_duplicate_delivery", actors, resources, events)
    BY Zenon DEF ReplayCandidates
  <2> QED
    BY <2>1 DEF Candidate
<1>3. \A c \in RevocationCandidates(s, ev) : c.family = "credential_revocation_bypass"
  <2>1. \A c \in RevocationCandidates(s, ev) : \E actors, resources, events :
            c = Candidate("credential_revocation_bypass", actors, resources, events)
    BY Zenon DEF RevocationCandidates
  <2> QED
    BY <2>1 DEF Candidate
<1>4. \A c \in DeliveryCandidates(s, ev) : c.family = "unauthorized_application_delivery"
  <2>1. \A c \in DeliveryCandidates(s, ev) : \E actors, resources, events :
            c = Candidate("unauthorized_application_delivery", actors, resources, events)
    BY Zenon DEF DeliveryCandidates
  <2> QED
    BY <2>1 DEF Candidate
<1>5. \A c \in OvergrantCandidates(s, ev) : c.family = "policy_overgrant"
  <2>1. \A c \in OvergrantCandidates(s, ev) : \E actors, resources, events :
            c = Candidate("policy_overgrant", actors, resources, events)
    BY Zenon DEF OvergrantCandidates
  <2> QED
    BY <2>1 DEF Candidate
<1>6. \A f : f \in Families(Observed(s, ev)) <=> \E c \in Observed(s, ev) : c.family = f
  BY DEF Families
<1>7. \A c : c \in Observed(s, ev) <=>
            \/ c \in MemoryCandidates(s, ev) \/ c \in ReplayCandidates(ev)
            \/ c \in RevocationCandidates(s, ev) \/ c \in DeliveryCandidates(s, ev)
            \/ c \in OvergrantCandidates(s, ev)
  BY DEF Observed
<1>8. "credential_revocation_bypass" \in Families(Observed(s, ev)) <=> RevocationCandidates(s, ev) # {}
  BY <1>1, <1>2, <1>3, <1>4, <1>5, <1>6, <1>7
<1>9. "transport_replay_duplicate_delivery" \in Families(Observed(s, ev)) <=> ReplayCandidates(ev) # {}
  BY <1>1, <1>2, <1>3, <1>4, <1>5, <1>6, <1>7
<1> QED
  BY <1>8, <1>9

\* Artifacts, candidates and coverage find the same deliveries of the revoked,
\* and the same second deliveries around a replay.
THEOREM DeliveriesAgree == Spec => []ViewsAgree
<1>1. EvidenceInv /\ EndEvents => ViewsAgree
  <2> SUFFICES ASSUME EvidenceInv, EndEvents PROVE ViewsAgree
    OBVIOUS
  <2> DEFINE S == case.alphabet \cup Range(tail)
  <2>1. Evidence \in Seq(S) /\ Outcomes(Evidence)
    BY EvidenceOutcomes
  <2> HIDE DEF S
  <2>2. /\ "post_revocation_delivery_observed" \in Families(SemanticArtifacts(Scenario, Evidence))
                <=> Bypassed(Evidence)
        /\ "replay_redelivery_observed" \in Families(SemanticArtifacts(Scenario, Evidence))
                <=> DeliveredTwice(Evidence)
    BY <2>1, FamiliesFound, BypassArtifact, TwiceArtifact
  <2>3. /\ "credential_revocation_bypass" \in Families(Observed(Scenario, Evidence)) <=> Bypassed(Evidence)
        /\ "transport_replay_duplicate_delivery" \in Families(Observed(Scenario, Evidence))
                <=> DeliveredTwice(Evidence)
    BY <2>1, LeadFamilies, BypassLead, TwiceLead
  <2>4. /\ <<"post_revocation_application_delivery">> \in Anomalies(Evidence) <=> Bypassed(Evidence)
        /\ DeliveredTwice(Evidence) => <<"duplicate_application_delivery">> \in Anomalies(Evidence)
    BY <2>1, BypassAnomaly, TwiceAnomaly
  <2> QED
    BY <2>2, <2>3, <2>4, Zenon DEF ViewsAgree
<1> QED
  BY <1>1, EvidenceInvariant, EndIsOfProcesses, PTL

-----------------------------------------------------------------------------
(* The events an artifact is exported with.                                *)

\* One round of following correlations.
Follows(ev, within) ==
    LET shared == [i \in DOMAIN ev |-> Correlations(ev[i])]
    IN within \cup {j \in DOMAIN ev : \E i \in within : shared[i] \cap shared[j] # {}}

\* f says what is reached after each of n rounds.
Rounds(ev, seeds, n, f) ==
    f = [k \in 0..n |-> IF k = 0 THEN seeds ELSE Follows(ev, f[k - 1])]

\* The rounds are defined, and each contains the one before it.
LEMMA RoundsExist ==
    ASSUME NEW ev, NEW seeds, NEW n \in Nat
    PROVE  \E f : Rounds(ev, seeds, n, f)
<1> DEFINE Missing == {k \in Nat : ~ \E f : Rounds(ev, seeds, k, f)}
<1>1. \E f : Rounds(ev, seeds, 0, f)
  <2> DEFINE f == [k \in 0..0 |-> seeds]
  <2>1. f = [k \in 0..0 |-> IF k = 0 THEN seeds ELSE Follows(ev, f[k - 1])]
    OBVIOUS
  <2>2. Rounds(ev, seeds, 0, f)
    BY <2>1 DEF Rounds
  <2> QED
    BY <2>2
<1>2. ASSUME NEW k \in Nat, NEW f, Rounds(ev, seeds, k, f)
      PROVE  \E g : Rounds(ev, seeds, k + 1, g)
  <2> DEFINE g == [j \in 0..(k + 1) |-> IF j = k + 1 THEN Follows(ev, f[k]) ELSE f[j]]
  <2>1. \A j \in 0..k : f[j] = IF j = 0 THEN seeds ELSE Follows(ev, f[j - 1])
    <3>1. f = [j \in 0..k |-> IF j = 0 THEN seeds ELSE Follows(ev, f[j - 1])]
      BY <1>2 DEF Rounds
    <3> QED
      BY <3>1
  <2>2. \A j \in 0..(k + 1) : g[j] = IF j = 0 THEN seeds ELSE Follows(ev, g[j - 1])
    <3> SUFFICES ASSUME NEW j \in 0..(k + 1)
                 PROVE  g[j] = IF j = 0 THEN seeds ELSE Follows(ev, g[j - 1])
      OBVIOUS
    <3>1. CASE j = k + 1
      <4>1. j # 0 /\ j - 1 = k /\ k \in 0..(k + 1) /\ k # k + 1
        BY <3>1
      <4>2. g[j] = Follows(ev, f[k]) /\ g[k] = f[k]
        BY <3>1, <4>1
      <4> HIDE DEF g
      <4> QED
        BY <4>1, <4>2
    <3>2. CASE j # k + 1
      <4>1. j \in 0..k
        BY <3>2
      <4>2. j # 0 => j - 1 \in 0..k
        BY <4>1
      <4>3. g[j] = f[j] /\ (j # 0 => g[j - 1] = f[j - 1])
        BY <4>1, <4>2
      <4> HIDE DEF g
      <4> QED
        BY <2>1, <4>1, <4>3
    <3> QED
      BY <3>1, <3>2
  <2>3. g = [j \in 0..(k + 1) |-> g[j]]
    OBVIOUS
  <2> HIDE DEF g
  <2>4. g = [j \in 0..(k + 1) |-> IF j = 0 THEN seeds ELSE Follows(ev, g[j - 1])]
    BY <2>2, <2>3
  <2> QED
    BY <2>4 DEF Rounds
<1>3. Missing = {}
  <2> SUFFICES ASSUME Missing # {} PROVE FALSE
    OBVIOUS
  <2>1. PICK k \in Missing : \A j \in Missing : k <= j
    <3>1. Missing \subseteq Nat
      OBVIOUS
    <3> HIDE DEF Missing
    <3> QED
      BY <3>1, LeastMember
  <2>2. k # 0 /\ k \in Nat
    BY <1>1, <2>1
  <2>3. k - 1 \in Nat /\ ~(k <= k - 1)
    BY <2>2
  <2>4. k - 1 \notin Missing
    BY <2>1, <2>3
  <2>5. PICK f : Rounds(ev, seeds, k - 1, f)
    BY <2>3, <2>4
  <2>6. (k - 1) + 1 = k
    BY <2>2
  <2>7. \E g : Rounds(ev, seeds, k, g)
    BY <1>2, <2>3, <2>5, <2>6
  <2> QED
    BY <2>1, <2>7
<1> QED
  BY <1>3

\* What correlations lead to from the seeds are events, the seeds among them.
LEMMA CorrelatesBounds ==
    ASSUME NEW S, NEW ev \in Seq(S), NEW seeds \in SUBSET DOMAIN ev
    PROVE  seeds \subseteq Correlates(ev, seeds) /\ Correlates(ev, seeds) \subseteq DOMAIN ev
<1> DEFINE n == Len(ev)
           closed == CHOOSE f : Rounds(ev, seeds, n, f)
<1>1. n \in Nat /\ DOMAIN ev = 1..n
  OBVIOUS
<1>2. Correlates(ev, seeds) = closed[n]
  BY Zenon DEF Correlates, Rounds, Follows
<1>3. Rounds(ev, seeds, n, closed)
  BY <1>1, RoundsExist
<1> HIDE DEF closed
<1>4. \A k \in 0..n : closed[k] = IF k = 0 THEN seeds ELSE Follows(ev, closed[k - 1])
  <2>1. closed = [k \in 0..n |-> IF k = 0 THEN seeds ELSE Follows(ev, closed[k - 1])]
    BY <1>3 DEF Rounds
  <2> QED
    BY <2>1
<1> DEFINE Bad == {k \in 0..n : ~(seeds \subseteq closed[k] /\ closed[k] \subseteq DOMAIN ev)}
<1>5. Bad = {}
  <2> SUFFICES ASSUME Bad # {} PROVE FALSE
    OBVIOUS
  <2>1. PICK k \in Bad : \A j \in Bad : k <= j
    <3>1. Bad \subseteq Nat
      BY <1>1
    <3> HIDE DEF Bad
    <3> QED
      BY <3>1, LeastMember
  <2>2. k \in 0..n /\ k \in Int
    BY <1>1, <2>1
  <2>3. closed[0] = seeds
    BY <1>1, <1>4
  <2>4. k # 0
    BY <2>1, <2>3
  <2>5. k - 1 \in 0..n /\ ~(k <= k - 1)
    BY <1>1, <2>2, <2>4
  <2>6. seeds \subseteq closed[k - 1] /\ closed[k - 1] \subseteq DOMAIN ev
    BY <2>1, <2>5
  <2>7. closed[k] = Follows(ev, closed[k - 1])
    BY <1>4, <2>2, <2>4
  <2>8. seeds \subseteq closed[k] /\ closed[k] \subseteq DOMAIN ev
    BY <2>6, <2>7 DEF Follows
  <2> QED
    BY <2>1, <2>8
<1>6. n \in 0..n
  BY <1>1
<1> QED
  BY <1>2, <1>5, <1>6

\* A slice holds the seeds, and events only.
LEMMA SliceBounds ==
    ASSUME NEW S, NEW ev \in Seq(S), NEW seeds \in SUBSET DOMAIN ev
    PROVE  seeds \subseteq CausalSlice(ev, seeds) /\ CausalSlice(ev, seeds) \in SUBSET DOMAIN ev
<1> DEFINE T == Correlates(ev, seeds)
<1>1. seeds \subseteq T /\ T \subseteq DOMAIN ev
  BY CorrelatesBounds
<1> HIDE DEF T
<1>2. ASSUME NEW i \in T, NEW j \in Preceding(ev, i, 1)
      PROVE  j \in DOMAIN ev
  <2>1. i \in 1..Len(ev) /\ Len(ev) \in Nat /\ j \in 1..(i - 1)
    BY <1>1, <1>2 DEF Preceding
  <2> QED
    BY <2>1
<1>3. CausalSlice(ev, seeds) = T \cup UNION {Preceding(ev, i, 1) : i \in T}
  BY DEF CausalSlice, T
<1> QED
  BY <1>1, <1>2, <1>3

\* Places of a slice that are those of some indexes.
Matches(m, places, indexes) ==
    /\ \A i \in places : m[i] \in indexes
    /\ \A x \in indexes : \E i \in places : m[i] = x

\* A selection v of the events C of ev keeps the order of those that are
\* ordered; a slice keeps that of all.
Kept(m, v, ev, C) ==
    /\ DOMAIN ev = 1..Len(ev) /\ Len(ev) \in Nat /\ DOMAIN v = 1..Len(v) /\ Len(v) \in Nat
    /\ C \subseteq DOMAIN ev
    /\ \A i \in DOMAIN v : m[i] \in C /\ m[i] \in DOMAIN ev /\ v[i] = ev[m[i]]
    /\ \A c \in C : \E i \in DOMAIN v : m[i] = c
    /\ \A i, j \in DOMAIN v : Ordered(v[i], v[j]) => (i < j <=> m[i] < m[j])
    /\ \A i, j \in DOMAIN v : m[i] = m[j] => i = j

InPlace(m, v) == \A i, j \in DOMAIN v : i < j <=> m[i] < m[j]

LEMMA SliceKeeps ==
    ASSUME NEW S, NEW ev \in Seq(S), NEW v \in Seq(S), NEW m, NEW C, IsSlice(m, v, ev, C)
    PROVE  Kept(m, v, ev, C) /\ InPlace(m, v)
<1>1. DOMAIN ev = 1..Len(ev) /\ Len(ev) \in Nat /\ DOMAIN v = 1..Len(v) /\ Len(v) \in Nat
  OBVIOUS
<1>2. /\ C \subseteq DOMAIN ev
      /\ \A i \in DOMAIN v : m[i] \in C /\ m[i] \in DOMAIN ev /\ v[i] = ev[m[i]]
      /\ \A c \in C : \E i \in DOMAIN v : m[i] = c
      /\ \A i, j \in DOMAIN v : i < j <=> m[i] < m[j]
  BY DEF IsSlice
<1>3. ASSUME NEW i \in DOMAIN v, NEW j \in DOMAIN v, m[i] = m[j]
      PROVE  i = j
  <2>1. i \in Int /\ j \in Int /\ m[i] \in Int /\ m[j] \in Int
    BY <1>1, <1>2
  <2>2. ~(i < j) /\ ~(j < i)
    BY <1>2, <1>3, <2>1
  <2> QED
    BY <2>1, <2>2
<1> QED
  BY <1>1, <1>2, <1>3 DEF Kept, InPlace

\* Matching places name the same actors and topics.
LEMMA MatchesName ==
    ASSUME NEW m, NEW v, NEW ev, NEW C, Kept(m, v, ev, C),
           NEW places \in SUBSET DOMAIN v, NEW indexes, Matches(m, places, indexes)
    PROVE  /\ ActorsOf(v, places) = ActorsOf(ev, indexes)
           /\ Topics(v, places) = Topics(ev, indexes)
           /\ places = {} <=> indexes = {}
<1>1. /\ \A i \in places : m[i] \in indexes /\ v[i] = ev[m[i]]
      /\ \A x \in indexes : \E i \in places : v[i] = ev[x]
  BY DEF Kept, Matches
<1>2. ActorsOf(v, places) = ActorsOf(ev, indexes)
  BY <1>1 DEF ActorsOf
<1>3. {Attr(v[i], "topic") : i \in places} = {Attr(ev[i], "topic") : i \in indexes}
  BY <1>1
<1> QED
  BY <1>1, <1>2, <1>3 DEF Topics

\* Events of one actor keep their order.
LEMMA ActorKept ==
    ASSUME NEW m, NEW v, NEW ev, NEW C, Kept(m, v, ev, C),
           NEW i \in DOMAIN v, NEW j \in DOMAIN v, v[i].actor = v[j].actor
    PROVE  i < j <=> m[i] < m[j]
BY DEF Kept, Ordered

\* A missing delivery is told by windows, whose order to the write must be kept.
ShowsDelivery(m, v, a) == InPlace(m, v) \/ a.family = "post_revocation_delivery_observed"

\* What a revocation is established by shows it.
LEMMA RevocationsKept ==
    ASSUME NEW s, NEW ev, NEW v, NEW m, NEW C, Kept(m, v, ev, C),
           NEW a \in Revocations(s, ev), a.seeds \subseteq C,
           ShowsDelivery(m, v, a)
    PROVE  \E b \in Revocations(s, v) : Fingerprint(b) = Fingerprint(a)
<1> DEFINE Arrived(e, w) == {i \in Delivered(e) \cap OfSample(e, Receipts(e), w) : i > w /\ w \in Writes(e)}
           Later(e, w) == {i \in Windows(e) : i > w}
           Terminal(e, w) == IF Arrived(e, w) # {} THEN Arrived(e, w) ELSE Later(e, w)
           Outcome(e, w) == IF Arrived(e, w) # {} THEN "delivered" ELSE "locally_accepted_remotely_suppressed"
           Family(e, w) == IF Arrived(e, w) # {} THEN "post_revocation_delivery_observed"
                           ELSE "split_enforcement_after_revocation"
           Found(e, r, w) == Artifact(Pair(e, r, w), Family(e, w), Outcome(e, w),
                                {e[r].actor} \cup ActorsOf(e, Terminal(e, w)),
                                IF Topics(e, {w}) # {} THEN Topics(e, {w}) ELSE s.topics,
                                <<<<"revoked", e[r].actor>>, <<"write", e[r].actor>>,
                                  <<"delivery", Outcome(e, w)>>>>,
                                {r, w} \cup Terminal(e, w))
           Revoked(e, r, w) == /\ r \in LocalRevocations(e) /\ w \in Succeeded(e)
                               /\ r < w /\ e[r].actor = e[w].actor
<1>1. \A e, r, w : RevocationArtifact(s, e, r, w) =
                      IF Terminal(e, w) = {} THEN {} ELSE {Found(e, r, w)}
  BY DEF RevocationArtifact
<1>2. \A e, b : b \in Revocations(s, e) <=>
                  \E r, w : Revoked(e, r, w) /\ b \in RevocationArtifact(s, e, r, w)
  <2> SUFFICES ASSUME NEW e, NEW b
               PROVE  b \in Revocations(s, e) <=>
                        \E r, w : Revoked(e, r, w) /\ b \in RevocationArtifact(s, e, r, w)
    OBVIOUS
  <2> DEFINE pairs == {q \in LocalRevocations(e) \X Succeeded(e) :
                          q[1] < q[2] /\ e[q[1]].actor = e[q[2]].actor}
  <2>1. b \in Revocations(s, e) <=> \E p \in pairs : b \in RevocationArtifact(s, e, p[1], p[2])
    BY Zenon DEF Revocations
  <2>2. \A r, w : Revoked(e, r, w) <=> <<r, w>> \in pairs
    OBVIOUS
  <2>3. \A p \in pairs : p = <<p[1], p[2]>>
    OBVIOUS
  <2> HIDE DEF pairs, Revoked
  <2>4. ASSUME NEW p \in pairs, b \in RevocationArtifact(s, e, p[1], p[2])
        PROVE  \E r, w : Revoked(e, r, w) /\ b \in RevocationArtifact(s, e, r, w)
    <3>1. <<p[1], p[2]>> \in pairs
      BY <2>3, <2>4
    <3>2. Revoked(e, p[1], p[2])
      BY <2>2, <3>1
    <3> QED
      BY <2>4, <3>2
  <2>5. ASSUME NEW r, NEW w, Revoked(e, r, w), b \in RevocationArtifact(s, e, r, w)
        PROVE  \E p \in pairs : b \in RevocationArtifact(s, e, p[1], p[2])
    <3> DEFINE p == <<r, w>>
    <3>1. p \in pairs /\ p[1] = r /\ p[2] = w
      BY <2>2, <2>5
    <3> HIDE DEF p
    <3> QED
      BY <2>5, <3>1
  <2> QED
    BY <2>1, <2>4, <2>5
<1>3. PICK r, w : Revoked(ev, r, w) /\ Terminal(ev, w) # {} /\ a = Found(ev, r, w)
  <2> HIDE DEF Revoked, Terminal, Found
  <2>1. PICK r, w : Revoked(ev, r, w) /\ a \in RevocationArtifact(s, ev, r, w)
    BY <1>2, Zenon
  <2>2. RevocationArtifact(s, ev, r, w) = IF Terminal(ev, w) = {} THEN {} ELSE {Found(ev, r, w)}
    BY <1>1
  <2> QED
    BY <2>1, <2>2
<1>4. a.seeds = {r, w} \cup Terminal(ev, w)
  <2> HIDE DEF Terminal, Family, Outcome
  <2> QED
    BY <1>3 DEF Artifact
<1>5. PICK r2 \in DOMAIN v, w2 \in DOMAIN v : m[r2] = r /\ m[w2] = w
  <2>1. r \in C /\ w \in C
    BY <1>4
  <2> QED
    BY <2>1 DEF Kept
<1>6. v[r2] = ev[r] /\ v[w2] = ev[w] /\ (r2 < w2 <=> r < w)
  <2>1. v[r2] = ev[r] /\ v[w2] = ev[w]
    BY <1>5 DEF Kept
  <2>2. v[r2].actor = v[w2].actor
    BY <1>3, <2>1
  <2> QED
    BY <1>5, <2>1, <2>2, ActorKept
<1>7. Revoked(v, r2, w2)
  BY <1>3, <1>5, <1>6 DEF LocalRevocations, Succeeded, Events
<1>8. w \in DOMAIN ev /\ (w2 \in Writes(v) <=> w \in Writes(ev))
  BY <1>3, <1>5, <1>6 DEF Writes, Succeeded, Events
\* A delivery and its write have the message in common.
<1>9. \A i \in DOMAIN v : i \in Arrived(v, w2) <=> m[i] \in Arrived(ev, w)
  <2> SUFFICES ASSUME NEW i \in DOMAIN v PROVE i \in Arrived(v, w2) <=> m[i] \in Arrived(ev, w)
    OBVIOUS
  <2>1. m[i] \in DOMAIN ev /\ v[i] = ev[m[i]]
    BY DEF Kept
  <2>2. \A e, j, k : j \in OfSample(e, Receipts(e), k) /\ k \in Writes(e) => Ordered(e[k], e[j])
    <3>1. \A e : Attr(e, "message") # None => e.message = Attr(e, "message")
      BY DEF Attr
    <3> QED
      BY <3>1 DEF Ordered, OfSample, Receipts, Writes, Events
  <2>3. Ordered(v[w2], v[i]) => (i > w2 <=> m[i] > w)
    BY <1>5 DEF Kept
  <2>4. v[w2] = ev[w] /\ v[i] = ev[m[i]]
    BY <1>6, <2>1
  <2>5. i \in Delivered(v) \cap OfSample(v, Receipts(v), w2)
           <=> m[i] \in Delivered(ev) \cap OfSample(ev, Receipts(ev), w)
    BY <1>6, <2>1 DEF Delivered, OfSample, Receipts, Events
  <2> QED
    BY <1>8, <2>2, <2>3, <2>4, <2>5
<1>16. InPlace(m, v) => \A i \in DOMAIN v : i \in Later(v, w2) <=> m[i] \in Later(ev, w)
  <2> SUFFICES ASSUME InPlace(m, v), NEW i \in DOMAIN v PROVE i \in Later(v, w2) <=> m[i] \in Later(ev, w)
    OBVIOUS
  <2>1. m[i] \in DOMAIN ev /\ v[i] = ev[m[i]]
    BY DEF Kept
  <2>2. i > w2 <=> m[i] > w
    BY <1>5 DEF InPlace
  <2> QED
    BY <2>1, <2>2 DEF Windows, Events
<1>10. /\ Arrived(v, w2) \subseteq DOMAIN v /\ Later(v, w2) \subseteq DOMAIN v
       /\ Arrived(ev, w) \subseteq DOMAIN ev /\ Later(ev, w) \subseteq DOMAIN ev
  BY DEF Delivered, Windows, Events
<1>11. Arrived(v, w2) # {} <=> Arrived(ev, w) # {}
  <2>1. ASSUME NEW d \in Arrived(ev, w) PROVE Arrived(v, w2) # {}
    <3>1. d \in C
      BY <1>4, <2>1
    <3>2. PICK i \in DOMAIN v : m[i] = d
      BY <3>1 DEF Kept
    <3> HIDE DEF Arrived
    <3> QED
      BY <1>9, <2>1, <3>2
  <2>2. ASSUME NEW i \in Arrived(v, w2) PROVE Arrived(ev, w) # {}
    <3> HIDE DEF Arrived
    <3> QED
      BY <1>9, <1>10, <2>2
  <2> QED
    BY <2>1, <2>2
<1>12. Matches(m, Terminal(v, w2), Terminal(ev, w)) /\ Terminal(v, w2) \in SUBSET DOMAIN v
  <2>1. Terminal(ev, w) \subseteq C
    BY <1>4
  <2>2. \A i \in DOMAIN v : i \in Terminal(v, w2) <=> m[i] \in Terminal(ev, w)
    <3>1. Arrived(ev, w) = {} => a.family = "split_enforcement_after_revocation"
      <4> HIDE DEF Arrived, Terminal, Outcome
      <4> QED
        BY <1>3 DEF Artifact
    <3> HIDE DEF Arrived, Later
    <3> QED
      BY <1>9, <1>11, <1>16, <3>1 DEF ShowsDelivery
  <2>3. Terminal(v, w2) \subseteq DOMAIN v
    BY <1>10
  <2> HIDE DEF Terminal
  <2> QED
    BY <2>1, <2>2, <2>3 DEF Matches, Kept
<1>13. ActorsOf(v, Terminal(v, w2)) = ActorsOf(ev, Terminal(ev, w)) /\ Terminal(v, w2) # {}
  <2> HIDE DEF Terminal
  <2> QED
    BY <1>3, <1>12, MatchesName
<1>14. Topics(v, {w2}) = Topics(ev, {w})
  BY <1>6 DEF Topics
<1>15. Outcome(v, w2) = Outcome(ev, w) /\ Family(v, w2) = Family(ev, w)
  <2> HIDE DEF Arrived
  <2> QED
    BY <1>11
<1> DEFINE b == Found(v, r2, w2)
<1>17. b \in Revocations(s, v)
  <2> HIDE DEF Revoked, Terminal, Found
  <2> QED
    BY <1>1, <1>2, <1>7, <1>13
<1>18. Fingerprint(b) = Fingerprint(a)
  <2> HIDE DEF Terminal, Outcome, Family
  <2> QED
    BY <1>3, <1>6, <1>13, <1>14, <1>15 DEF Fingerprint, Artifact
<1> QED
  BY <1>17, <1>18

\* The places of the cited ones of some indexes match them.
LEMMA PlacesMatch ==
    ASSUME NEW m, NEW v, NEW ev, NEW C, Kept(m, v, ev, C),
           NEW places \in SUBSET DOMAIN v, NEW indexes \in SUBSET C,
           \A i \in DOMAIN v : i \in places <=> m[i] \in indexes
    PROVE  Matches(m, places, indexes)
BY DEF Kept, Matches

\* What a delivery around a replay is established by shows it.
LEMMA ReplaysKept ==
    ASSUME NEW ev, NEW v, NEW m, NEW C, Kept(m, v, ev, C), InPlace(m, v),
           NEW a \in Replays(ev), a.seeds \subseteq C, a.family # "replay_suppression_observed"
    PROVE  \E b \in Replays(v) : Fingerprint(b) = Fingerprint(a)
<1> DEFINE Keyed(e) == {j \in Delivered(e) \cap Receipts(e) :
                          None \notin {Attr(e[j], "topic"), Attr(e[j], "sample")}}
           Same(e, j) == {k \in Delivered(e) \cap Receipts(e) : SampleKey(e[k]) = SampleKey(e[j])}
           Found(e, r) == Artifact(r, "replay_redelivery_observed", "redelivered",
                             {e[r].actor} \cup ActorsOf(e, Redelivered(e, r)),
                             Topics(e, Redelivered(e, r)),
                             <<<<"replay", e[r].actor>>, <<"delivery", "redelivered">>>>,
                             {r} \cup Redelivered(e, r))
<1>1. /\ DOMAIN ev = 1..Len(ev) /\ Len(ev) \in Nat /\ DOMAIN v = 1..Len(v) /\ Len(v) \in Nat
      /\ \A i \in DOMAIN v : m[i] \in DOMAIN ev /\ v[i] = ev[m[i]]
      /\ \A c \in C : \E i \in DOMAIN v : m[i] = c
      /\ \A i, j \in DOMAIN v : i < j <=> m[i] < m[j]
  BY DEF Kept, InPlace
<1>2. \A e, r : Redelivered(e, r) = {j \in Keyed(e) : Min(Same(e, j)) < r /\ r < Max(Same(e, j))}
  BY DEF Redelivered
<1>3. ASSUME NEW e, NEW r, Redelivered(e, r) # {}
      PROVE  ReplayArtifact(e, r) = {Found(e, r)}
  BY <1>3 DEF ReplayArtifact
<1>4. PICK r \in Replayed(ev) : a \in ReplayArtifact(ev, r)
  BY Zenon DEF Replays
<1>5. Redelivered(ev, r) # {}
  BY <1>4 DEF ReplayArtifact, Artifact
<1>6. a = Found(ev, r)
  <2> HIDE DEF Found
  <2> QED
    BY <1>3, <1>4, <1>5
<1>7. a.seeds = {r} \cup Redelivered(ev, r)
  BY <1>6 DEF Artifact
<1>8. PICK r2 \in DOMAIN v : m[r2] = r
  BY <1>1, <1>7
<1>9. r2 \in Replayed(v)
  BY <1>1, <1>4, <1>8 DEF Replayed, Events
<1>10. \A e \in {ev, v} : \A j \in Keyed(e) :
          /\ Same(e, j) \subseteq DOMAIN e /\ j \in Same(e, j) /\ Same(e, j) # {}
  BY DEF Receipts, Events
<1>11. \A i \in DOMAIN v : i \in Keyed(v) <=> m[i] \in Keyed(ev)
  BY <1>1 DEF Delivered, Receipts, Events
<1>12. \A i, j \in DOMAIN v : i \in Same(v, j) <=> m[i] \in Same(ev, m[j])
  BY <1>1 DEF Delivered, Receipts, Events
<1>13. \A e \in {ev, v} : \A j \in Keyed(e) :
          /\ Min(Same(e, j)) \in Same(e, j) /\ \A k \in Same(e, j) : Min(Same(e, j)) <= k
          /\ Max(Same(e, j)) \in Same(e, j) /\ \A k \in Same(e, j) : k <= Max(Same(e, j))
  <2> SUFFICES ASSUME NEW e \in {ev, v}, NEW j \in Keyed(e)
               PROVE  /\ Min(Same(e, j)) \in Same(e, j) /\ \A k \in Same(e, j) : Min(Same(e, j)) <= k
                      /\ Max(Same(e, j)) \in Same(e, j) /\ \A k \in Same(e, j) : k <= Max(Same(e, j))
    OBVIOUS
  <2>1. Same(e, j) \subseteq 1..Len(e) /\ Len(e) \in Nat /\ Same(e, j) # {} /\ Same(e, j) \subseteq Nat
    BY <1>1, <1>10
  <2> HIDE DEF Same
  <2> QED
    BY <2>1, LeastOfNaturals, GreatestMember
<1> HIDE DEF Same, Keyed, Found
\* Between the receipts of a sample: two of them enclose the replay.
<1>14. ASSUME NEW e \in {ev, v}, NEW x \in DOMAIN e, NEW j
       PROVE  j \in Redelivered(e, x) <=>
                 /\ j \in Keyed(e)
                 /\ \E i, k \in Same(e, j) : i < x /\ x < k
  <2>1. ASSUME j \in Keyed(e), NEW i \in Same(e, j), NEW k \in Same(e, j), i < x, x < k
        PROVE  Min(Same(e, j)) < x /\ x < Max(Same(e, j))
    <3> DEFINE lo == Min(Same(e, j))
               hi == Max(Same(e, j))
    <3>1. lo <= i /\ k <= hi /\ lo \in DOMAIN e /\ hi \in DOMAIN e /\ i \in DOMAIN e /\ k \in DOMAIN e
      BY <1>10, <1>13, <2>1
    <3>2. lo \in Int /\ hi \in Int /\ i \in Int /\ k \in Int /\ x \in Int
      BY <1>1, <3>1
    <3> HIDE DEF lo, hi
    <3>3. lo < x /\ x < hi
      BY <2>1, <3>1, <3>2
    <3> QED
      BY <3>3 DEF lo, hi
  <2>2. j \in Redelivered(e, x) <=> j \in Keyed(e) /\ Min(Same(e, j)) < x /\ x < Max(Same(e, j))
    BY <1>2
  <2>3. j \in Keyed(e) => Min(Same(e, j)) \in Same(e, j) /\ Max(Same(e, j)) \in Same(e, j)
    BY <1>13
  <2> QED
    BY <2>1, <2>2, <2>3
\* All receipts of a redelivered sample are cited.
<1>15. ASSUME NEW j \in Redelivered(ev, r), NEW k \in Same(ev, j)
       PROVE  k \in Redelivered(ev, r)
  <2>1. r \in DOMAIN ev
    BY <1>1, <1>8
  <2>2. j \in Keyed(ev) /\ \E x, y \in Same(ev, j) : x < r /\ r < y
    BY <1>14, <1>15, <2>1
  <2>3. k \in Keyed(ev) /\ Same(ev, k) = Same(ev, j)
    <3>1. k \in Delivered(ev) \cap Receipts(ev) /\ SampleKey(ev[k]) = SampleKey(ev[j])
      BY <1>15 DEF Same
    <3>2. None \notin {Attr(ev[j], "topic"), Attr(ev[j], "sample")}
      BY <2>2 DEF Keyed
    <3> QED
      BY <3>1, <3>2, KeyNames DEF Keyed, Same
  <2> QED
    BY <1>14, <2>1, <2>2, <2>3
<1>16. \A j \in DOMAIN v : j \in Redelivered(v, r2) <=> m[j] \in Redelivered(ev, r)
  <2> SUFFICES ASSUME NEW j \in DOMAIN v
               PROVE  j \in Redelivered(v, r2) <=> m[j] \in Redelivered(ev, r)
    OBVIOUS
  <2>1. r \in DOMAIN ev /\ m[j] \in DOMAIN ev
    BY <1>1, <1>8
  <2>2. ASSUME j \in Redelivered(v, r2) PROVE m[j] \in Redelivered(ev, r)
    <3>1. j \in Keyed(v)
      BY <1>14, <2>2
    <3>2. PICK i \in Same(v, j), k \in Same(v, j) : i < r2 /\ r2 < k
      BY <1>14, <2>2
    <3>3. i \in DOMAIN v /\ k \in DOMAIN v
      BY <1>10, <3>1, <3>2
    <3>4. m[i] \in Same(ev, m[j]) /\ m[k] \in Same(ev, m[j]) /\ m[i] < r /\ r < m[k]
      BY <1>1, <1>8, <1>12, <3>2, <3>3
    <3> QED
      BY <1>11, <1>14, <2>1, <3>1, <3>4
  <2>3. ASSUME m[j] \in Redelivered(ev, r) PROVE j \in Redelivered(v, r2)
    <3>1. m[j] \in Keyed(ev)
      BY <1>14, <2>1, <2>3
    <3>2. PICK x \in Same(ev, m[j]), y \in Same(ev, m[j]) : x < r /\ r < y
      BY <1>14, <2>1, <2>3
    <3>3. x \in C /\ y \in C
      BY <1>7, <1>15, <2>3, <3>2
    <3>4. PICK i \in DOMAIN v, k \in DOMAIN v : m[i] = x /\ m[k] = y
      BY <1>1, <3>3
    <3>5. i \in Same(v, j) /\ k \in Same(v, j) /\ i < r2 /\ r2 < k
      BY <1>1, <1>8, <1>12, <3>2, <3>4
    <3> QED
      BY <1>11, <1>14, <3>1, <3>5
  <2> QED
    BY <2>2, <2>3
<1>17. Redelivered(v, r2) \in SUBSET DOMAIN v /\ Redelivered(ev, r) \in SUBSET C
  <2>1. Redelivered(v, r2) \subseteq Keyed(v)
    BY <1>2
  <2>2. Keyed(v) \subseteq DOMAIN v
    BY <1>10
  <2> QED
    BY <1>7, <2>1, <2>2
<1>18. /\ ActorsOf(v, Redelivered(v, r2)) = ActorsOf(ev, Redelivered(ev, r))
       /\ Topics(v, Redelivered(v, r2)) = Topics(ev, Redelivered(ev, r))
       /\ Redelivered(v, r2) # {}
  BY <1>5, <1>16, <1>17, PlacesMatch, MatchesName
<1>19. v[r2].actor = ev[r].actor
  BY <1>1, <1>8
<1> DEFINE b == Found(v, r2)
<1>20. b \in Replays(v)
  BY <1>3, <1>9, <1>18 DEF Replays
<1>21. Fingerprint(b) = Fingerprint(a)
  BY <1>6, <1>18, <1>19 DEF Found, Fingerprint, Artifact
<1> QED
  BY <1>20, <1>21

\* A revoked actor's use of capabilities.
LEMMA RevokedCapabilitiesKept ==
    ASSUME NEW ev, NEW v, NEW m, NEW C, Kept(m, v, ev, C),
           NEW a \in RevokedCapabilities(ev), a.seeds \subseteq C
    PROVE  \E b \in RevokedCapabilities(v) : Fingerprint(b) = Fingerprint(a)
<1> DEFINE Used(e, r) == {i \in (r + 1)..Len(e) : e[i].actor = e[r].actor /\ e[i].kind \in Capabilities}
           Uses(e, r) == {e[i].kind : i \in Used(e, r)}
           Found(e, r) == Artifact(r, "post_revocation_capability", "observed_after_revocation",
                             {e[r].actor}, {},
                             <<<<"revocation", e[r].kind>>, <<"capabilities", Uses(e, r)>>>>,
                             {r} \cup Used(e, r))
           Revoked(e) == {r \in DOMAIN e : e[r].kind \in {"credential.revoked", "authorization.revoked"}}
<1>1. \A e, b : b \in RevokedCapabilities(e) <=>
                   \E r \in Revoked(e) : Used(e, r) # {} /\ b = Found(e, r)
  BY Zenon DEF RevokedCapabilities, Events
<1>2. /\ DOMAIN ev = 1..Len(ev) /\ Len(ev) \in Nat /\ DOMAIN v = 1..Len(v) /\ Len(v) \in Nat
      /\ \A i \in DOMAIN v : m[i] \in DOMAIN ev /\ v[i] = ev[m[i]]
      /\ \A c \in C : \E i \in DOMAIN v : m[i] = c
  BY DEF Kept
<1>3. PICK r \in Revoked(ev) : Used(ev, r) # {} /\ a = Found(ev, r)
  <2> HIDE DEF Revoked, Used, Found
  <2> QED
    BY <1>1, Zenon
<1>4. a.seeds = {r} \cup Used(ev, r)
  <2> HIDE DEF Used, Uses
  <2> QED
    BY <1>3 DEF Artifact
<1>5. PICK r2 \in DOMAIN v : m[r2] = r
  BY <1>2, <1>4
<1>6. v[r2] = ev[r] /\ r2 \in Revoked(v)
  BY <1>2, <1>3, <1>5
<1>7. \A i \in DOMAIN v : i \in Used(v, r2) <=> m[i] \in Used(ev, r)
  <2> SUFFICES ASSUME NEW i \in DOMAIN v PROVE i \in Used(v, r2) <=> m[i] \in Used(ev, r)
    OBVIOUS
  <2>1. v[i] = ev[m[i]] /\ (v[i].actor = v[r2].actor => (r2 < i <=> r < m[i]))
    BY <1>2, <1>5, ActorKept
  <2>2. i \in (r2 + 1)..Len(v) <=> r2 < i
    BY <1>2
  <2>3. m[i] \in (r + 1)..Len(ev) <=> r < m[i]
    BY <1>2, <1>3
  <2> QED
    BY <1>6, <2>1, <2>2, <2>3
<1>8. Used(v, r2) \subseteq DOMAIN v
  BY <1>2
<1>9. Uses(v, r2) = Uses(ev, r) /\ Used(v, r2) # {}
  <2>1. Used(ev, r) \subseteq C
    BY <1>4
  <2>2. /\ \A i \in Used(v, r2) : m[i] \in Used(ev, r) /\ v[i] = ev[m[i]]
        /\ \A x \in Used(ev, r) : \E i \in Used(v, r2) : v[i] = ev[x]
    <3> HIDE DEF Used
    <3> QED
      BY <1>2, <1>7, <1>8, <2>1
  <2> HIDE DEF Used
  <2> QED
    BY <1>3, <2>2
<1> DEFINE b == Found(v, r2)
<1>10. b \in RevokedCapabilities(v)
  <2> HIDE DEF Found, Used, Revoked
  <2> QED
    BY <1>1, <1>6, <1>9, Zenon
<1>11. Fingerprint(b) = Fingerprint(a)
  <2> HIDE DEF Uses, Used
  <2> QED
    BY <1>3, <1>6, <1>9 DEF Fingerprint, Artifact
<1> QED
  BY <1>10, <1>11

\* What a window counted.
LEMMA DeliveryCardinalityKept ==
    ASSUME NEW ev, NEW v, NEW m, NEW C, Kept(m, v, ev, C),
           NEW a \in DeliveryCardinality(ev), a.seeds \subseteq C
    PROVE  \E b \in DeliveryCardinality(v) : Fingerprint(b) = Fingerprint(a)
<1> DEFINE Outcome(e) == IF e.observed_samples = e.expected_samples THEN "exact"
                         ELSE IF e.observed_samples < e.expected_samples THEN "missing" ELSE "excess"
           Related(e, i) == {j \in 1..i : e[j].kind \in {"application.sample_written",
                               "application.sample_received", "transport.datagram_replayed", "credential.revoked"}}
           Found(e, i) == Artifact(i, "delivery_cardinality", Outcome(e[i]), {e[i].actor}, Topics(e, {i}),
                             <<<<"cardinality", Outcome(e[i])>>, <<"expected", Count(e[i].expected_samples)>>,
                               <<"observed", Count(e[i].observed_samples)>>>>,
                             LastOf(Related(e, i), 8) \cup {i})
<1>1. \A e, b : b \in DeliveryCardinality(e) <=> \E i \in Windows(e) : b = Found(e, i)
  BY Zenon DEF DeliveryCardinality
<1>2. PICK i \in Windows(ev) : a = Found(ev, i)
  <2> HIDE DEF Found
  <2> QED
    BY <1>1, Zenon
<1>3. i \in C
  <2>1. a.seeds = LastOf(Related(ev, i), 8) \cup {i}
    <3> HIDE DEF Related, Outcome
    <3> QED
      BY <1>2 DEF Artifact
  <2> QED
    BY <2>1
<1>4. PICK i2 \in DOMAIN v : m[i2] = i
  BY <1>3 DEF Kept
<1>5. v[i2] = ev[i] /\ i2 \in Windows(v)
  BY <1>2, <1>4 DEF Kept, Windows, Events
<1>6. Topics(v, {i2}) = Topics(ev, {i})
  BY <1>5 DEF Topics
<1> DEFINE b == Found(v, i2)
<1>7. b \in DeliveryCardinality(v)
  <2> HIDE DEF Found
  <2> QED
    BY <1>1, <1>5, Zenon
<1>8. Fingerprint(b) = Fingerprint(a)
  <2> HIDE DEF Related, Outcome
  <2> QED
    BY <1>2, <1>5, <1>6 DEF Fingerprint, Artifact
<1> QED
  BY <1>7, <1>8

\* Observed keys are observed in a slice.
LEMMA UserKeysKept ==
    ASSUME NEW ev, NEW v, NEW m, NEW C, Kept(m, v, ev, C), NEW i \in DOMAIN v
    PROVE  /\ i \in UserKeys(v) <=> m[i] \in UserKeys(ev)
           /\ v[i] = ev[m[i]]
BY DEF Kept, UserKeys, Events

\* The epochs of an actor's keys.
LEMMA KeyEpochsKept ==
    ASSUME NEW ev, NEW v, NEW m, NEW C, Kept(m, v, ev, C),
           NEW a \in KeyEpochs(ev), a.seeds \subseteq C
    PROVE  \E b \in KeyEpochs(v) : Fingerprint(b) = Fingerprint(a)
<1> DEFINE Generated(e, actor) == {i \in UserKeys(e) : e[i].actor = actor /\ e[i].phase = "generated"}
           Disconnected(e, i) == {j \in 1..(i - 1) : /\ e[j].actor = e[i].actor
                                                     /\ e[j].kind = "participant.disconnected"}
           Early(e, i) == {k \in Generated(e, e[i].actor) : k < Max(Disconnected(e, i))}
           Late(e, i) == {k \in Generated(e, e[i].actor) : k > i}
           Keys(e, indexes) == {e[i].fingerprint : i \in indexes}
           Before(e, i) == Keys(e, Early(e, i))
           After(e, i) == Keys(e, Late(e, i))
           Outcome(e, i) == IF Before(e, i) \cap After(e, i) # {} THEN "reused"
                            ELSE IF Before(e, i) # {} /\ After(e, i) # {} THEN "fresh"
                            ELSE "partially_observed"
           Epoch(e, i) == /\ i \in DOMAIN e /\ e[i].kind = "participant.reconnected"
                          /\ Disconnected(e, i) # {} /\ Before(e, i) \cup After(e, i) # {}
           Found(e, i) == Artifact(i, "participant_key_epoch_transition", Outcome(e, i), {e[i].actor}, {},
                             <<<<"disconnect", e[i].actor>>, <<"reconnect", e[i].actor>>,
                               <<"epoch", Outcome(e, i)>>>>,
                             {Max(Disconnected(e, i)), i} \cup Generated(e, e[i].actor))
<1>1. \A e, b : b \in KeyEpochs(e) <=> \E i : Epoch(e, i) /\ b = Found(e, i)
  <2> SUFFICES ASSUME NEW e PROVE \A b : b \in KeyEpochs(e) <=> \E i : Epoch(e, i) /\ b = Found(e, i)
    OBVIOUS
  <2> DEFINE epochs == {i \in Events(e, LAMBDA x : x.kind = "participant.reconnected") :
                          Disconnected(e, i) # {} /\ Before(e, i) \cup After(e, i) # {}}
  <2>1. KeyEpochs(e) = {Found(e, i) : i \in epochs}
    BY Zenon DEF KeyEpochs
  <2>2. \A i : i \in epochs <=> Epoch(e, i)
    <3> HIDE DEF Disconnected, Before, After
    <3> QED
      BY DEF Events
  <2> HIDE DEF Found, epochs, Epoch
  <2> QED
    BY <2>1, <2>2
<1>2. PICK i : Epoch(ev, i) /\ a = Found(ev, i)
  <2> HIDE DEF Epoch, Found
  <2> QED
    BY <1>1, Zenon
<1>3. /\ DOMAIN ev = 1..Len(ev) /\ Len(ev) \in Nat /\ DOMAIN v = 1..Len(v) /\ Len(v) \in Nat
      /\ \A j \in DOMAIN v : m[j] \in DOMAIN ev /\ v[j] = ev[m[j]]
      /\ \A c \in C : \E j \in DOMAIN v : m[j] = c
      /\ \A j, k \in DOMAIN v : v[j].actor = v[k].actor => (j < k <=> m[j] < m[k])
  <2>1. \A j, k \in DOMAIN v : v[j].actor = v[k].actor => (j < k <=> m[j] < m[k])
    BY ActorKept
  <2> QED
    BY <2>1 DEF Kept
<1> DEFINE last == Max(Disconnected(ev, i))
           actor == ev[i].actor
<1>4. last \in C /\ i \in C /\ Generated(ev, actor) \subseteq C
  <2>1. a.seeds = {last, i} \cup Generated(ev, actor)
    <3> HIDE DEF last, Generated, Outcome
    <3> QED
      BY <1>2 DEF Artifact, last
  <2> QED
    BY <2>1
<1>5. PICK i2 \in DOMAIN v, d2 \in DOMAIN v : m[i2] = i /\ m[d2] = last
  <2> HIDE DEF last
  <2> QED
    BY <1>3, <1>4
<1>6. v[i2] = ev[i] /\ i \in DOMAIN ev
  BY <1>3, <1>5
<1>7. \A j \in DOMAIN v : j \in Generated(v, actor) <=> m[j] \in Generated(ev, actor)
  BY UserKeysKept
<1>8. \A j \in DOMAIN v : j \in Disconnected(v, i2) <=> m[j] \in Disconnected(ev, i)
  <2> SUFFICES ASSUME NEW j \in DOMAIN v PROVE j \in Disconnected(v, i2) <=> m[j] \in Disconnected(ev, i)
    OBVIOUS
  <2>1. v[j] = ev[m[j]] /\ (v[j].actor = v[i2].actor => (j < i2 <=> m[j] < i))
    BY <1>3, <1>5
  <2>2. j \in 1..(i2 - 1) <=> j < i2
    BY <1>3
  <2>3. m[j] \in 1..(i - 1) <=> m[j] < i
    BY <1>3, <1>6
  <2> QED
    BY <1>6, <2>1, <2>2, <2>3
<1>9. Disconnected(v, i2) \subseteq 1..Len(v) /\ Disconnected(ev, i) \subseteq 1..Len(ev)
  BY <1>3, <1>6
<1>10. /\ last \in Disconnected(ev, i) /\ \A x \in Disconnected(ev, i) : x <= last
  <2>1. Disconnected(ev, i) # {}
    BY <1>2
  <2> HIDE DEF Disconnected
  <2> QED
    BY <1>3, <1>9, <2>1, GreatestMember
<1>11. d2 \in Disconnected(v, i2)
  <2> HIDE DEF Disconnected, last
  <2> QED
    BY <1>5, <1>8, <1>10
\* The slice's latest disconnection is the evidence's.
<1>12. Max(Disconnected(v, i2)) = d2
  <2> DEFINE D == Disconnected(v, i2)
  <2>1. D \subseteq 1..Len(v) /\ d2 \in D
    BY <1>9, <1>11
  <2> HIDE DEF D
  <2>2. Max(D) \in D /\ d2 <= Max(D)
    BY <1>3, <2>1, GreatestMember
  <2>3. Max(D) \in DOMAIN v
    BY <1>3, <2>1, <2>2
  <2>4. m[Max(D)] <= last
    <3> HIDE DEF Disconnected, last
    <3> QED
      BY <1>8, <1>10, <2>2, <2>3 DEF D
  <2>5. last \in DOMAIN ev
    BY <1>3, <1>5
  <2> HIDE DEF last
  <2>8. v[Max(D)].actor = v[d2].actor
    BY <1>11, <2>2 DEF D
  <2> DEFINE h == Max(D)
  <2>6. h \in DOMAIN v /\ d2 <= h /\ m[h] <= last /\ (d2 < h <=> m[d2] < m[h]) /\ m[h] \in DOMAIN ev
    BY <1>3, <1>5, <2>2, <2>3, <2>4, <2>8
  <2> HIDE DEF h
  <2>7. h = d2
    BY <1>3, <1>5, <2>5, <2>6
  <2> QED
    BY <2>7 DEF h, D
<1>13. \A j \in DOMAIN v : /\ j \in Early(v, i2) <=> m[j] \in Early(ev, i)
                           /\ j \in Late(v, i2) <=> m[j] \in Late(ev, i)
  <2> SUFFICES ASSUME NEW j \in DOMAIN v
               PROVE  /\ j \in Early(v, i2) <=> m[j] \in Early(ev, i)
                      /\ j \in Late(v, i2) <=> m[j] \in Late(ev, i)
    OBVIOUS
  <2>5. v[d2].actor = actor /\ v[i2].actor = actor
    BY <1>6, <1>11
  <2>1. v[j].actor = actor => (j < d2 <=> m[j] < last)
    <3> HIDE DEF last
    <3> QED
      BY <1>3, <1>5, <2>5
  <2>2. v[j].actor = actor => (j > i2 <=> m[j] > i)
    BY <1>3, <1>5, <2>5
  <2>3. j \in Generated(v, actor) <=> m[j] \in Generated(ev, actor)
    BY <1>7
  <2>4. j \in Generated(v, actor) => v[j].actor = actor
    OBVIOUS
  <2> HIDE DEF Generated, Disconnected
  <2> QED
    BY <1>12, <2>1, <2>2, <2>3, <2>4, <2>5
<1>14. /\ Early(v, i2) \subseteq DOMAIN v /\ Late(v, i2) \subseteq DOMAIN v
       /\ Early(ev, i) \subseteq C /\ Late(ev, i) \subseteq C
  <2>1. Generated(v, v[i2].actor) \subseteq DOMAIN v
    BY DEF UserKeys, Events
  <2> HIDE DEF Generated
  <2> QED
    BY <1>4, <2>1
<1> HIDE DEF Early, Late
<1>15. Before(v, i2) = Before(ev, i) /\ After(v, i2) = After(ev, i)
  <2>1. /\ \A j \in Early(v, i2) : m[j] \in Early(ev, i) /\ v[j] = ev[m[j]]
        /\ \A x \in Early(ev, i) : \E j \in Early(v, i2) : v[j] = ev[x]
    BY <1>3, <1>13, <1>14
  <2>2. /\ \A j \in Late(v, i2) : m[j] \in Late(ev, i) /\ v[j] = ev[m[j]]
        /\ \A x \in Late(ev, i) : \E j \in Late(v, i2) : v[j] = ev[x]
    BY <1>3, <1>13, <1>14
  <2>3. Before(v, i2) = Before(ev, i)
    BY <2>1
  <2>4. After(v, i2) = After(ev, i)
    BY <2>2
  <2> QED
    BY <2>3, <2>4
<1>16. Epoch(v, i2)
  <2>1. Disconnected(v, i2) # {}
    BY <1>11
  <2> HIDE DEF Disconnected, Before, After
  <2> QED
    BY <1>2, <1>6, <1>15, <2>1
<1>17. Outcome(v, i2) = Outcome(ev, i)
  <2> HIDE DEF Before, After
  <2> QED
    BY <1>15
<1> DEFINE b == Found(v, i2)
<1>18. b \in KeyEpochs(v)
  <2> HIDE DEF Epoch, Found
  <2> QED
    BY <1>1, <1>16, Zenon
<1>19. Fingerprint(b) = Fingerprint(a)
  <2> HIDE DEF Outcome, Disconnected, Generated
  <2> QED
    BY <1>2, <1>6, <1>17 DEF Fingerprint, Artifact
<1> QED
  BY <1>18, <1>19

\* Who generated and who received a key.
LEMMA KeyRecipientsKept ==
    ASSUME NEW ev, NEW v, NEW m, NEW C, Kept(m, v, ev, C),
           NEW a \in KeyRecipients(ev), a.seeds \subseteq C
    PROVE  \E b \in KeyRecipients(v) : Fingerprint(b) = Fingerprint(a)
<1> DEFINE Members(e, f) == {i \in UserKeys(e) : e[i].fingerprint = f}
           At(e, f, phase) == {i \in Members(e, f) : e[i].phase = phase}
           In(e, f, phase) == ActorsOf(e, At(e, f, phase))
           Shapes(e, f) == {<<e[i].token_class, e[i].key_class, e[i].semantics>> : i \in Members(e, f)}
           Outcome(e, f) == IF In(e, f, "received") = {} THEN "no_received_observation"
                            ELSE IF Cardinality(In(e, f, "received")) = 1 THEN "single_recipient"
                            ELSE "multiple_recipients"
           Known(e, f) == /\ f \in {e[i].fingerprint : i \in UserKeys(e)}
                          /\ In(e, f, "generated") # {}
           Found(e, f) == Artifact(Min(Members(e, f)), "key_recipient_topology", Outcome(e, f),
                             In(e, f, "generated") \cup In(e, f, "received"), {},
                             <<<<"generators", Cardinality(In(e, f, "generated"))>>,
                               <<"recipients", Cardinality(In(e, f, "received"))>>,
                               <<"shapes", Shapes(e, f)>>>>,
                             Members(e, f))
<1>1. \A e, b : b \in KeyRecipients(e) <=> \E f : Known(e, f) /\ b = Found(e, f)
  BY Zenon DEF KeyRecipients
<1>2. PICK f : Known(ev, f) /\ a = Found(ev, f)
  <2> HIDE DEF Known, Found
  <2> QED
    BY <1>1, Zenon
<1>3. Members(ev, f) \subseteq C
  <2>1. a.seeds = Members(ev, f)
    <3> HIDE DEF Members, Outcome, In, Shapes
    <3> QED
      BY <1>2 DEF Artifact
  <2> QED
    BY <2>1
<1>4. \A i \in DOMAIN v : i \in Members(v, f) <=> m[i] \in Members(ev, f)
  BY UserKeysKept
<1>5. Members(v, f) \in SUBSET DOMAIN v
  BY DEF UserKeys, Events
<1>6. ASSUME NEW phase PROVE In(v, f, phase) = In(ev, f, phase)
  <2>1. \A i \in DOMAIN v : i \in At(v, f, phase) <=> m[i] \in At(ev, f, phase)
    <3> HIDE DEF Members
    <3> QED
      BY <1>4, UserKeysKept
  <2>2. At(v, f, phase) \in SUBSET DOMAIN v /\ At(ev, f, phase) \in SUBSET C
    BY <1>3, <1>5
  <2> HIDE DEF At
  <2> QED
    BY <2>1, <2>2, PlacesMatch, MatchesName
<1>7. Shapes(v, f) = Shapes(ev, f)
  <2>1. /\ \A i \in Members(v, f) : m[i] \in Members(ev, f) /\ v[i] = ev[m[i]]
        /\ \A x \in Members(ev, f) : \E i \in Members(v, f) : v[i] = ev[x]
    <3> HIDE DEF Members
    <3> QED
      BY <1>3, <1>4, <1>5 DEF Kept
  <2> HIDE DEF Members
  <2> QED
    BY <2>1
<1>8. Known(v, f)
  <2>1. In(v, f, "generated") # {}
    BY <1>2, <1>6
  <2>2. Members(v, f) # {}
    BY <2>1 DEF ActorsOf
  <2>3. f \in {v[i].fingerprint : i \in UserKeys(v)}
    BY <2>2
  <2> QED
    BY <2>1, <2>3
<1>9. Outcome(v, f) = Outcome(ev, f)
  <2> HIDE DEF In
  <2> QED
    BY <1>6
<1> DEFINE b == Found(v, f)
<1>10. b \in KeyRecipients(v)
  <2> HIDE DEF Known, Found
  <2> QED
    BY <1>1, <1>8, Zenon
<1>11. Fingerprint(b) = Fingerprint(a)
  <2> HIDE DEF Outcome, In, Shapes, Members
  <2> QED
    BY <1>2, <1>6, <1>7, <1>9 DEF Fingerprint, Artifact
<1> QED
  BY <1>10, <1>11

\* The bindings of identities: an identity of several actors, and an actor of
\* several identities, are established by all events that bind them.
LEMMA IdentityBindingsKept ==
    ASSUME NEW S, NEW ev \in Seq(S), NEW v, NEW m, NEW C, Kept(m, v, ev, C),
           NEW a \in IdentityBindings(ev), a.seeds \subseteq C
    PROVE  \E b \in IdentityBindings(v) : Fingerprint(b) = Fingerprint(a)
<1> DEFINE Bound(e) == Events(e, LAMBDA x : x.kind = "credential.authenticated" /\ Attr(x, "guid") # None)
           With(e, guid) == {i \in Bound(e) : e[i].guid = guid}
           Holders(e, guid) == ActorsOf(e, With(e, guid))
           Guids(e, actor) == {e[i].guid : i \in {j \in Bound(e) : e[j].actor = actor}}
           Shared(e) == {j \in Bound(e) : Cardinality(Holders(e, e[j].guid)) > 1}
           Collided(e) == {e[i].actor : i \in Shared(e)}
           Reconnects(e, actor) == Events(e, LAMBDA x : x.actor = actor /\ x.kind = "participant.reconnected")
           Outcome(e, actor) == IF Reconnects(e, actor) = {} THEN "multiple_bindings_observed"
                                ELSE "rebound_after_reconnect"
           At(e, actors) == {i \in Bound(e) : e[i].actor \in actors}
           Crossed(e) == Artifact(0, "identity_guid_binding", "cross_actor_binding", Collided(e), {},
                            <<<<"cross_actor", Collided(e)>>>>, At(e, Collided(e)))
           Rebound(e, actor) == Artifact(Min(At(e, {actor})), "identity_guid_binding", Outcome(e, actor),
                                   {actor}, {}, <<<<"rebound", actor>>>>,
                                   At(e, {actor}) \cup Reconnects(e, actor))
           Several(e) == {x \in ActorsOf(e, Bound(e)) : Cardinality(Guids(e, x)) > 1}
<1>1. \A e : IdentityBindings(e) = (IF Collided(e) = {} THEN {} ELSE {Crossed(e)})
                                      \cup {Rebound(e, actor) : actor \in Several(e)}
  BY Zenon DEF IdentityBindings
<1>2. /\ DOMAIN ev = 1..Len(ev) /\ Len(ev) \in Nat
      /\ \A i \in DOMAIN v : m[i] \in DOMAIN ev /\ v[i] = ev[m[i]]
      /\ \A c \in C : \E i \in DOMAIN v : m[i] = c
  BY DEF Kept
<1>3. \A i \in DOMAIN v : i \in Bound(v) <=> m[i] \in Bound(ev)
  BY <1>2 DEF Events
<1>4. Bound(v) \subseteq DOMAIN v /\ Bound(ev) \subseteq DOMAIN ev
  BY DEF Events
<1>5. \A actor : \A i \in DOMAIN v : i \in Reconnects(v, actor) <=> m[i] \in Reconnects(ev, actor)
  BY <1>2 DEF Events
<1>6. \A actor : Reconnects(v, actor) \subseteq DOMAIN v
  BY DEF Events
<1> HIDE DEF Bound, Reconnects
<1>7. CASE Collided(ev) # {} /\ a = Crossed(ev)
  <2>1. At(ev, Collided(ev)) \subseteq C
    <3>1. a.seeds = At(ev, Collided(ev))
      <4> HIDE DEF At, Collided
      <4> QED
        BY <1>7 DEF Artifact
    <3> QED
      BY <3>1
  <2>2. ASSUME NEW guid
        PROVE  /\ Holders(v, guid) \subseteq Holders(ev, guid) /\ IsFiniteSet(Holders(ev, guid))
               /\ Cardinality(Holders(v, guid)) <= Cardinality(Holders(ev, guid))
               /\ Cardinality(Holders(v, guid)) \in Nat /\ Cardinality(Holders(ev, guid)) \in Nat
    <3>1. Holders(v, guid) \subseteq Holders(ev, guid)
      BY <1>2, <1>3, <1>4 DEF ActorsOf
    <3>2. IsFiniteSet(Holders(ev, guid))
      <4>1. IsFiniteSet(DOMAIN ev)
        BY <1>2, FS_Interval
      <4>2. With(ev, guid) \subseteq DOMAIN ev
        BY <1>4
      <4>3. IsFiniteSet(With(ev, guid))
        BY <4>1, <4>2, FS_Subset
      <4> DEFINE T == With(ev, guid)
                 H == Holders(ev, guid)
                 f == [i \in T |-> ev[i].actor]
      <4>4. H = {ev[i].actor : i \in T}
        BY DEF ActorsOf
      <4> HIDE DEF T, H
      <4>5. f \in Surjection(T, H)
        BY <4>4 DEF Surjection
      <4> HIDE DEF f
      <4>6. IsFiniteSet(H)
        BY <4>3, <4>5, FS_Surjection DEF T
      <4> QED
        BY <4>6 DEF H
    <3> HIDE DEF Holders
    <3> QED
      BY <3>1, <3>2, FS_Subset, FS_CardinalityType
  <2>3. ASSUME NEW guid, Cardinality(Holders(ev, guid)) > 1
        PROVE  Holders(v, guid) = Holders(ev, guid)
    <3>1. ASSUME NEW i \in With(ev, guid) PROVE i \in C
      <4>1. i \in Shared(ev)
        BY <2>3, <3>1
      <4>2. i \in At(ev, Collided(ev))
        <5> HIDE DEF Shared
        <5> QED
          BY <3>1, <4>1
      <4> QED
        BY <2>1, <4>2
    <3>2. ASSUME NEW x \in Holders(ev, guid) PROVE x \in Holders(v, guid)
      <4>1. PICK i \in With(ev, guid) : x = ev[i].actor
        BY <3>2 DEF ActorsOf
      <4>2. PICK j \in DOMAIN v : m[j] = i
        BY <1>2, <3>1
      <4>3. j \in With(v, guid) /\ v[j].actor = x
        BY <1>2, <1>3, <4>1, <4>2
      <4> QED
        BY <4>3 DEF ActorsOf
    <3> QED
      BY <2>2, <3>2
  <2>4. \A i \in DOMAIN v : i \in Shared(v) <=> m[i] \in Shared(ev)
    <3> SUFFICES ASSUME NEW i \in DOMAIN v PROVE i \in Shared(v) <=> m[i] \in Shared(ev)
      OBVIOUS
    <3> DEFINE guid == v[i].guid
               few == Cardinality(Holders(v, guid))
               many == Cardinality(Holders(ev, guid))
    <3>1. ev[m[i]].guid = guid
      BY <1>2
    <3>2. few \in Nat /\ many \in Nat /\ few <= many /\ (many > 1 => few = many)
      BY <2>2, <2>3
    <3>3. few > 1 <=> many > 1
      <4> HIDE DEF few, many
      <4> QED
        BY <3>2
    <3> HIDE DEF Holders
    <3> QED
      BY <1>3, <3>1, <3>3
  <2>5. Collided(v) = Collided(ev)
    <3>1. Shared(ev) \subseteq C
      <4>1. Shared(ev) \subseteq At(ev, Collided(ev))
        <5> HIDE DEF Holders
        <5> QED
          OBVIOUS
      <4> QED
        BY <2>1, <4>1
    <3>2. Shared(v) \subseteq DOMAIN v
      BY <1>4
    <3> HIDE DEF Shared
    <3>3. /\ \A i \in Shared(v) : m[i] \in Shared(ev) /\ v[i] = ev[m[i]]
          /\ \A x \in Shared(ev) : \E i \in Shared(v) : v[i] = ev[x]
      BY <1>2, <2>4, <3>1, <3>2
    <3> QED
      BY <3>3
  <2> DEFINE b == Crossed(v)
  <2>6. b \in IdentityBindings(v)
    <3> HIDE DEF Collided, Crossed, Rebound, Several
    <3> QED
      BY <1>1, <1>7, <2>5
  <2>7. Fingerprint(b) = Fingerprint(a)
    <3> HIDE DEF Collided, At
    <3> QED
      BY <1>7, <2>5 DEF Fingerprint, Artifact
  <2> QED
    BY <2>6, <2>7
<1>8. ASSUME NEW actor \in Several(ev), a = Rebound(ev, actor)
      PROVE  \E b \in IdentityBindings(v) : Fingerprint(b) = Fingerprint(a)
  <2>1. At(ev, {actor}) \subseteq C /\ Reconnects(ev, actor) \subseteq C
    <3>1. a.seeds = At(ev, {actor}) \cup Reconnects(ev, actor)
      <4> HIDE DEF At, Outcome
      <4> QED
        BY <1>8 DEF Artifact
    <3> QED
      BY <3>1
  <2>2. \A x \in Bound(ev) : ev[x].actor = actor =>
            \E i \in Bound(v) : m[i] = x /\ v[i] = ev[x]
    BY <1>2, <1>3, <1>4, <2>1
  <2>3. Guids(v, actor) = Guids(ev, actor)
    <3>1. \A i \in Bound(v) : m[i] \in Bound(ev) /\ v[i] = ev[m[i]]
      BY <1>2, <1>3, <1>4
    <3> QED
      BY <2>2, <3>1
  <2>4. actor \in ActorsOf(v, Bound(v))
    BY <1>8, <2>2 DEF ActorsOf
  <2>5. actor \in Several(v)
    <3> HIDE DEF Guids
    <3> QED
      BY <1>8, <2>3, <2>4
  <2>6. Reconnects(v, actor) = {} <=> Reconnects(ev, actor) = {}
    BY <1>2, <1>5, <1>6, <2>1
  <2>7. Outcome(v, actor) = Outcome(ev, actor)
    BY <2>6
  <2> DEFINE b == Rebound(v, actor)
  <2>8. b \in IdentityBindings(v)
    <3> HIDE DEF Collided, Crossed, Rebound, Several
    <3> QED
      BY <1>1, <2>5
  <2>9. Fingerprint(b) = Fingerprint(a)
    <3> HIDE DEF Outcome, At
    <3> QED
      BY <1>8, <2>7 DEF Fingerprint, Artifact
  <2> QED
    BY <2>8, <2>9
<1> HIDE DEF Collided, Crossed, Rebound, Several
<1>9. \/ Collided(ev) # {} /\ a = Crossed(ev)
      \/ \E actor \in Several(ev) : a = Rebound(ev, actor)
  BY <1>1
<1> QED
  BY <1>7, <1>8, <1>9

\* The seeds of an artifact are events.
LEMMA SeedsAreEvents ==
    ASSUME NEW s, NEW S, NEW ev \in Seq(S), NEW a \in All(s, ev)
    PROVE  a.seeds \in SUBSET DOMAIN ev
<1>1. DOMAIN ev = 1..Len(ev) /\ Len(ev) \in Nat
  OBVIOUS
<1>2. CASE a \in Revocations(s, ev)
  <2>1. PICK p \in LocalRevocations(ev) \X Succeeded(ev) : a \in RevocationArtifact(s, ev, p[1], p[2])
    BY <1>2 DEF Revocations
  <2> QED
    BY <2>1 DEF RevocationArtifact, Artifact, LocalRevocations, Succeeded, Delivered, Windows, Events
<1>3. CASE a \in Replays(ev)
  <2>1. PICK r \in Replayed(ev) : a \in ReplayArtifact(ev, r)
    BY <1>3 DEF Replays
  <2>2. Redelivered(ev, r) \subseteq DOMAIN ev /\ Windows(ev) \subseteq DOMAIN ev /\ r \in DOMAIN ev
    BY DEF Redelivered, Receipts, Windows, Replayed, Events
  <2>3. a.seeds \subseteq {r} \cup Redelivered(ev, r) \cup Windows(ev)
    BY <2>1 DEF ReplayArtifact, Artifact
  <2> QED
    BY <2>2, <2>3
<1>4. CASE a \in KeyEpochs(ev)
  <2> DEFINE Disconnected(i) == {j \in 1..(i - 1) : /\ ev[j].actor = ev[i].actor
                                                    /\ ev[j].kind = "participant.disconnected"}
             Generated(actor) == {i \in UserKeys(ev) : ev[i].actor = actor /\ ev[i].phase = "generated"}
  <2>1. \E i \in DOMAIN ev : \E o, as, rs, sg : /\ Disconnected(i) # {}
            /\ a = Artifact(i, "participant_key_epoch_transition", o, as, rs, sg,
                            {Max(Disconnected(i)), i} \cup Generated(ev[i].actor))
    BY <1>4, Zenon DEF KeyEpochs, Events
  <2>2. PICK i \in DOMAIN ev : /\ Disconnected(i) # {}
                               /\ a.seeds = {Max(Disconnected(i)), i} \cup Generated(ev[i].actor)
    <3> HIDE DEF Disconnected, Generated
    <3> QED
      BY <2>1 DEF Artifact
  <2>3. Disconnected(i) \subseteq 1..Len(ev) /\ Generated(ev[i].actor) \subseteq DOMAIN ev
    BY <1>1 DEF UserKeys, Events
  <2> HIDE DEF Disconnected, Generated
  <2>4. Max(Disconnected(i)) \in 1..Len(ev)
    BY <1>1, <2>2, <2>3, GreatestMember
  <2> QED
    BY <1>1, <2>2, <2>3, <2>4
<1>5. CASE a \in KeyRecipients(ev)
  <2> DEFINE Members(f) == {i \in UserKeys(ev) : ev[i].fingerprint = f}
  <2>1. \E f, at, o, as, rs, sg : a = Artifact(at, "key_recipient_topology", o, as, rs, sg, Members(f))
    BY <1>5, Zenon DEF KeyRecipients
  <2>2. \A f : Members(f) \subseteq DOMAIN ev
    BY DEF UserKeys, Events
  <2> HIDE DEF Members
  <2> QED
    BY <2>1, <2>2 DEF Artifact
<1>6. CASE a \in IdentityBindings(ev)
  <2> DEFINE bound == Events(ev, LAMBDA e : e.kind = "credential.authenticated" /\ Attr(e, "guid") # None)
             At(actors) == {i \in bound : ev[i].actor \in actors}
             Reconnects(actor) == Events(ev, LAMBDA e : e.actor = actor /\ e.kind = "participant.reconnected")
             collided == {ev[i].actor : i \in {j \in bound :
                            Cardinality(ActorsOf(ev, {k \in bound : ev[k].guid = ev[j].guid})) > 1}}
             Outcome(actor) == IF Reconnects(actor) = {} THEN "multiple_bindings_observed"
                               ELSE "rebound_after_reconnect"
             Crossed == Artifact(0, "identity_guid_binding", "cross_actor_binding", collided, {},
                                 <<<<"cross_actor", collided>>>>, At(collided))
             Rebound(actor) == Artifact(Min(At({actor})), "identity_guid_binding", Outcome(actor),
                                 {actor}, {}, <<<<"rebound", actor>>>>, At({actor}) \cup Reconnects(actor))
             several == {x \in ActorsOf(ev, bound) :
                            Cardinality({ev[i].guid : i \in {j \in bound : ev[j].actor = x}}) > 1}
  <2>1. IdentityBindings(ev) = (IF collided = {} THEN {} ELSE {Crossed})
                                  \cup {Rebound(actor) : actor \in several}
    BY Zenon DEF IdentityBindings
  <2>2. \A actor : At({actor}) \subseteq DOMAIN ev /\ Reconnects(actor) \subseteq DOMAIN ev
    BY DEF Events
  <2>3. At(collided) \subseteq DOMAIN ev
    BY DEF Events
  <2>4. Crossed.seeds = At(collided) /\ \A actor : Rebound(actor).seeds = At({actor}) \cup Reconnects(actor)
    <3> HIDE DEF At, Reconnects, collided, Outcome
    <3> QED
      BY DEF Artifact
  <2> HIDE DEF At, Reconnects, collided, several, Crossed, Rebound
  <2>5. a = Crossed \/ \E actor : a = Rebound(actor)
    BY <1>6, <2>1
  <2> QED
    BY <2>2, <2>3, <2>4, <2>5
<1>7. CASE a \in RevokedCapabilities(ev)
  <2> DEFINE Used(r) == {i \in (r + 1)..Len(ev) : ev[i].actor = ev[r].actor /\ ev[i].kind \in Capabilities}
  <2>1. \E r \in DOMAIN ev : \E o, as, rs, sg :
           a = Artifact(r, "post_revocation_capability", o, as, rs, sg, {r} \cup Used(r))
    BY <1>7, Zenon DEF RevokedCapabilities, Events
  <2>2. PICK r \in DOMAIN ev : a.seeds = {r} \cup Used(r)
    <3> HIDE DEF Used
    <3> QED
      BY <2>1 DEF Artifact
  <2>3. Used(r) \subseteq DOMAIN ev
    BY <1>1
  <2> QED
    BY <2>2, <2>3
<1>8. CASE a \in DeliveryCardinality(ev)
  <2> DEFINE Related(i) == {j \in 1..i : ev[j].kind \in {"application.sample_written",
                "application.sample_received", "transport.datagram_replayed", "credential.revoked"}}
  <2>1. \E i \in Windows(ev) : \E o, as, rs, sg :
           a = Artifact(i, "delivery_cardinality", o, as, rs, sg, LastOf(Related(i), 8) \cup {i})
    BY <1>8, Zenon DEF DeliveryCardinality
  <2>2. PICK i \in Windows(ev) : a.seeds = LastOf(Related(i), 8) \cup {i}
    <3> HIDE DEF Related
    <3> QED
      BY <2>1 DEF Artifact
  <2>3. i \in DOMAIN ev
    BY DEF Windows, Events
  <2>4. Related(i) \subseteq DOMAIN ev
    BY <1>1, <2>3
  <2> HIDE DEF Related
  <2> QED
    BY <2>2, <2>3, <2>4 DEF LastOf
<1> QED
  BY <1>2, <1>3, <1>4, <1>5, <1>6, <1>7, <1>8 DEF All

\* From the slice an artifact is exported with, the same artifact is discovered,
\* unless it is a suppressed replay.
THEOREM SlicesSupport == Spec => []SliceSupportsArtifact
<1>1. EvidenceInv => SliceSupportsArtifact
  <2> SUFFICES ASSUME EvidenceInv, NEW a \in SemanticArtifacts(Scenario, Evidence),
                      a.family # "replay_suppression_observed"
               PROVE  \E b \in SemanticArtifacts(Scenario, Part(Evidence, CausalSlice(Evidence, a.seeds))) :
                         Fingerprint(a) = Fingerprint(b)
    BY Zenon DEF SliceSupportsArtifact
  <2> DEFINE S == case.alphabet \cup Range(tail)
             ev == Evidence
             C == CausalSlice(ev, a.seeds)
             v == Part(ev, C)
  <2>1. ev \in Seq(S)
    BY EvidenceRearranges
  <2>2. a \in All(Scenario, ev)
    BY DistinctFound
  <2> HIDE DEF S, ev
  <2>3. a.seeds \in SUBSET DOMAIN ev
    BY <2>1, <2>2, SeedsAreEvents
  <2>4. a.seeds \subseteq C /\ C \in SUBSET DOMAIN ev
    BY <2>1, <2>3, SliceBounds
  <2> HIDE DEF C
  <2>5. v \in Seq(S) /\ \E m : IsSlice(m, v, ev, C)
    BY <2>1, <2>4, PartIsSlice
  <2> HIDE DEF v
  <2>6. PICK m : IsSlice(m, v, ev, C)
    BY <2>5
  <2>7. Kept(m, v, ev, C) /\ InPlace(m, v)
    BY <2>1, <2>5, <2>6, SliceKeeps
  <2>8. ASSUME NEW b \in All(Scenario, v), Fingerprint(b) = Fingerprint(a)
        PROVE  \E c \in SemanticArtifacts(Scenario, v) : Fingerprint(a) = Fingerprint(c)
    BY <2>5, <2>8, DistinctKeeps
  <2>9. \E b \in All(Scenario, v) : Fingerprint(b) = Fingerprint(a)
    <3>1. CASE a \in Revocations(Scenario, ev)
      <4>1. ShowsDelivery(m, v, a)
        BY <2>7 DEF ShowsDelivery
      <4> QED
        BY <2>4, <2>7, <3>1, <4>1, RevocationsKept DEF All
    <3>2. CASE a \in Replays(ev)
      BY <2>4, <2>7, <3>2, ReplaysKept DEF All
    <3>3. CASE a \in KeyEpochs(ev)
      BY <2>4, <2>7, <3>3, KeyEpochsKept DEF All
    <3>4. CASE a \in KeyRecipients(ev)
      BY <2>4, <2>7, <3>4, KeyRecipientsKept DEF All
    <3>5. CASE a \in IdentityBindings(ev)
      BY <2>1, <2>4, <2>7, <3>5, IdentityBindingsKept DEF All
    <3>6. CASE a \in RevokedCapabilities(ev)
      BY <2>4, <2>7, <3>6, RevokedCapabilitiesKept DEF All
    <3>7. CASE a \in DeliveryCardinality(ev)
      BY <2>4, <2>7, <3>7, DeliveryCardinalityKept DEF All
    <3> QED
      BY <2>2, <3>1, <3>2, <3>3, <3>4, <3>5, <3>6, <3>7 DEF All
  <2> QED
    BY <2>8, <2>9 DEF ev, C, v
<1> QED
  BY <1>1, EvidenceInvariant, PTL

-----------------------------------------------------------------------------
(* The interleaving of the logs.                                           *)

\* The same events, those that are ordered in the same order.
Aligned(m, ev, ev2) ==
    /\ DOMAIN ev = 1..Len(ev) /\ Len(ev) \in Nat /\ DOMAIN ev2 = 1..Len(ev2) /\ Len(ev2) \in Nat
    /\ m \in [DOMAIN ev -> DOMAIN ev2]
    /\ \A i \in DOMAIN ev : ev2[m[i]] = ev[i]
    /\ \A i, j \in DOMAIN ev : m[i] = m[j] => i = j
    /\ \A j \in DOMAIN ev2 : \E i \in DOMAIN ev : m[i] = j
    /\ \A i, j \in DOMAIN ev : Ordered(ev[i], ev[j]) => (i < j <=> m[i] < m[j])

LEMMA OrderedBack ==
    ASSUME NEW e, NEW f, Ordered(e, f) PROVE Ordered(f, e)
BY DEF Ordered

\* What is read in a causal order is aligned with what was written.
LEMMA EvidenceAligned ==
    ASSUME EvidenceInv, CausalOrderRead, Evidence # Written
    PROVE  \E m : Aligned(m, Evidence, Written)
<1> DEFINE asc == Ascending(Range(read))
           S == Range(read)
           n == Len(read)
           n2 == Len(asc)
           ev == Evidence
           ev2 == Written
<1>1. tail \in Seq(Range(tail))
  BY DEF EvidenceInv, EndKept
<1>2. /\ emitted \in Seq(case.alphabet) /\ S \subseteq DOMAIN emitted
      /\ Lists(asc, S) /\ InOrder(emitted, asc)
      /\ Lists(Order, S) /\ InOrder(emitted, Order)
      /\ ev = Listed(emitted, Order, tail)
      /\ ev2 = Listed(emitted, asc, tail)
  BY EvidenceLists
<1>3. Order = read
  BY <1>2 DEF Order
<1>4. IsFiniteSet(S) /\ S \in SUBSET Int
  <2>1. DOMAIN emitted = 1..Len(emitted) /\ Len(emitted) \in Nat
    BY <1>2
  <2>2. IsFiniteSet(DOMAIN emitted)
    BY <2>1, FS_Interval
  <2> QED
    BY <1>2, <2>1, <2>2, FS_Subset
<1>5. asc \in [1..Cardinality(S) -> S] /\ Cardinality(S) \in Nat
      /\ \A i, j \in 1..Cardinality(S) : i < j => asc[i] < asc[j]
  BY <1>4, AscendingLists, FS_CardinalityType
<1>6. DOMAIN asc = 1..n2 /\ n2 \in Nat /\ \A i, j \in 1..n2 : i < j => asc[i] < asc[j]
  <2>1. asc \in Seq(S)
    BY <1>2 DEF Lists
  <2>2. DOMAIN asc = 1..n2 /\ n2 \in Nat
    BY <2>1
  <2>3. 1..n2 = 1..Cardinality(S)
    BY <1>5, <2>2
  <2> HIDE DEF asc, S, n2
  <2> QED
    BY <1>5, <2>2, <2>3
<1>7. IsListed(emitted, read, tail) /\ IsListed(emitted, asc, tail)
  <2>1. read \in Seq(DOMAIN emitted) /\ asc \in Seq(DOMAIN emitted)
    BY <1>2, <1>3, WiderSequence DEF Lists
  <2> QED
    BY <1>1, <1>2, <2>1, ListedEvents
<1> HIDE DEF asc, S, n, n2, ev, ev2
<1>8. PICK m : Rearranges(m, ev, ev2) /\ Finds(m, emitted, read, asc, tail)
  BY <1>1, <1>2, <1>3, ListedRearrange
<1>9. /\ n \in Nat /\ Len(tail) \in Nat /\ DOMAIN read = 1..n
      /\ DOMAIN ev = 1..(n + Len(tail)) /\ DOMAIN ev2 = 1..(n2 + Len(tail))
      /\ \A i \in 1..n : ev[i] = emitted[read[i]]
  BY <1>2, <1>3, <1>7 DEF IsListed, n, n2
<1>10. /\ \A i \in 1..n : m[i] \in 1..n2 /\ asc[m[i]] = read[i]
       /\ \A i \in DOMAIN ev : i \notin 1..n => m[i] = i - n + n2 /\ m[i] \notin 1..n2
  BY <1>2, <1>3, <1>8 DEF Finds, n, n2
<1>11. /\ m \in [DOMAIN ev -> DOMAIN ev2]
       /\ \A i, j \in DOMAIN ev : m[i] = m[j] => i = j
       /\ \A i \in DOMAIN ev : ev2[m[i]] = ev[i]
       /\ \A j \in DOMAIN ev2 : \E i \in DOMAIN ev : m[i] = j
  BY <1>8 DEF Rearranges, Embeds
<1>12. ASSUME NEW i \in DOMAIN ev, NEW j \in DOMAIN ev, i < j, Ordered(ev[i], ev[j])
       PROVE  m[i] < m[j]
  <2>1. CASE i \in 1..n /\ j \in 1..n
    <3>1. read[i] < read[j]
      BY <1>9, <1>12, <2>1 DEF CausalOrderRead
    <3>2. m[i] \in 1..n2 /\ m[j] \in 1..n2 /\ asc[m[i]] = read[i] /\ asc[m[j]] = read[j]
      BY <1>10, <2>1
    <3>3. m[j] < m[i] => read[j] < read[i]
      BY <1>6, <3>2
    <3>4. m[i] # m[j]
      BY <1>11, <1>12, <1>9
    <3>5. read[i] \in Int /\ read[j] \in Int
      BY <1>2, <1>3, <1>4, <1>9, <2>1 DEF Lists
    <3> QED
      BY <1>6, <3>1, <3>2, <3>3, <3>4, <3>5
  <2>2. CASE i \in 1..n /\ j \notin 1..n
    BY <1>6, <1>9, <1>10, <2>2
  <2>3. CASE i \notin 1..n
    <3>1. j \notin 1..n
      BY <1>9, <1>12, <2>3
    <3>2. m[i] = i - n + n2 /\ m[j] = j - n + n2
      BY <1>10, <2>3, <3>1
    <3> QED
      BY <1>6, <1>9, <1>12, <3>2
  <2> QED
    BY <2>1, <2>2, <2>3
<1>13. ASSUME NEW i \in DOMAIN ev, NEW j \in DOMAIN ev, Ordered(ev[i], ev[j])
       PROVE  i < j <=> m[i] < m[j]
  <2>1. i \in Int /\ j \in Int /\ m[i] \in Int /\ m[j] \in Int
    BY <1>6, <1>9, <1>11
  <2>2. j < i => m[j] < m[i]
    BY <1>12, <1>13, OrderedBack
  <2>3. i = j => m[i] = m[j]
    OBVIOUS
  <2> QED
    BY <1>12, <1>13, <2>1, <2>2, <2>3
<1>14. /\ ev \in Seq(case.alphabet \cup Range(tail)) /\ ev2 \in Seq(case.alphabet \cup Range(tail))
  BY EvidenceRearranges DEF ev, ev2
<1>15. DOMAIN ev = 1..Len(ev) /\ Len(ev) \in Nat /\ DOMAIN ev2 = 1..Len(ev2) /\ Len(ev2) \in Nat
  BY <1>14
<1>16. Aligned(m, ev, ev2)
  BY <1>11, <1>13, <1>15 DEF Aligned
<1> QED
  BY <1>16 DEF ev, ev2

\* An alignment can be undone.
LEMMA AlignedBack ==
    ASSUME NEW m, NEW ev, NEW ev2, Aligned(m, ev, ev2)
    PROVE  \E m2 : Aligned(m2, ev2, ev)
<1> DEFINE back == [j \in DOMAIN ev2 |-> CHOOSE i \in DOMAIN ev : m[i] = j]
<1>1. \A j \in DOMAIN ev2 : back[j] \in DOMAIN ev /\ m[back[j]] = j
  BY DEF Aligned
<1>2. back \in [DOMAIN ev2 -> DOMAIN ev]
  BY <1>1
<1> HIDE DEF back
<1>3. \A j \in DOMAIN ev2 : ev[back[j]] = ev2[j]
  BY <1>1 DEF Aligned
<1>4. \A i \in DOMAIN ev : back[m[i]] = i /\ m[i] \in DOMAIN ev2
  BY <1>1 DEF Aligned
<1>5. \A i, j \in DOMAIN ev2 : back[i] = back[j] => i = j
  BY <1>1
<1>6. ASSUME NEW i \in DOMAIN ev2, NEW j \in DOMAIN ev2, Ordered(ev2[i], ev2[j])
      PROVE  i < j <=> back[i] < back[j]
  <2>1. /\ back[i] \in DOMAIN ev /\ back[j] \in DOMAIN ev /\ m[back[i]] = i /\ m[back[j]] = j
        /\ Ordered(ev[back[i]], ev[back[j]])
    BY <1>1, <1>3, <1>6
  <2> QED
    BY <2>1 DEF Aligned
<1> QED
  BY <1>2, <1>3, <1>4, <1>5, <1>6 DEF Aligned

\* Sets of events that correspond have as many members.
LEMMA AlignedCount ==
    ASSUME NEW m, NEW ev, NEW ev2, Aligned(m, ev, ev2),
           NEW X \in SUBSET DOMAIN ev, NEW Y \in SUBSET DOMAIN ev2,
           \A i \in DOMAIN ev : i \in X <=> m[i] \in Y
    PROVE  Cardinality(X) = Cardinality(Y)
<1> DEFINE f == [i \in X |-> m[i]]
<1>1. IsFiniteSet(X)
  <2>1. IsFiniteSet(DOMAIN ev)
    BY FS_Interval DEF Aligned
  <2> QED
    BY <2>1, FS_Subset
<1>2. f \in [X -> Y]
  BY DEF Aligned
<1>3. \A i, j \in X : f[i] = f[j] => i = j
  BY DEF Aligned
<1>4. \A y \in Y : \E i \in X : f[i] = y
  BY DEF Aligned
<1> HIDE DEF f
<1>5. f \in Bijection(X, Y)
  BY <1>2, <1>3, <1>4 DEF Bijection, Injection, Surjection, IsInjective
<1>6. ExistsBijection(X, Y)
  BY <1>5 DEF ExistsBijection
<1> QED
  BY <1>1, <1>6, FS_Bijection

\* Indexes that correspond.
Corresponds(m, ev, ev2, X, Y) ==
    /\ X \subseteq DOMAIN ev /\ Y \subseteq DOMAIN ev2
    /\ \A i \in DOMAIN ev : i \in X <=> m[i] \in Y

\* What an actor did before an event.
LEMMA PrecedingAligned ==
    ASSUME NEW m, NEW ev, NEW ev2, Aligned(m, ev, ev2), NEW i \in DOMAIN ev, NEW count
    PROVE  Corresponds(m, ev, ev2, Preceding(ev, i, count), Preceding(ev2, m[i], count))
<1> DEFINE Between(e, j, k) == {h \in (j + 1)..(k - 1) : e[h].actor = e[k].actor}
<1>1. /\ DOMAIN ev = 1..Len(ev) /\ Len(ev) \in Nat /\ DOMAIN ev2 = 1..Len(ev2) /\ Len(ev2) \in Nat
      /\ \A k \in DOMAIN ev : m[k] \in DOMAIN ev2 /\ ev2[m[k]] = ev[k]
      /\ \A k \in DOMAIN ev2 : \E j \in DOMAIN ev : m[j] = k
  BY DEF Aligned
<1>2. \A j, k \in DOMAIN ev : ev[j].actor = ev[k].actor => (j < k <=> m[j] < m[k])
  BY DEF Aligned, Ordered
<1>3. \A e, k, j : j \in Preceding(e, k, count) <=>
        j \in 1..(k - 1) /\ e[j].actor = e[k].actor /\ Cardinality(Between(e, j, k)) < count
  BY DEF Preceding
<1>4. ASSUME NEW j \in DOMAIN ev, j < i, ev[j].actor = ev[i].actor
      PROVE  Cardinality(Between(ev, j, i)) = Cardinality(Between(ev2, m[j], m[i]))
  <2>1. m[j] \in DOMAIN ev2 /\ m[i] \in DOMAIN ev2 /\ m[j] < m[i]
    BY <1>1, <1>2, <1>4
  <2>2. Between(ev, j, i) \in SUBSET DOMAIN ev
    BY <1>1, <1>4
  <2>3. Between(ev2, m[j], m[i]) \in SUBSET DOMAIN ev2
    BY <1>1, <2>1
  <2>4. ASSUME NEW h \in DOMAIN ev
        PROVE  h \in Between(ev, j, i) <=> m[h] \in Between(ev2, m[j], m[i])
    <3>1. h \in (j + 1)..(i - 1) <=> j < h /\ h < i
      BY <1>1
    <3>2. m[h] \in (m[j] + 1)..(m[i] - 1) <=> m[j] < m[h] /\ m[h] < m[i]
      BY <1>1, <2>1
    <3>3. ev2[m[h]] = ev[h] /\ ev2[m[i]] = ev[i]
      BY <1>1
    <3>4. ev[h].actor = ev[i].actor => (j < h <=> m[j] < m[h]) /\ (h < i <=> m[h] < m[i])
      BY <1>2, <1>4
    <3> QED
      BY <3>1, <3>2, <3>3, <3>4
  <2> HIDE DEF Between
  <2> QED
    BY <2>2, <2>3, <2>4, AlignedCount
<1>5. Preceding(ev, i, count) \subseteq DOMAIN ev /\ Preceding(ev2, m[i], count) \subseteq DOMAIN ev2
  <2>1. 1..(i - 1) \subseteq DOMAIN ev /\ 1..(m[i] - 1) \subseteq DOMAIN ev2
    BY <1>1
  <2> HIDE DEF Between
  <2> QED
    BY <1>3, <2>1
<1>7. ASSUME NEW j \in DOMAIN ev
      PROVE  j \in Preceding(ev, i, count) <=> m[j] \in Preceding(ev2, m[i], count)
  <2>1. j \in 1..(i - 1) <=> j < i
    BY <1>1
  <2>2. m[j] \in 1..(m[i] - 1) <=> m[j] < m[i]
    BY <1>1
  <2>3. ev2[m[j]] = ev[j] /\ ev2[m[i]] = ev[i]
    BY <1>1
  <2> HIDE DEF Between
  <2> QED
    BY <1>2, <1>3, <1>4, <2>1, <2>2, <2>3
<1> QED
  BY <1>5, <1>7 DEF Corresponds

\* The latest of some earlier events that are ordered.
LEMMA LatestAligned ==
    ASSUME NEW m, NEW ev, NEW ev2, Aligned(m, ev, ev2), NEW X, NEW Y, Corresponds(m, ev, ev2, X, Y),
           NEW i \in DOMAIN ev,
           \A j \in X : Ordered(ev[j], ev[i]) /\ \A k \in X : Ordered(ev[j], ev[k])
    PROVE  Corresponds(m, ev, ev2, Latest(X, i), Latest(Y, m[i]))
<1>1. /\ DOMAIN ev = 1..Len(ev) /\ Len(ev) \in Nat /\ DOMAIN ev2 = 1..Len(ev2) /\ Len(ev2) \in Nat
      /\ \A k \in DOMAIN ev : m[k] \in DOMAIN ev2 /\ ev2[m[k]] = ev[k]
      /\ \A k \in DOMAIN ev2 : \E j \in DOMAIN ev : m[j] = k
      /\ \A j, k \in DOMAIN ev : Ordered(ev[j], ev[k]) => (j < k <=> m[j] < m[k])
  BY DEF Aligned
<1>2. /\ X \subseteq DOMAIN ev /\ Y \subseteq DOMAIN ev2
      /\ \A k \in DOMAIN ev : k \in X <=> m[k] \in Y
  BY DEF Corresponds
<1>3. \A j \in X : j < i <=> m[j] < m[i]
  BY <1>1, <1>2
<1>4. \A j, k \in X : k <= j <=> m[k] <= m[j]
  <2> SUFFICES ASSUME NEW j \in X, NEW k \in X PROVE k <= j <=> m[k] <= m[j]
    OBVIOUS
  <2>1. j < k <=> m[j] < m[k]
    BY <1>1, <1>2
  <2>2. j \in Int /\ k \in Int /\ m[j] \in Int /\ m[k] \in Int
    BY <1>1, <1>2
  <2> QED
    BY <2>1, <2>2
<1>5. ASSUME NEW j \in X
      PROVE  j \in Latest(X, i) <=> m[j] \in Latest(Y, m[i])
  <2>1. ASSUME \A k \in X : k < i => k <= j, NEW y \in Y, y < m[i]
        PROVE  y <= m[j]
    <3>1. PICK k \in DOMAIN ev : m[k] = y
      BY <1>1, <1>2
    <3> QED
      BY <1>2, <1>3, <1>4, <2>1, <3>1
  <2>2. ASSUME \A y \in Y : y < m[i] => y <= m[j], NEW k \in X, k < i
        PROVE  k <= j
    BY <1>2, <1>3, <1>4, <2>2
  <2>3. j < i <=> m[j] < m[i]
    BY <1>3
  <2>4. m[j] \in Y
    BY <1>2
  <2> QED
    BY <2>1, <2>2, <2>3, <2>4 DEF Latest
<1> QED
  BY <1>2, <1>5 DEF Latest, Corresponds

\* The first and the last of some events that are ordered.
LEMMA BoundsAligned ==
    ASSUME NEW m, NEW ev, NEW ev2, Aligned(m, ev, ev2), NEW X, NEW Y, Corresponds(m, ev, ev2, X, Y),
           X # {}, \A j, k \in X : Ordered(ev[j], ev[k])
    PROVE  /\ Min(X) \in X /\ m[Min(X)] = Min(Y)
           /\ Max(X) \in X /\ m[Max(X)] = Max(Y)
<1>1. /\ DOMAIN ev = 1..Len(ev) /\ Len(ev) \in Nat /\ DOMAIN ev2 = 1..Len(ev2) /\ Len(ev2) \in Nat
      /\ \A k \in DOMAIN ev : m[k] \in DOMAIN ev2 /\ ev2[m[k]] = ev[k]
      /\ \A k \in DOMAIN ev2 : \E j \in DOMAIN ev : m[j] = k
      /\ \A j, k \in DOMAIN ev : Ordered(ev[j], ev[k]) => (j < k <=> m[j] < m[k])
  BY DEF Aligned
<1>2. /\ X \subseteq DOMAIN ev /\ Y \subseteq DOMAIN ev2
      /\ \A k \in DOMAIN ev : k \in X <=> m[k] \in Y
  BY DEF Corresponds
<1>3. X \subseteq 1..Len(ev) /\ Y \subseteq 1..Len(ev2) /\ X \subseteq Nat /\ Y \subseteq Nat /\ Y # {}
  BY <1>1, <1>2
<1>4. /\ Max(X) \in X /\ \A x \in X : x <= Max(X)
      /\ Max(Y) \in Y /\ \A x \in Y : x <= Max(Y)
  BY <1>1, <1>3, GreatestMember
<1>5. /\ Min(X) \in X /\ \A x \in X : Min(X) <= x
      /\ Min(Y) \in Y /\ \A x \in Y : Min(Y) <= x
  BY <1>3, LeastOfNaturals
<1>6. m[Max(X)] = Max(Y)
  <2> DEFINE h == Max(X)
             g == Max(Y)
  <2>1. PICK i \in X : m[i] = g
    BY <1>1, <1>2, <1>4
  <2>2. i <= h /\ m[h] <= g
    BY <1>2, <1>4
  <2>3. i \in Int /\ h \in Int /\ g \in Int /\ m[h] \in Int /\ (i < h <=> m[i] < m[h])
    BY <1>1, <1>2, <1>3, <1>4
  <2> HIDE DEF h, g
  <2> QED
    BY <2>1, <2>2, <2>3 DEF h, g
<1>7. m[Min(X)] = Min(Y)
  <2> DEFINE h == Min(X)
             g == Min(Y)
  <2>1. PICK i \in X : m[i] = g
    BY <1>1, <1>2, <1>5
  <2>2. h <= i /\ g <= m[h]
    BY <1>2, <1>5
  <2>3. i \in Int /\ h \in Int /\ g \in Int /\ m[h] \in Int /\ (h < i <=> m[h] < m[i])
    BY <1>1, <1>2, <1>3, <1>5
  <2> HIDE DEF h, g
  <2> QED
    BY <2>1, <2>2, <2>3 DEF h, g
<1> QED
  BY <1>4, <1>5, <1>6, <1>7

\* What an actor does after what it did.
LEMMA ActorTransitionsAligned ==
    ASSUME NEW m, NEW ev, NEW ev2, Aligned(m, ev, ev2)
    PROVE  ActorTransitions(ev) \subseteq ActorTransitions(ev2)
<1> DEFINE Found(e, j, i) == <<"actor", SemanticState(e[j]), SemanticState(e[i])>>
           Pairs(e) == {q \in (DOMAIN e) \X (DOMAIN e) : q[1] \in Preceding(e, q[2], 1)}
<1>1. \A e : ActorTransitions(e) = {Found(e, p[1], p[2]) : p \in Pairs(e)}
  BY DEF ActorTransitions
<1>2. ASSUME NEW x \in ActorTransitions(ev) PROVE x \in ActorTransitions(ev2)
  <2>1. PICK p \in Pairs(ev) : x = Found(ev, p[1], p[2])
    <3> HIDE DEF Pairs, Found
    <3> QED
      BY <1>1, <1>2
  <2> DEFINE j == p[1]
             i == p[2]
             q == <<m[j], m[i]>>
  <2>2. j \in DOMAIN ev /\ i \in DOMAIN ev /\ j \in Preceding(ev, i, 1)
    BY <2>1
  <2> HIDE DEF j, i
  <2>3. /\ m[j] \in DOMAIN ev2 /\ m[i] \in DOMAIN ev2 /\ ev2[m[j]] = ev[j] /\ ev2[m[i]] = ev[i]
        /\ m[j] \in Preceding(ev2, m[i], 1)
    <3>1. Corresponds(m, ev, ev2, Preceding(ev, i, 1), Preceding(ev2, m[i], 1))
      BY <2>2, PrecedingAligned
    <3> QED
      BY <2>2, <3>1 DEF Aligned, Corresponds
  <2>4. q \in Pairs(ev2) /\ q[1] = m[j] /\ q[2] = m[i]
    BY <2>3
  <2>5. x = Found(ev2, q[1], q[2])
    BY <2>1, <2>3, <2>4 DEF j, i
  <2> HIDE DEF Pairs, Found, q
  <2> QED
    BY <1>1, <2>4, <2>5
<1> QED
  BY <1>2

\* Three steps of an actor.
LEMMA MotifsAligned ==
    ASSUME NEW m, NEW ev, NEW ev2, Aligned(m, ev, ev2)
    PROVE  Motifs(ev) \subseteq Motifs(ev2)
<1> DEFINE Before(e, i) == Preceding(e, i, 2)
           Found(e, i) == <<"actor3", SemanticState(e[Min(Before(e, i))]), SemanticState(e[Max(Before(e, i))]),
                            SemanticState(e[i])>>
           Third(e) == {k \in DOMAIN e : Cardinality(Before(e, k)) = 2}
<1>1. \A e : Motifs(e) = {Found(e, i) : i \in Third(e)}
  BY Zenon DEF Motifs
<1>2. ASSUME NEW x \in Motifs(ev) PROVE x \in Motifs(ev2)
  <2>1. PICK i \in Third(ev) : x = Found(ev, i)
    <3> HIDE DEF Third, Found
    <3> QED
      BY <1>1, <1>2
  <2>2. i \in DOMAIN ev /\ m[i] \in DOMAIN ev2 /\ ev2[m[i]] = ev[i]
    BY <2>1 DEF Aligned
  <2>3. Corresponds(m, ev, ev2, Before(ev, i), Before(ev2, m[i]))
    BY <2>2, PrecedingAligned
  <2>4. \A j, k \in Before(ev, i) : Ordered(ev[j], ev[k])
    BY DEF Preceding, Ordered
  <2>5. Cardinality(Before(ev2, m[i])) = 2 /\ Before(ev, i) # {}
    <3>1. Cardinality(Before(ev, i)) = 2
      BY <2>1
    <3>2. Before(ev, i) # {}
      BY <3>1, FS_EmptySet
    <3>3. Cardinality(Before(ev, i)) = Cardinality(Before(ev2, m[i]))
      BY <2>3, AlignedCount DEF Corresponds
    <3> QED
      BY <3>1, <3>2, <3>3
  <2> HIDE DEF Before
  <2>6. /\ Min(Before(ev, i)) \in Before(ev, i) /\ m[Min(Before(ev, i))] = Min(Before(ev2, m[i]))
        /\ Max(Before(ev, i)) \in Before(ev, i) /\ m[Max(Before(ev, i))] = Max(Before(ev2, m[i]))
    BY <2>3, <2>4, <2>5, BoundsAligned
  <2>7. /\ ev2[Min(Before(ev2, m[i]))] = ev[Min(Before(ev, i))]
        /\ ev2[Max(Before(ev2, m[i]))] = ev[Max(Before(ev, i))]
    BY <2>3, <2>6 DEF Aligned, Corresponds
  <2>8. x = Found(ev2, m[i]) /\ m[i] \in Third(ev2)
    BY <2>1, <2>2, <2>5, <2>7
  <2> HIDE DEF Found, Third
  <2> QED
    BY <1>1, <2>8
<1> QED
  BY <1>2

\* The completion of an action after its start.
LEMMA ActionTransitionsAligned ==
    ASSUME NEW m, NEW ev, NEW ev2, Aligned(m, ev, ev2)
    PROVE  ActionTransitions(ev) \subseteq ActionTransitions(ev2)
<1> DEFINE Started(e, i) == {j \in DOMAIN e : /\ e[j].kind = "action.started"
                                              /\ e[j].actor = e[i].actor
                                              /\ Attr(e[j], "action") = Attr(e[i], "action")}
           Ended(e) == Events(e, LAMBDA x : /\ x.kind \in {"action.completed", "action.delegated"}
                                            /\ Attr(x, "action") # None)
           Found(e, j, i) == <<"action", e[i].actor, Attr(e[j], "operation"), e[i].outcome>>
<1>1. \A e, x : x \in ActionTransitions(e) <=>
                  \E i \in Ended(e) : \E j \in Latest(Started(e, i), i) : x = Found(e, j, i)
  <2>1. \A e : ActionTransitions(e) = UNION {{Found(e, j, i) : j \in Latest(Started(e, i), i)} : i \in Ended(e)}
    BY Zenon DEF ActionTransitions
  <2> HIDE DEF Ended, Started, Found
  <2> QED
    BY <2>1
<1>2. ASSUME NEW x \in ActionTransitions(ev) PROVE x \in ActionTransitions(ev2)
  <2>0. PICK i \in Ended(ev) : \E j \in Latest(Started(ev, i), i) : x = Found(ev, j, i)
    <3> HIDE DEF Ended, Started, Found
    <3> QED
      BY <1>1, <1>2
  <2>1. PICK j \in Latest(Started(ev, i), i) : x = Found(ev, j, i)
    BY <2>0
  <2>2. i \in DOMAIN ev /\ m[i] \in DOMAIN ev2 /\ ev2[m[i]] = ev[i] /\ m[i] \in Ended(ev2)
    BY <2>1 DEF Aligned, Events
  <2>3. Corresponds(m, ev, ev2, Started(ev, i), Started(ev2, m[i]))
    BY <2>2 DEF Aligned, Corresponds
  <2>4. \A k \in Started(ev, i) : Ordered(ev[k], ev[i]) /\ \A h \in Started(ev, i) : Ordered(ev[k], ev[h])
    BY DEF Ordered
  <2>5. j \in DOMAIN ev
    BY <2>1 DEF Latest
  <2> HIDE DEF Started, Ended
  <2>6. m[j] \in Latest(Started(ev2, m[i]), m[i]) /\ ev2[m[j]] = ev[j]
    <3>1. Corresponds(m, ev, ev2, Latest(Started(ev, i), i), Latest(Started(ev2, m[i]), m[i]))
      BY <2>2, <2>3, <2>4, LatestAligned
    <3> QED
      BY <2>1, <2>5, <3>1 DEF Corresponds, Aligned
  <2>7. x = Found(ev2, m[j], m[i])
    BY <2>1, <2>2, <2>6
  <2> HIDE DEF Found
  <2> QED
    BY <1>1, <2>2, <2>6, <2>7
<1> QED
  BY <1>2

\* A fault after it was armed.
LEMMA FaultTransitionsAligned ==
    ASSUME NEW m, NEW ev, NEW ev2, Aligned(m, ev, ev2)
    PROVE  FaultTransitions(ev) \subseteq FaultTransitions(ev2)
<1> DEFINE Armed(e, i) == {j \in DOMAIN e : /\ e[j].kind = "transport.fault_armed"
                                            /\ e[j].actor = e[i].actor
                                            /\ Attr(e[j], "action") = Attr(e[i], "action")}
           Applied(e) == Events(e, LAMBDA x : x.kind \in FaultKinds /\ Attr(x, "action") # None)
           Found(e, j, i) == <<"fault", e[i].actor, Attr(e[j], "fault"), e[i].outcome>>
<1>1. \A e, x : x \in FaultTransitions(e) <=>
                  \E i \in Applied(e) : \E j \in Latest(Armed(e, i), i) : x = Found(e, j, i)
  <2>1. \A e : FaultTransitions(e) = UNION {{Found(e, j, i) : j \in Latest(Armed(e, i), i)} : i \in Applied(e)}
    BY Zenon DEF FaultTransitions
  <2> HIDE DEF Applied, Armed, Found
  <2> QED
    BY <2>1
<1>2. ASSUME NEW x \in FaultTransitions(ev) PROVE x \in FaultTransitions(ev2)
  <2>0. PICK i \in Applied(ev) : \E j \in Latest(Armed(ev, i), i) : x = Found(ev, j, i)
    <3> HIDE DEF Applied, Armed, Found
    <3> QED
      BY <1>1, <1>2
  <2>1. PICK j \in Latest(Armed(ev, i), i) : x = Found(ev, j, i)
    BY <2>0
  <2>2. i \in DOMAIN ev /\ m[i] \in DOMAIN ev2 /\ ev2[m[i]] = ev[i] /\ m[i] \in Applied(ev2)
    BY <2>1 DEF Aligned, Events
  <2>3. Corresponds(m, ev, ev2, Armed(ev, i), Armed(ev2, m[i]))
    BY <2>2 DEF Aligned, Corresponds
  <2>4. \A k \in Armed(ev, i) : Ordered(ev[k], ev[i]) /\ \A h \in Armed(ev, i) : Ordered(ev[k], ev[h])
    BY DEF Ordered
  <2>5. j \in DOMAIN ev
    BY <2>1 DEF Latest
  <2> HIDE DEF Armed, Applied
  <2>6. m[j] \in Latest(Armed(ev2, m[i]), m[i]) /\ ev2[m[j]] = ev[j]
    <3>1. Corresponds(m, ev, ev2, Latest(Armed(ev, i), i), Latest(Armed(ev2, m[i]), m[i]))
      BY <2>2, <2>3, <2>4, LatestAligned
    <3> QED
      BY <2>1, <2>5, <3>1 DEF Corresponds, Aligned
  <2>7. x = Found(ev2, m[j], m[i])
    BY <2>1, <2>2, <2>6
  <2> HIDE DEF Found
  <2> QED
    BY <1>1, <2>2, <2>6, <2>7
<1> QED
  BY <1>2

\* A key that is received after it was generated.
LEMMA KeyTransitionsAligned ==
    ASSUME NEW m, NEW ev, NEW ev2, Aligned(m, ev, ev2)
    PROVE  KeyTransitions(ev) \subseteq KeyTransitions(ev2)
<1> DEFINE Keys(e, phase) == Events(e, LAMBDA x : /\ x.kind = "key_material.observed"
                                                  /\ Attr(x, "fingerprint") # None /\ x.phase = phase)
           Origin(e, i) == {j \in Keys(e, "generated") : Attr(e[j], "fingerprint") = Attr(e[i], "fingerprint")}
           Found(e, j) == <<"key", Shape(e[j])>>
<1>1. \A e, x : x \in KeyTransitions(e) <=>
                  \E i \in Keys(e, "received") : \E j \in Latest(Origin(e, i), i) : x = Found(e, j)
  <2>1. \A e : KeyTransitions(e) = UNION {{Found(e, j) : j \in Latest(Origin(e, i), i)} : i \in Keys(e, "received")}
    BY Zenon DEF KeyTransitions
  <2> HIDE DEF Keys, Origin, Found
  <2> QED
    BY <2>1
<1>2. ASSUME NEW x \in KeyTransitions(ev) PROVE x \in KeyTransitions(ev2)
  <2>0. PICK i \in Keys(ev, "received") : \E j \in Latest(Origin(ev, i), i) : x = Found(ev, j)
    <3> HIDE DEF Keys, Origin, Found
    <3> QED
      BY <1>1, <1>2
  <2>1. PICK j \in Latest(Origin(ev, i), i) : x = Found(ev, j)
    BY <2>0
  <2>2. i \in DOMAIN ev /\ m[i] \in DOMAIN ev2 /\ ev2[m[i]] = ev[i] /\ m[i] \in Keys(ev2, "received")
        /\ Attr(ev[i], "fingerprint") # None
    BY <2>1 DEF Aligned, Events
  <2>3. Corresponds(m, ev, ev2, Origin(ev, i), Origin(ev2, m[i]))
    BY <2>2 DEF Aligned, Corresponds, Events
  <2>4. \A k \in Origin(ev, i) : Ordered(ev[k], ev[i]) /\ \A h \in Origin(ev, i) : Ordered(ev[k], ev[h])
    BY <2>2 DEF Ordered
  <2>5. j \in DOMAIN ev
    BY <2>1 DEF Latest, Events
  <2> HIDE DEF Keys, Origin
  <2>6. m[j] \in Latest(Origin(ev2, m[i]), m[i]) /\ ev2[m[j]] = ev[j]
    <3>1. Corresponds(m, ev, ev2, Latest(Origin(ev, i), i), Latest(Origin(ev2, m[i]), m[i]))
      BY <2>2, <2>3, <2>4, LatestAligned
    <3> QED
      BY <2>1, <2>5, <3>1 DEF Corresponds, Aligned
  <2>7. x = Found(ev2, m[j])
    BY <2>1, <2>6
  <2> HIDE DEF Found
  <2> QED
    BY <1>1, <2>2, <2>6, <2>7
<1> QED
  BY <1>2

\* The writes and the receipts of a sample.
LEMMA SamplesAligned ==
    ASSUME NEW m, NEW ev, NEW ev2, Aligned(m, ev, ev2)
    PROVE  /\ Corresponds(m, ev, ev2, Writes(ev), Writes(ev2))
           /\ Corresponds(m, ev, ev2, Receipts(ev), Receipts(ev2))
           /\ \A i \in Writes(ev) \cup Receipts(ev) : ev[i].message = Attr(ev[i], "message")
           /\ \A i \in Writes(ev) \cup Receipts(ev) : ev[i].message # None
<1>1. \A e : Attr(e, "message") # None => e.message = Attr(e, "message")
  BY DEF Attr
<1> QED
  BY <1>1 DEF Aligned, Corresponds, Writes, Receipts, Events

\* A sample that is received after it was written.
LEMMA ApplicationTransitionsAligned ==
    ASSUME NEW m, NEW ev, NEW ev2, Aligned(m, ev, ev2)
    PROVE  ApplicationTransitions(ev) \subseteq ApplicationTransitions(ev2)
<1> DEFINE Of(e, i) == OfSample(e, Writes(e), i)
           Found(e, j) == <<"application", Attr(e[j], "topic")>>
<1>0. /\ Corresponds(m, ev, ev2, Writes(ev), Writes(ev2))
      /\ Corresponds(m, ev, ev2, Receipts(ev), Receipts(ev2))
      /\ \A i \in Writes(ev) \cup Receipts(ev) : ev[i].message = Attr(ev[i], "message")
      /\ \A i \in Writes(ev) \cup Receipts(ev) : ev[i].message # None
  BY SamplesAligned
<1>1. \A e, x : x \in ApplicationTransitions(e) <=>
                  \E i \in Receipts(e) : \E j \in Latest(Of(e, i), i) : x = Found(e, j)
  <2>1. \A e : ApplicationTransitions(e) = UNION {{Found(e, j) : j \in Latest(Of(e, i), i)} : i \in Receipts(e)}
    BY Zenon DEF ApplicationTransitions
  <2> HIDE DEF Of, Found
  <2> QED
    BY <2>1
<1>2. ASSUME NEW x \in ApplicationTransitions(ev) PROVE x \in ApplicationTransitions(ev2)
  <2>0. PICK i \in Receipts(ev) : \E j \in Latest(Of(ev, i), i) : x = Found(ev, j)
    <3> HIDE DEF Of, Found
    <3> QED
      BY <1>1, <1>2
  <2>1. PICK j \in Latest(Of(ev, i), i) : x = Found(ev, j)
    BY <2>0
  <2>2. i \in DOMAIN ev /\ m[i] \in DOMAIN ev2 /\ ev2[m[i]] = ev[i] /\ m[i] \in Receipts(ev2)
    BY <1>0, <2>1 DEF Aligned, Corresponds
  <2>3. Corresponds(m, ev, ev2, Of(ev, i), Of(ev2, m[i]))
    BY <1>0, <2>2 DEF Aligned, Corresponds, OfSample
  <2>4. \A k \in Of(ev, i) : Ordered(ev[k], ev[i]) /\ \A h \in Of(ev, i) : Ordered(ev[k], ev[h])
    BY <1>0, <2>1 DEF Ordered, OfSample
  <2>5. j \in DOMAIN ev
    BY <1>0, <2>1 DEF Latest, OfSample, Corresponds
  <2> HIDE DEF Of
  <2>6. m[j] \in Latest(Of(ev2, m[i]), m[i]) /\ ev2[m[j]] = ev[j]
    <3>1. Corresponds(m, ev, ev2, Latest(Of(ev, i), i), Latest(Of(ev2, m[i]), m[i]))
      BY <2>2, <2>3, <2>4, LatestAligned
    <3> QED
      BY <2>1, <2>5, <3>1 DEF Corresponds, Aligned
  <2>7. x = Found(ev2, m[j])
    BY <2>1, <2>6
  <2> HIDE DEF Found
  <2> QED
    BY <1>1, <2>2, <2>6, <2>7
<1> QED
  BY <1>2

\* What an alignment says of the places.
LEMMA AlignedPlaces ==
    ASSUME NEW m, NEW ev, NEW ev2, Aligned(m, ev, ev2)
    PROVE  /\ DOMAIN ev = 1..Len(ev) /\ Len(ev) \in Nat /\ DOMAIN ev2 = 1..Len(ev2) /\ Len(ev2) \in Nat
           /\ \A k \in DOMAIN ev : m[k] \in DOMAIN ev2 /\ ev2[m[k]] = ev[k]
           /\ \A k \in DOMAIN ev2 : \E j \in DOMAIN ev : m[j] = k
           /\ \A j, k \in DOMAIN ev : Ordered(ev[j], ev[k]) => (j < k <=> m[j] < m[k])
           /\ \A j, k \in DOMAIN ev : m[j] = m[k] => j = k
BY DEF Aligned

\* Writes of revoked actors and their receipts, and samples received again.
LEMMA RevokedAligned ==
    ASSUME NEW m, NEW ev, NEW ev2, Aligned(m, ev, ev2)
    PROVE  /\ Corresponds(m, ev, ev2, LocalRevocations(ev), LocalRevocations(ev2))
           /\ Corresponds(m, ev, ev2, PostRevocationWrites(ev), PostRevocationWrites(ev2))
           /\ Corresponds(m, ev, ev2, PostRevocationReceipts(ev), PostRevocationReceipts(ev2))
           /\ Corresponds(m, ev, ev2, Repeated(ev), Repeated(ev2))
<1>1. /\ \A k \in DOMAIN ev : m[k] \in DOMAIN ev2 /\ ev2[m[k]] = ev[k]
      /\ \A k \in DOMAIN ev2 : \E j \in DOMAIN ev : m[j] = k
      /\ \A j, k \in DOMAIN ev : Ordered(ev[j], ev[k]) => (j < k <=> m[j] < m[k])
  BY AlignedPlaces
<1>2. \A j, k \in DOMAIN ev : ev[j].actor = ev[k].actor => (j < k <=> m[j] < m[k])
  BY <1>1 DEF Ordered
<1>3. /\ Corresponds(m, ev, ev2, Writes(ev), Writes(ev2))
      /\ Corresponds(m, ev, ev2, Receipts(ev), Receipts(ev2))
      /\ \A i \in Writes(ev) \cup Receipts(ev) : ev[i].message = Attr(ev[i], "message")
      /\ \A i \in Writes(ev) \cup Receipts(ev) : ev[i].message # None
  BY SamplesAligned
<1>4. /\ Writes(ev) \subseteq DOMAIN ev /\ Writes(ev2) \subseteq DOMAIN ev2
      /\ Receipts(ev) \subseteq DOMAIN ev /\ Receipts(ev2) \subseteq DOMAIN ev2
      /\ \A i \in DOMAIN ev : i \in Writes(ev) <=> m[i] \in Writes(ev2)
      /\ \A i \in DOMAIN ev : i \in Receipts(ev) <=> m[i] \in Receipts(ev2)
  BY <1>3 DEF Corresponds
<1>5. Corresponds(m, ev, ev2, LocalRevocations(ev), LocalRevocations(ev2))
  BY <1>1 DEF LocalRevocations, Events, Corresponds
<1>6. /\ LocalRevocations(ev) \subseteq DOMAIN ev /\ LocalRevocations(ev2) \subseteq DOMAIN ev2
      /\ \A i \in DOMAIN ev : i \in LocalRevocations(ev) <=> m[i] \in LocalRevocations(ev2)
  BY <1>5 DEF Corresponds
<1>7. ASSUME NEW i \in DOMAIN ev
      PROVE  i \in PostRevocationWrites(ev) <=> m[i] \in PostRevocationWrites(ev2)
  <2>1. ASSUME NEW r \in LocalRevocations(ev), r < i, ev[r].actor = ev[i].actor
        PROVE  m[r] \in LocalRevocations(ev2) /\ m[r] < m[i] /\ ev2[m[r]].actor = ev2[m[i]].actor
    BY <1>1, <1>2, <1>6, <2>1
  <2>2. ASSUME NEW q \in LocalRevocations(ev2), q < m[i], ev2[q].actor = ev2[m[i]].actor
        PROVE  \E r \in LocalRevocations(ev) : r < i /\ ev[r].actor = ev[i].actor
    <3>1. PICK r \in DOMAIN ev : m[r] = q
      BY <1>1, <1>6
    <3> QED
      BY <1>1, <1>2, <1>6, <2>2, <3>1
  <2> QED
    BY <1>4, <2>1, <2>2 DEF PostRevocationWrites
<1>8. Corresponds(m, ev, ev2, PostRevocationWrites(ev), PostRevocationWrites(ev2))
  <2>1. PostRevocationWrites(ev) \subseteq DOMAIN ev /\ PostRevocationWrites(ev2) \subseteq DOMAIN ev2
    BY <1>4 DEF PostRevocationWrites
  <2> QED
    BY <1>7, <2>1 DEF Corresponds
<1>9. ASSUME NEW i \in DOMAIN ev, i \in Receipts(ev)
      PROVE  i \in PostRevocationReceipts(ev) <=> m[i] \in PostRevocationReceipts(ev2)
  <2>0. /\ PostRevocationWrites(ev) \subseteq Writes(ev) /\ PostRevocationWrites(ev2) \subseteq Writes(ev2)
        /\ m[i] \in Receipts(ev2)
    BY <1>4, <1>9 DEF PostRevocationWrites
  <2>1. ASSUME NEW j \in PostRevocationWrites(ev), j < i, ev[j].message = ev[i].message
        PROVE  m[j] \in PostRevocationWrites(ev2) /\ m[j] < m[i] /\ ev2[m[j]].message = ev2[m[i]].message
    <3>1. j \in DOMAIN ev
      BY <1>4, <2>0
    <3>2. Ordered(ev[j], ev[i])
      BY <1>3, <1>9, <2>0, <2>1 DEF Ordered
    <3> QED
      BY <1>1, <1>7, <1>9, <2>1, <3>1, <3>2
  <2>2. ASSUME NEW q \in PostRevocationWrites(ev2), q < m[i], ev2[q].message = ev2[m[i]].message
        PROVE  \E j \in PostRevocationWrites(ev) : j < i /\ ev[j].message = ev[i].message
    <3>1. PICK j \in DOMAIN ev : m[j] = q
      BY <1>1, <1>4, <2>0
    <3>2. j \in PostRevocationWrites(ev) /\ ev[j].message = ev[i].message
      BY <1>1, <1>7, <1>9, <2>2, <3>1
    <3>3. Ordered(ev[j], ev[i])
      BY <1>3, <1>9, <2>0, <3>2 DEF Ordered
    <3> QED
      BY <1>1, <1>9, <2>2, <3>1, <3>2, <3>3
  <2> QED
    BY <1>9, <2>0, <2>1, <2>2 DEF PostRevocationReceipts, OfSample
<1>10. Corresponds(m, ev, ev2, PostRevocationReceipts(ev), PostRevocationReceipts(ev2))
  <2>1. PostRevocationReceipts(ev) \subseteq Receipts(ev) /\ PostRevocationReceipts(ev2) \subseteq Receipts(ev2)
    BY DEF PostRevocationReceipts
  <2> QED
    BY <1>4, <1>9, <2>1 DEF Corresponds
<1>11. ASSUME NEW i \in DOMAIN ev, i \in Receipts(ev)
       PROVE  i \in Repeated(ev) <=> m[i] \in Repeated(ev2)
  <2>1. ASSUME NEW j \in Receipts(ev), j < i, SampleKey(ev[j]) = SampleKey(ev[i])
        PROVE  m[j] \in Receipts(ev2) /\ m[j] < m[i] /\ SampleKey(ev2[m[j]]) = SampleKey(ev2[m[i]])
    <3>1. ev[j].actor = ev[i].actor
      BY <2>1 DEF SampleKey
    <3>2. j \in DOMAIN ev /\ m[j] \in Receipts(ev2)
      BY <1>4
    <3> QED
      BY <1>1, <1>2, <2>1, <3>1, <3>2
  <2>2. ASSUME NEW q \in Receipts(ev2), q < m[i], SampleKey(ev2[q]) = SampleKey(ev2[m[i]])
        PROVE  \E j \in Receipts(ev) : j < i /\ SampleKey(ev[j]) = SampleKey(ev[i])
    <3>1. PICK j \in DOMAIN ev : m[j] = q
      BY <1>1, <1>4
    <3>2. j \in Receipts(ev) /\ SampleKey(ev[j]) = SampleKey(ev[i])
      BY <1>1, <1>4, <2>2, <3>1
    <3>3. ev[j].actor = ev[i].actor
      BY <3>2 DEF SampleKey
    <3> QED
      BY <1>2, <2>2, <3>1, <3>2, <3>3
  <2> QED
    BY <1>1, <1>4, <1>11, <2>1, <2>2 DEF Repeated
<1>12. Corresponds(m, ev, ev2, Repeated(ev), Repeated(ev2))
  <2>1. Repeated(ev) \subseteq Receipts(ev) /\ Repeated(ev2) \subseteq Receipts(ev2)
    BY DEF Repeated
  <2> QED
    BY <1>4, <1>11, <2>1 DEF Corresponds
<1> QED
  BY <1>5, <1>8, <1>10, <1>12

\* Single events, and those that correspond, show the same.
LEMMA MilestonesAligned ==
    ASSUME NEW m, NEW ev, NEW ev2, Aligned(m, ev, ev2)
    PROVE  /\ States(ev) \subseteq States(ev2)
           /\ Milestones(ev) \subseteq Milestones(ev2)
           /\ Anomalies(ev) \subseteq Anomalies(ev2)
<1>1. \A k \in DOMAIN ev : m[k] \in DOMAIN ev2 /\ ev2[m[k]] = ev[k]
  BY AlignedPlaces
<1>2. /\ \A i \in PostRevocationReceipts(ev) : i \in DOMAIN ev /\ m[i] \in PostRevocationReceipts(ev2)
      /\ \A i \in PostRevocationWrites(ev) : i \in DOMAIN ev /\ m[i] \in PostRevocationWrites(ev2)
      /\ \A i \in Repeated(ev) : i \in DOMAIN ev /\ m[i] \in Repeated(ev2)
  <2>1. /\ Corresponds(m, ev, ev2, PostRevocationWrites(ev), PostRevocationWrites(ev2))
        /\ Corresponds(m, ev, ev2, PostRevocationReceipts(ev), PostRevocationReceipts(ev2))
        /\ Corresponds(m, ev, ev2, Repeated(ev), Repeated(ev2))
    BY RevokedAligned
  <2> QED
    BY <2>1 DEF Corresponds
<1>3. States(ev) \subseteq States(ev2)
  BY <1>1 DEF States
<1>4. UNION {EventMilestones(ev[i]) : i \in DOMAIN ev} \subseteq UNION {EventMilestones(ev2[i]) : i \in DOMAIN ev2}
  BY <1>1
<1>5. UNION {EventAnomalies(ev[i]) : i \in DOMAIN ev} \subseteq UNION {EventAnomalies(ev2[i]) : i \in DOMAIN ev2}
  BY <1>1
<1>6. /\ {<<"post_revocation_write", ev[i].actor>> : i \in PostRevocationWrites(ev)}
            \subseteq {<<"post_revocation_write", ev2[i].actor>> : i \in PostRevocationWrites(ev2)}
      /\ {<<"post_revocation_delivery", ev[i].actor>> : i \in PostRevocationReceipts(ev)}
            \subseteq {<<"post_revocation_delivery", ev2[i].actor>> : i \in PostRevocationReceipts(ev2)}
      /\ {<<"duplicate_sample_delivery", ev[i].actor>> : i \in Repeated(ev)}
            \subseteq {<<"duplicate_sample_delivery", ev2[i].actor>> : i \in Repeated(ev2)}
  BY <1>1, <1>2
<1>7. /\ {<<"post_revocation_application_delivery">> : i \in PostRevocationReceipts(ev)}
            \subseteq {<<"post_revocation_application_delivery">> : i \in PostRevocationReceipts(ev2)}
      /\ {<<"duplicate_application_delivery">> : i \in Repeated(ev)}
            \subseteq {<<"duplicate_application_delivery">> : i \in Repeated(ev2)}
  BY <1>2
<1>8. Milestones(ev) \subseteq Milestones(ev2)
  BY <1>4, <1>6, Zenon DEF Milestones
<1>9. Anomalies(ev) \subseteq Anomalies(ev2)
  BY <1>5, <1>7, Zenon DEF Anomalies
<1> QED
  BY <1>3, <1>8, <1>9

\* The steps along an identifier.
LEMMA PartialOrderAligned ==
    ASSUME NEW m, NEW ev, NEW ev2, Aligned(m, ev, ev2)
    PROVE  PartialOrder(ev) \subseteq PartialOrder(ev2)
<1> DEFINE Members(e, key) == {i \in DOMAIN e : key \in CorrelationKeys(e[i])}
           Edges(e, key) == {q \in Members(e, key) \X Members(e, key) :
                          /\ q[1] \in Latest(Members(e, key), q[2])
                          /\ SemanticState(e[q[1]]) # SemanticState(e[q[2]])}
           Found(e, key, p) == <<"poedge", key[1], SemanticState(e[p[1]]), SemanticState(e[p[2]])>>
           Names(e) == UNION {CorrelationKeys(e[i]) : i \in DOMAIN e}
<1>0. \A e : PartialOrder(e) = UNION {{Found(e, key, p) : p \in Edges(e, key)} : key \in Names(e)}
  BY Zenon DEF PartialOrder
<1>1. \A e, x : x \in PartialOrder(e) <=> \E key \in Names(e) : \E p \in Edges(e, key) : x = Found(e, key, p)
  <2> HIDE DEF Edges, Found, Names
  <2> QED
    BY <1>0
<1>2. \A k \in DOMAIN ev : m[k] \in DOMAIN ev2 /\ ev2[m[k]] = ev[k]
  BY AlignedPlaces
<1>3. \A j, k \in DOMAIN ev : \A key : key \in CorrelationKeys(ev[j]) /\ key \in CorrelationKeys(ev[k])
                                            => Ordered(ev[j], ev[k])
  <2> SUFFICES ASSUME NEW e, NEW f, NEW key, key \in CorrelationKeys(e), key \in CorrelationKeys(f)
               PROVE  Ordered(e, f)
    OBVIOUS
  <2> DEFINE Actions(g) == {<<"action", <<g.actor, a>>>> : a \in {Attr(g, "action"), Attr(g, "source_action")} \ {None}}
             Messages(g) == {<<"message", x>> : x \in {Attr(g, "message")} \ {None}}
             Prints(g) == {<<"key_fingerprint", x>> : x \in {Attr(g, "fingerprint")} \ {None}}
  <2>1. \A g : CorrelationKeys(g) = Actions(g) \cup Messages(g) \cup Prints(g)
    BY DEF CorrelationKeys
  <2>2. \A g : \A x \in Actions(g) : x[1] = "action" /\ x[2][1] = g.actor
    OBVIOUS
  <2>3. \A g : \A x \in Messages(g) : x[1] = "message" /\ x[2] = Attr(g, "message") /\ Attr(g, "message") # None
    OBVIOUS
  <2>4. \A g : \A x \in Prints(g) : x[1] = "key_fingerprint" /\ x[2] = Attr(g, "fingerprint")
                                       /\ Attr(g, "fingerprint") # None
    OBVIOUS
  <2> HIDE DEF Actions, Messages, Prints
  <2> QED
    BY <2>1, <2>2, <2>3, <2>4 DEF Ordered
<1>4. ASSUME NEW x \in PartialOrder(ev) PROVE x \in PartialOrder(ev2)
  <2>1. PICK key \in Names(ev) : \E p \in Edges(ev, key) : x = Found(ev, key, p)
    <3> HIDE DEF Edges, Found, Names
    <3> QED
      BY <1>1, <1>4
  <2>2. PICK p \in Edges(ev, key) : x = Found(ev, key, p)
    BY <2>1
  <2> DEFINE j == p[1]
             i == p[2]
             X == Members(ev, key)
             Y == Members(ev2, key)
             q == <<m[j], m[i]>>
  <2>3. j \in X /\ i \in X /\ j \in Latest(X, i) /\ SemanticState(ev[j]) # SemanticState(ev[i])
    BY <2>2
  <2>4. X \subseteq DOMAIN ev
    OBVIOUS
  <2>5. Corresponds(m, ev, ev2, X, Y)
    BY <1>2 DEF Corresponds
  <2>6. \A k \in X, h \in X : Ordered(ev[k], ev[h])
    BY <1>3
  <2>7. key \in Names(ev2)
    BY <1>2, <2>1
  <2> HIDE DEF j, i, X, Y
  <2>8. Corresponds(m, ev, ev2, Latest(X, i), Latest(Y, m[i]))
    BY <2>3, <2>4, <2>5, <2>6, LatestAligned
  <2>9. m[j] \in Latest(Y, m[i]) /\ m[j] \in Y /\ m[i] \in Y /\ ev2[m[j]] = ev[j] /\ ev2[m[i]] = ev[i]
    BY <1>2, <2>3, <2>4, <2>5, <2>8 DEF Corresponds
  <2>10. q \in Edges(ev2, key) /\ q[1] = m[j] /\ q[2] = m[i]
    BY <2>3, <2>9 DEF Y
  <2>11. x = Found(ev2, key, q)
    BY <2>2, <2>9, <2>10 DEF j, i
  <2> HIDE DEF Names, Edges, Found, q
  <2> QED
    BY <1>1, <2>7, <2>10, <2>11
<1> QED
  BY <1>4

\* What is drawn from the evidence.
Drawn(ev) == <<States(ev), Transitions(ev), Motifs(ev), Milestones(ev), Anomalies(ev), PartialOrder(ev)>>

\* The transitions are of five kinds.
LEMMA TransitionsAligned ==
    ASSUME NEW m, NEW ev, NEW ev2, Aligned(m, ev, ev2)
    PROVE  Transitions(ev) \subseteq Transitions(ev2)
<1>1. ActorTransitions(ev) \subseteq ActorTransitions(ev2)
  BY ActorTransitionsAligned
<1>2. ActionTransitions(ev) \subseteq ActionTransitions(ev2)
  BY ActionTransitionsAligned
<1>3. FaultTransitions(ev) \subseteq FaultTransitions(ev2)
  BY FaultTransitionsAligned
<1>4. KeyTransitions(ev) \subseteq KeyTransitions(ev2)
  BY KeyTransitionsAligned
<1>5. ApplicationTransitions(ev) \subseteq ApplicationTransitions(ev2)
  BY ApplicationTransitionsAligned
<1> QED
  BY <1>1, <1>2, <1>3, <1>4, <1>5 DEF Transitions

\* All that is found in one order is found in the other.
LEMMA DrawnAligned ==
    ASSUME NEW m, NEW ev, NEW ev2, Aligned(m, ev, ev2)
    PROVE  Drawn(ev) = Drawn(ev2)
<1>1. PICK m2 : Aligned(m2, ev2, ev)
  BY AlignedBack
<1>2. States(ev) = States(ev2) /\ Milestones(ev) = Milestones(ev2) /\ Anomalies(ev) = Anomalies(ev2)
  <2>1. States(ev) \subseteq States(ev2) /\ Milestones(ev) \subseteq Milestones(ev2)
        /\ Anomalies(ev) \subseteq Anomalies(ev2)
    BY MilestonesAligned
  <2>2. States(ev2) \subseteq States(ev) /\ Milestones(ev2) \subseteq Milestones(ev)
        /\ Anomalies(ev2) \subseteq Anomalies(ev)
    BY <1>1, MilestonesAligned
  <2> QED
    BY <2>1, <2>2
<1>3. Transitions(ev) = Transitions(ev2)
  <2>1. Transitions(ev) \subseteq Transitions(ev2)
    BY TransitionsAligned
  <2>2. Transitions(ev2) \subseteq Transitions(ev)
    BY <1>1, TransitionsAligned
  <2> QED
    BY <2>1, <2>2
<1>4. Motifs(ev) = Motifs(ev2)
  <2>1. Motifs(ev) \subseteq Motifs(ev2)
    BY MotifsAligned
  <2>2. Motifs(ev2) \subseteq Motifs(ev)
    BY <1>1, MotifsAligned
  <2> QED
    BY <2>1, <2>2
<1>5. PartialOrder(ev) = PartialOrder(ev2)
  <2>1. PartialOrder(ev) \subseteq PartialOrder(ev2)
    BY PartialOrderAligned
  <2>2. PartialOrder(ev2) \subseteq PartialOrder(ev)
    BY <1>1, PartialOrderAligned
  <2> QED
    BY <2>1, <2>2
<1> QED
  BY <1>2, <1>3, <1>4, <1>5 DEF Drawn

\* The projection, with how often a state occurs.
LEMMA ProjectionAligned ==
    ASSUME NEW m, NEW ev, NEW ev2, Aligned(m, ev, ev2)
    PROVE  Projection(ev) = Projection(ev2)
<1> DEFINE At(e, state) == {i \in DOMAIN e : SemanticState(e[i]) = state}
           Occurs(e, state) == Cardinality(At(e, state))
           Present(e) == PartialOrder(e) \cup {<<"milestone", x>> : x \in Milestones(e)}
                             \cup {<<"anomaly", x>> : x \in Anomalies(e)}
           Named(e) == {<<"state", s>> : s \in States(e)} \cup Present(e)
<1>1. \A e : Projection(e) = [f \in Named(e) |-> IF f[1] = "state" /\ Occurs(e, f[2]) > 1 THEN 2 ELSE 1]
  BY DEF Projection
<1>2. Named(ev) = Named(ev2)
  BY DrawnAligned DEF Drawn
<1>3. \A state : Occurs(ev, state) = Occurs(ev2, state)
  <2> TAKE state
  <2> DEFINE X == At(ev, state)
             Y == At(ev2, state)
  <2>1. X \in SUBSET DOMAIN ev /\ Y \in SUBSET DOMAIN ev2
    OBVIOUS
  <2>2. \A i \in DOMAIN ev : i \in X <=> m[i] \in Y
    BY AlignedPlaces
  <2> HIDE DEF X, Y
  <2>3. Cardinality(X) = Cardinality(Y)
    BY <2>1, <2>2, AlignedCount
  <2> QED
    BY <2>3 DEF X, Y
<1> HIDE DEF Named, Occurs
<1> QED
  BY <1>1, <1>2, <1>3

\* A projection does not differ from itself.
LEMMA NothingChanged == ASSUME NEW p PROVE Changed(<<p>>, p) = {}
<1>1. DOMAIN <<p>> = {1} /\ <<p>>[1] = p
  OBVIOUS
<1> QED
  BY <1>1 DEF Changed

\* How often each fact holds.
LEMMA ProfileAligned ==
    ASSUME NEW s, NEW m, NEW ev, NEW ev2, Aligned(m, ev, ev2)
    PROVE  Profile(s, ev) = Profile(s, ev2)
<1> DEFINE At(e, f) == {i \in DOMAIN e : f \in Facts(s, e[i])}
           Named(e) == UNION {Facts(s, e[i]) : i \in DOMAIN e}
<1>1. \A e : Profile(s, e) = [f \in Named(e) |-> IF f[1] \in {"token_route", "key_route"} THEN 1
                                                 ELSE Cardinality(At(e, f))]
  BY DEF Profile
<1>2. Named(ev) = Named(ev2)
  <2>1. \A k \in DOMAIN ev : m[k] \in DOMAIN ev2 /\ ev2[m[k]] = ev[k]
    BY AlignedPlaces
  <2>2. \A k \in DOMAIN ev2 : \E j \in DOMAIN ev : m[j] = k
    BY AlignedPlaces
  <2> QED
    BY <2>1, <2>2
<1>3. \A f : Cardinality(At(ev, f)) = Cardinality(At(ev2, f))
  <2> TAKE f
  <2> DEFINE X == At(ev, f)
             Y == At(ev2, f)
  <2>1. X \in SUBSET DOMAIN ev /\ Y \in SUBSET DOMAIN ev2
    OBVIOUS
  <2>2. \A i \in DOMAIN ev : i \in X <=> m[i] \in Y
    BY AlignedPlaces
  <2> HIDE DEF X, Y
  <2>3. Cardinality(X) = Cardinality(Y)
    BY <2>1, <2>2, AlignedCount
  <2> QED
    BY <2>3 DEF X, Y
<1> HIDE DEF Named, At
<1> QED
  BY <1>1, <1>2, <1>3

\* Nor does a profile.
LEMMA NothingDiffers == ASSUME NEW p PROVE ScheduleDifferences(p, p) = {}
BY DEF ScheduleDifferences

\* An artifact that needs no times is discovered in both orders.
LEMMA ArtifactsAligned ==
    ASSUME NEW s, NEW S, NEW ev \in Seq(S), NEW ev2 \in Seq(S), NEW m, Aligned(m, ev, ev2)
    PROVE  Timeless(SemanticArtifacts(s, ev2)) \subseteq Timeless(SemanticArtifacts(s, ev))
<1>1. Kept(m, ev, ev2, DOMAIN ev2)
  BY DEF Kept, Aligned
<1>2. ASSUME NEW a \in SemanticArtifacts(s, ev2), a.family \notin Sequential
      PROVE  \E b \in SemanticArtifacts(s, ev) : Fingerprint(b) = Fingerprint(a)
  <2>1. a \in All(s, ev2)
    BY DistinctFound
  <2>2. a.seeds \subseteq DOMAIN ev2
    BY <2>1, SeedsAreEvents
  <2>3. \E b \in All(s, ev) : Fingerprint(b) = Fingerprint(a)
    <3>1. CASE a \in Revocations(s, ev2)
      <4>1. a.family = "post_revocation_delivery_observed"
        BY <1>2, <3>1, RevocationsPlaced DEF Sequential
      <4>2. ShowsDelivery(m, ev, a)
        BY <4>1 DEF ShowsDelivery
      <4> QED
        BY <1>1, <2>2, <3>1, <4>2, RevocationsKept DEF All
    <3>2. CASE a \in Replays(ev2)
      BY <1>2, <3>2, ReplaysPlaced DEF Sequential
    <3>3. CASE a \in KeyEpochs(ev2)
      BY <1>1, <2>2, <3>3, KeyEpochsKept DEF All
    <3>4. CASE a \in KeyRecipients(ev2)
      BY <1>1, <2>2, <3>4, KeyRecipientsKept DEF All
    <3>5. CASE a \in IdentityBindings(ev2)
      BY <1>1, <2>2, <3>5, IdentityBindingsKept DEF All
    <3>6. CASE a \in RevokedCapabilities(ev2)
      BY <1>1, <2>2, <3>6, RevokedCapabilitiesKept DEF All
    <3>7. CASE a \in DeliveryCardinality(ev2)
      BY <1>1, <2>2, <3>7, DeliveryCardinalityKept DEF All
    <3> QED
      BY <2>1, <3>1, <3>2, <3>3, <3>4, <3>5, <3>6, <3>7 DEF All
  <2> QED
    BY <2>3, DistinctKeeps
<1>3. \A a, b : Fingerprint(b) = Fingerprint(a) => b.family = a.family
  BY DEF Fingerprint
<1> QED
  BY <1>2, <1>3 DEF Timeless

\* Two readings that differ in the interleaving of unrelated logs only lead to
\* the same features, projection, artifacts and schedule profile.
THEOREM InterleavingIsHarmless == Spec => []UnrelatedOrderHarmless
<1>1. ASSUME EvidenceInv, Evidence # Written, CausalOrderRead
      PROVE  /\ Features(Evidence) = Features(Written)
             /\ Changed(<<Projection(Written)>>, Projection(Evidence)) = {}
             /\ Timeless(SemanticArtifacts(Scenario, Evidence)) = Timeless(SemanticArtifacts(Scenario, Written))
             /\ ScheduleDifferences(Profile(Scenario, Written), Profile(Scenario, Evidence)) = {}
  <2> DEFINE ev == Evidence
             ev2 == Written
             S == case.alphabet \cup Range(tail)
  <2>1. ev \in Seq(S) /\ ev2 \in Seq(S)
    BY <1>1, EvidenceRearranges
  <2>2. PICK m : Aligned(m, ev, ev2)
    BY <1>1, EvidenceAligned
  <2>3. PICK m2 : Aligned(m2, ev2, ev)
    BY <2>2, AlignedBack
  <2> HIDE DEF ev, ev2, S
  <2>4. Features(ev) = Features(ev2)
    <3>1. Drawn(ev) = Drawn(ev2)
      BY <2>2, DrawnAligned
    <3> QED
      BY <3>1 DEF Drawn, Features
  <2>5. Changed(<<Projection(ev2)>>, Projection(ev)) = {}
    <3>1. Projection(ev) = Projection(ev2)
      BY <2>2, ProjectionAligned
    <3> QED
      BY <3>1, NothingChanged
  <2>6. Timeless(SemanticArtifacts(Scenario, ev)) = Timeless(SemanticArtifacts(Scenario, ev2))
    <3>1. Timeless(SemanticArtifacts(Scenario, ev2)) \subseteq Timeless(SemanticArtifacts(Scenario, ev))
      BY <2>1, <2>2, ArtifactsAligned
    <3>2. Timeless(SemanticArtifacts(Scenario, ev)) \subseteq Timeless(SemanticArtifacts(Scenario, ev2))
      BY <2>1, <2>3, ArtifactsAligned
    <3> QED
      BY <3>1, <3>2
  <2>7. ScheduleDifferences(Profile(Scenario, ev2), Profile(Scenario, ev)) = {}
    <3>1. Profile(Scenario, ev) = Profile(Scenario, ev2)
      BY <2>2, ProfileAligned
    <3> QED
      BY <3>1, NothingDiffers
  <2> QED
    BY <2>4, <2>5, <2>6, <2>7 DEF ev, ev2
<1>2. EvidenceInv => UnrelatedOrderHarmless
  BY <1>1 DEF UnrelatedOrderHarmless
<1> QED
  BY <1>2, EvidenceInvariant, PTL

-----------------------------------------------------------------------------
(* The report of an exploration.                                           *)

\* What has been analyzed is a finite number of trials.
ReportInv == analyzed \in [Trials -> Nat] /\ IsFiniteSet(Executed)

\* The invariant of the report.
LEMMA ReportInvariant == ReportSpec => []ReportInv
<1>1. ReportInit => ReportInv
  <2> SUFFICES ASSUME ReportInit PROVE ReportInv
    OBVIOUS
  <2>1. Executed = {}
    BY DEF ReportInit, Executed
  <2> QED
    BY <2>1, FS_EmptySet DEF ReportInit, ReportInv
<1>2. ReportInv /\ [ReportNext]_analyzed => ReportInv'
  <2> SUFFICES ASSUME ReportInv, [ReportNext]_analyzed PROVE ReportInv'
    OBVIOUS
  <2>1. CASE UNCHANGED analyzed
    BY <2>1 DEF ReportInv, Executed
  <2>2. ASSUME NEW t \in Trials, Analyze(t) PROVE ReportInv'
    <3>1. analyzed' \in [Trials -> Nat]
      BY <2>2 DEF ReportInv, Analyze
    <3>2. Executed' \subseteq Executed \cup {t}
      BY <2>2 DEF ReportInv, Analyze, Executed
    <3>3. IsFiniteSet(Executed \cup {t})
      BY FS_AddElement DEF ReportInv
    <3>4. IsFiniteSet(Executed')
      BY <3>2, <3>3, FS_Subset
    <3> QED
      BY <3>1, <3>4 DEF ReportInv
  <2> QED
    BY <2>1, <2>2 DEF ReportNext
<1> QED
  BY <1>1, <1>2, PTL DEF ReportSpec

\* A mutation has an assignment that is not the neutral one.
LEMMA MutationsHaveOperators ==
    ASSUME NEW t \in Trials, ~IsBaseline(t.case)
    PROVE  MutationOperators(t.case) # {}
<1>1. PICK name \in DOMAIN Neutral : t.case[name] # Neutral[name]
  BY DEF IsBaseline
<1> QED
  BY <1>1 DEF MutationOperators

\* A difference of a trial is told as a transition of a mutation.
LEMMA TransitionsAreNamed ==
    ASSUME NEW t, NEW d \in Differences(t)
    PROVE  IsTransition(d) /\ ~IsBaseline(t.case)
BY DEF Differences, SemanticTransitions, Transition, IsTransition

\* An effect seen directly and as a transition is one research target.
THEOREM EffectsGrouped == ReportSpec => []EffectCountedOnce
<1>1. EffectCountedOnce
  <2> SUFFICES ASSUME NEW t \in Executed, NEW f \in t.shows \cap Targets,
                      NEW d \in Differences(t) \cap Targets,
                      d.signature[1] = <<"delta", f.family>>, f.outcome \in d.signature[3][2]
               PROVE  IsTransition(TargetGroup(f))
    BY DEF EffectCountedOnce
  <2>1. CASE IsTransition(f)
    BY <2>1 DEF TargetGroup
  <2>2. CASE ~IsTransition(f)
    <3>1. IsTransition(d) /\ ~IsBaseline(t.case)
      BY TransitionsAreNamed
    <3>2. t \in Trials
      BY DEF Executed
    <3>3. PICK operator : operator \in MutationOperators(t.case)
      BY <3>1, <3>2, MutationsHaveOperators
    <3>4. t \in Occurrences(d) /\ t \in Occurrences(f)
      BY DEF Occurrences
    <3>5. operator \in OperatorsOf(d) \cap OperatorsOf(f)
      BY <3>1, <3>3, <3>4 DEF OperatorsOf
    <3>6. d \in Views(f)
      BY <3>1, <3>5 DEF Views
    <3>7. TargetGroup(f) \in Views(f)
      BY <2>2, <3>6 DEF TargetGroup
    <3> QED
      BY <3>7 DEF Views
  <2> QED
    BY <2>1, <2>2
<1> QED
  BY <1>1, PTL
-----------------------------------------------------------------------------
\* The function whose value at S the fold of ControlArtifacts is.
IsShown(g, counts, S) ==
    g = [s \in SUBSET S |-> IF s = {} THEN <<>>
            ELSE g[s \ {Pick(s)}] \o [i \in 1..counts[Pick(s)] |-> Pick(s).shows]]

\* A trial that is no complete control leaves the controls as they were.
LEMMA ControlsKept ==
    ASSUME ReportInv, NEW t \in Trials, Analyze(t),
           ~(t.complete /\ IsBaseline(t.case)), NEW key
    PROVE  ControlArtifacts(key)' = ControlArtifacts(key)
<1>1. analyzed' = [analyzed EXCEPT ![t] = @ + 1] /\ analyzed \in [Trials -> Nat]
  BY DEF Analyze, ReportInv
<1>2. Controls(key)' = Controls(key)
  BY <1>1 DEF Controls, Executed
<1>3. \A u \in Controls(key) : analyzed'[u] = analyzed[u]
  BY <1>1 DEF Controls, Executed
<1> DEFINE S == Controls(key)
<1>4. ControlArtifacts(key) = (CHOOSE g : IsShown(g, analyzed, S))[S]
  BY DEF ControlArtifacts, FoldSet, MapThenFoldSet, IsShown, Pick
<1>5. ControlArtifacts(key)' = (CHOOSE g : IsShown(g, analyzed', S))[S]
  BY <1>2 DEF ControlArtifacts, FoldSet, MapThenFoldSet, IsShown, Pick
<1>6. ASSUME NEW g
      PROVE  IsShown(g, analyzed, S) <=> IsShown(g, analyzed', S)
  <2> HIDE DEF S
  <2> QED BY <1>3, PickMember DEF IsShown, S
<1>7. (CHOOSE g : IsShown(g, analyzed, S)) = (CHOOSE g : IsShown(g, analyzed', S))
  BY <1>6
<1> QED
  BY <1>4, <1>5, <1>7

\* Without a further complete control, no difference changes and nothing that
\* occurred is forgotten.
LEMMA OccurrencesKept ==
    ASSUME ReportInv, NEW t \in Trials, Analyze(t), ~(t.complete /\ IsBaseline(t.case))
    PROVE  /\ Executed' = Executed \cup {t}
           /\ \A u \in Trials : Differences(u)' = Differences(u)
           /\ \A f : Occurrences(f) \subseteq Occurrences(f)'
           /\ \A f : Occurrences(f)' \subseteq Occurrences(f) \cup {t}
<1>1. Executed' = Executed \cup {t}
  BY DEF Analyze, ReportInv, Executed
<1>2. ASSUME NEW u \in Trials
      PROVE  Differences(u)' = Differences(u)
  <2>1. ControlArtifacts(SemanticKey(u.case))' = ControlArtifacts(SemanticKey(u.case))
    BY ControlsKept DEF SemanticKey
  <2> QED
    BY <2>1 DEF Differences, SemanticKey
<1>3. \A u \in Executed' : u \in Trials
  BY DEF Executed
<1> QED
  BY <1>1, <1>2, <1>3 DEF Occurrences, Executed

\* More trials of a trajectory never make it less reproduced.
LEMMA ReproducedKept ==
    ASSUME ReportInv, NEW t \in Trials, Analyze(t), ~(t.complete /\ IsBaseline(t.case)),
           NEW f, NEW key, Reproduced(f, key)
    PROVE  Reproduced(f, key)'
<1> DEFINE all == {u \in Executed : TrajectoryKey(u.case) = key}
           hits == {u \in {v \in Occurrences(f) : v.complete} : TrajectoryKey(u.case) = key}
<1>1. /\ analyzed \in [Trials -> Nat] /\ analyzed' \in [Trials -> Nat]
      /\ \A u \in Trials : analyzed[u] <= analyzed'[u]
  BY DEF ReportInv, Analyze
<1>2. all' \in SUBSET Trials /\ IsFiniteSet(all') /\ all \subseteq all'
  <2>1. IsFiniteSet(Executed') /\ Executed \subseteq Executed'
    BY OccurrencesKept, FS_AddElement DEF ReportInv
  <2>2. all' \subseteq Executed' /\ Executed' \subseteq Trials
    BY DEF Executed
  <2>3. IsFiniteSet(all')
    BY <2>1, <2>2, FS_Subset
  <2> QED
    BY <2>1, <2>2, <2>3 DEF TrajectoryKey
<1>3. hits' \in SUBSET Trials /\ IsFiniteSet(hits') /\ hits \subseteq hits'
  <2>1. Occurrences(f) \subseteq Occurrences(f)'
    BY OccurrencesKept
  <2>2. hits' \subseteq Executed' /\ Executed' \subseteq Trials
    BY DEF Executed, Occurrences
  <2>3. IsFiniteSet(Executed')
    BY OccurrencesKept, FS_AddElement DEF ReportInv
  <2>4. IsFiniteSet(hits')
    BY <2>2, <2>3, FS_Subset
  <2> QED
    BY <2>1, <2>2, <2>4 DEF TrajectoryKey
<1>4. /\ SumFunctionOnSet(analyzed, all) <= SumFunctionOnSet(analyzed', all')
      /\ SumFunctionOnSet(analyzed, hits) <= SumFunctionOnSet(analyzed', hits')
  <2> HIDE DEF all, hits
  <2>1. SumFunctionOnSet(analyzed, all) <= SumFunctionOnSet(analyzed', all')
    BY <1>1, <1>2, SumMonotone
  <2>2. SumFunctionOnSet(analyzed, hits) <= SumFunctionOnSet(analyzed', hits')
    BY <1>1, <1>3, SumMonotone
  <2> QED
    BY <2>1, <2>2
<1>5. Reproduced(f, key) <=> /\ SumFunctionOnSet(analyzed, all) >= 3
                             /\ SumFunctionOnSet(analyzed, hits) >= 2
  BY DEF Reproduced, Number, MapThenSumSet, MapThenFoldSet, SumFunctionOnSet, FoldFunctionOnSet, MapThenFoldSet
<1>6. Reproduced(f, key)' <=> /\ SumFunctionOnSet(analyzed', all') >= 3
                              /\ SumFunctionOnSet(analyzed', hits') >= 2
  <2>1. Reproduced(f, key)' <=> Number(all)' >= 3 /\ Number(hits)' >= 2
    BY DEF Reproduced
  <2>2. Number(all)' = SumFunctionOnSet(analyzed', all')
    BY DEF Number, MapThenSumSet, MapThenFoldSet, SumFunctionOnSet, FoldFunctionOnSet, MapThenFoldSet
  <2>3. Number(hits)' = SumFunctionOnSet(analyzed', hits')
    BY DEF Number, MapThenSumSet, MapThenFoldSet, SumFunctionOnSet, FoldFunctionOnSet, MapThenFoldSet
  <2> QED
    BY <2>1, <2>2, <2>3
<1>7. /\ SumFunctionOnSet(analyzed, all) \in Int /\ SumFunctionOnSet(analyzed', all') \in Int
      /\ SumFunctionOnSet(analyzed, hits) \in Int /\ SumFunctionOnSet(analyzed', hits') \in Int
  <2>1. /\ all \in SUBSET Trials /\ IsFiniteSet(all)
        /\ hits \in SUBSET Trials /\ IsFiniteSet(hits)
    BY <1>2, <1>3, FS_Subset
  <2> HIDE DEF all, hits
  <2>2. SumFunctionOnSet(analyzed, all) \in Int /\ SumFunctionOnSet(analyzed, hits) \in Int
    BY <1>1, <2>1, SumType
  <2>3. SumFunctionOnSet(analyzed', all') \in Int /\ SumFunctionOnSet(analyzed', hits') \in Int
    BY <1>1, <1>2, <1>3, SumType
  <2> QED
    BY <2>2, <2>3
<1> HIDE DEF all, hits
<1> QED
  BY <1>4, <1>5, <1>6, <1>7

\* Only another complete control can take a target back.
THEOREM TargetsKept == ReportSpec => TargetLostOnlyToControl
<1>1. ASSUME ReportInv, NEW t \in Trials, Analyze(t), ~(t.complete /\ IsBaseline(t.case))
      PROVE  Targets \subseteq Targets'
  <2> SUFFICES ASSUME NEW f \in Targets PROVE f \in Targets'
    OBVIOUS
  <2>1. PICK u \in Executed : f \in u.shows \cup Differences(u)
    BY DEF Targets, Clusters
  <2>2. u \in Trials /\ u \in Executed' /\ Differences(u)' = Differences(u)
    BY <1>1, OccurrencesKept DEF Executed
  <2>3. f \in Clusters'
    BY <2>1, <2>2 DEF Clusters
  <2>4. OnlyUnderMutation(f)'
    <3>1. OnlyUnderMutation(f)
      BY DEF Targets
    <3>2. Occurrences(f) \subseteq Occurrences(f)' /\ Occurrences(f)' \subseteq Occurrences(f) \cup {t}
      BY <1>1, OccurrencesKept
    <3>3. \A v \in Occurrences(f)' : v.complete => ~IsBaseline(v.case)
      BY <1>1, <3>1, <3>2 DEF OnlyUnderMutation
    <3> QED
      BY <3>1, <3>2, <3>3 DEF OnlyUnderMutation
  <2>5. ConfirmedComplete(f)'
    <3>1. PICK v \in Occurrences(f) : Reproduced(f, TrajectoryKey(v.case))
      BY DEF Targets, ConfirmedComplete
    <3>2. v \in Occurrences(f)'
      BY <1>1, OccurrencesKept
    <3>3. Reproduced(f, TrajectoryKey(v.case))'
      BY <1>1, <3>1, ReproducedKept DEF TrajectoryKey
    <3> QED
      BY <3>2, <3>3 DEF ConfirmedComplete
  <2> QED
    BY <2>3, <2>4, <2>5 DEF Targets
<1>2. ReportInv /\ [ReportNext]_analyzed =>
        [\A t \in Trials : Analyze(t) /\ ~(t.complete /\ IsBaseline(t.case))
            => Targets \subseteq Targets']_analyzed
  BY <1>1
<1> QED
  BY <1>2, ReportInvariant, PTL DEF ReportSpec, TargetLostOnlyToControl
=============================================================================
