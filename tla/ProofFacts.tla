----------------------------- MODULE ProofFacts -----------------------------
(* Facts about naturals, sequences and sums over finite sets that the      *)
(* proofs of several modules cite.                                         *)
EXTENDS Integers, Sequences, SequenceTheorems, FiniteSetTheorems, WellFoundedInduction, TLAPS

\* A non-empty set of naturals has a least member.
LEMMA LeastMember ==
    ASSUME NEW T, T \subseteq Nat, T # {}
    PROVE  \E x \in T : \A y \in T : x <= y
<1> DEFINE R == {ss \in Nat \X Nat : ss[1] < ss[2]}
<1>1. IsWellFoundedOn(R, Nat)
  BY NatLessThanWellFounded DEF OpToRel
<1>2. \E x \in T : \A y \in T : ~ (<<y, x>> \in R)
  <2> HIDE DEF R
  <2> QED BY <1>1, WFMin
<1>3. ASSUME NEW x \in T, NEW y \in T, ~ (<<y, x>> \in R)
      PROVE  x <= y
  BY <1>3
<1> QED BY <1>2, <1>3

\* A prefix that ends where a second piece begins, followed by that piece.
LEMMA ExtendPrefix ==
    ASSUME NEW S, NEW s \in Seq(S), NEW m \in Nat, NEW n \in Nat,
           m <= n, n <= Len(s)
    PROVE  SubSeq(s, 1, m) \o SubSeq(s, m + 1, n) = SubSeq(s, 1, n)
BY ConcatAdjacentSubSeq

-----------------------------------------------------------------------------
(* Finite sets and sums over them.                                         *)

\* A property of a set, if its proper subsets have it, is one of all subsets of
\* a finite set.
LEMMA SubsetInduction ==
    ASSUME NEW S, IsFiniteSet(S), NEW Q,
           \A T \in SUBSET S : (\A U \in SUBSET T : U # T => U \in Q) => T \in Q
    PROVE  \A T \in SUBSET S : T \in Q
<1> DEFINE Sizes == {Cardinality(T) : T \in {U \in SUBSET S : U \notin Q}}
<1>1. \A T \in SUBSET S : IsFiniteSet(T) /\ Cardinality(T) \in Nat
  BY FS_Subset, FS_CardinalityType
<1>2. CASE Sizes = {}
  BY <1>2
<1>3. CASE Sizes # {}
  <2>1. PICK n \in Sizes : \A m \in Sizes : n <= m
    <3>1. Sizes \subseteq Nat
      BY <1>1
    <3> HIDE DEF Sizes
    <3> QED
      BY <3>1, <1>3, LeastMember
  <2>2. PICK T \in SUBSET S : T \notin Q /\ Cardinality(T) = n
    BY <2>1
  <2>3. ASSUME NEW U \in SUBSET T, U # T
        PROVE  U \in Q
    <3>1. Cardinality(U) <= Cardinality(T) /\ Cardinality(U) # Cardinality(T)
      BY <1>1, <2>2, <2>3, FS_Subset
    <3>2. U \in SUBSET S /\ Cardinality(U) \in Nat /\ Cardinality(T) \in Nat
      BY <1>1, <2>2
    <3>3. U \notin Q => n <= Cardinality(U)
      BY <2>1, <3>2
    <3> QED
      BY <3>1, <3>2, <3>3, <2>2
  <2> QED
    BY <2>2, <2>3
<1> QED
  BY <1>2, <1>3

Pick(S) == CHOOSE x \in S : TRUE

\* The function whose value at S is SumFunctionOnSet(f, S).
IsSum(g, f, S) ==
    g = [s \in SUBSET S |-> IF s = {} THEN 0 ELSE f[Pick(s)] + g[s \ {Pick(s)}]]

\* What a fold takes from a set is a member of it.
LEMMA PickMember == ASSUME NEW s, s # {} PROVE Pick(s) \in s
BY DEF Pick

\* Such functions for two sets agree on what both are defined for.
LEMMA SumsAgree ==
    ASSUME NEW f, NEW S, NEW T, NEW g, NEW h, IsFiniteSet(S), S \subseteq T,
           IsSum(g, f, S), IsSum(h, f, T)
    PROVE  \A s \in SUBSET S : g[s] = h[s]
<1> DEFINE Q == {s \in SUBSET S : g[s] = h[s]}
<1>1. ASSUME NEW s \in SUBSET S, \A U \in SUBSET s : U # s => U \in Q
      PROVE  s \in Q
  <2>1. CASE s = {}
    BY <2>1 DEF IsSum
  <2>2. CASE s # {}
    <3>1. Pick(s) \in s
      BY <2>2, PickMember
    <3>2. g[s \ {Pick(s)}] = h[s \ {Pick(s)}]
      BY <1>1, <3>1
    <3>3. g[s] = f[Pick(s)] + g[s \ {Pick(s)}]
      BY <2>2 DEF IsSum
    <3>4. h[s] = f[Pick(s)] + h[s \ {Pick(s)}]
      <4>1. s \in SUBSET T
        OBVIOUS
      <4> QED BY <2>2, <4>1 DEF IsSum
    <3> QED
      BY <3>2, <3>3, <3>4
  <2> QED
    BY <2>1, <2>2
<1> HIDE DEF Q
<1>2. \A s \in SUBSET S : s \in Q
  BY <1>1, SubsetInduction
<1> QED
  BY <1>2 DEF Q

\* The recursion has a solution for every finite set.
LEMMA SumExists ==
    ASSUME NEW f, NEW S, IsFiniteSet(S)
    PROVE  \E g : IsSum(g, f, S)
<1> DEFINE Q == {T \in SUBSET S : \E g : IsSum(g, f, T)}
<1>1. ASSUME NEW T \in SUBSET S, \A U \in SUBSET T : U # T => U \in Q
      PROVE  T \in Q
  <2> DEFINE h(s) == CHOOSE h : IsSum(h, f, s)
             value(s) == IF s = {} THEN 0
                         ELSE f[Pick(s)] + h(s \ {Pick(s)})[s \ {Pick(s)}]
             g == [s \in SUBSET T |-> value(s)]
  <2>1. \A s \in SUBSET T : s # T => IsSum(h(s), f, s)
    BY <1>1
  <2>2. ASSUME NEW s \in SUBSET T, s # T
        PROVE  g[s] = h(s)[s]
    <3>1. IsSum(h(s), f, s)
      BY <2>1, <2>2
    <3>2. CASE s = {}
      BY <3>1, <3>2 DEF IsSum
    <3>3. CASE s # {}
      <4> DEFINE u == s \ {Pick(s)}
      <4>1. Pick(s) \in s
        BY <3>3, PickMember
      <4>2. h(s)[s] = f[Pick(s)] + h(s)[u]
        BY <3>1, <3>3 DEF IsSum
      <4>3. IsSum(h(u), f, u)
        BY <2>1, <4>1
      <4>4. IsFiniteSet(u)
        BY FS_Subset
      <4>5. h(u)[u] = h(s)[u]
        BY <3>1, <4>3, <4>4, SumsAgree
      <4> QED
        BY <3>3, <4>2, <4>5
    <3> QED
      BY <3>2, <3>3
  <2>3. \A s \in SUBSET T : s # {} => s \ {Pick(s)} \in SUBSET T /\ s \ {Pick(s)} # T
    BY PickMember
  <2>4. \A s \in SUBSET T : s # {} => g[s \ {Pick(s)}] = h(s \ {Pick(s)})[s \ {Pick(s)}]
    <3> HIDE DEF g, h
    <3> QED BY <2>2, <2>3
  <2>5. g = [s \in SUBSET T |-> IF s = {} THEN 0 ELSE f[Pick(s)] + g[s \ {Pick(s)}]]
    <3>1. \A s \in SUBSET T : value(s) = IF s = {} THEN 0 ELSE f[Pick(s)] + g[s \ {Pick(s)}]
      <4> HIDE DEF g, h
      <4> QED BY <2>4
    <3> HIDE DEF value
    <3> QED BY <3>1
  <2> HIDE DEF g
  <2> QED
    BY <2>5 DEF IsSum
<1> HIDE DEF Q
<1>2. S \in Q
  BY <1>1, SubsetInduction
<1> QED
  BY <1>2 DEF Q

\* How the value at a set is built, in the order the fold takes.
LEMMA SumUnfold ==
    ASSUME NEW f, NEW S, IsFiniteSet(S)
    PROVE  /\ SumFunctionOnSet(f, {}) = 0
           /\ S # {} => SumFunctionOnSet(f, S) = f[Pick(S)] + SumFunctionOnSet(f, S \ {Pick(S)})
<1> DEFINE sum(T) == CHOOSE g : IsSum(g, f, T)
<1>1. \A T : SumFunctionOnSet(f, T) = sum(T)[T]
  BY DEF SumFunctionOnSet, FoldFunctionOnSet, MapThenFoldSet, IsSum, Pick
<1>2. \A T : IsFiniteSet(T) => IsSum(sum(T), f, T)
  BY SumExists
<1> HIDE DEF sum
<1>3. sum({})[{}] = 0
  BY <1>2, FS_EmptySet DEF IsSum
<1>4. ASSUME S # {}
      PROVE  sum(S)[S] = f[Pick(S)] + sum(S \ {Pick(S)})[S \ {Pick(S)}]
  <2> DEFINE U == S \ {Pick(S)}
  <2>1. IsFiniteSet(U)
    BY FS_Subset
  <2>2. IsSum(sum(S), f, S) /\ IsSum(sum(U), f, U)
    BY <1>2, <2>1
  <2>3. sum(S)[U] = sum(U)[U]
    BY <2>1, <2>2, SumsAgree
  <2>4. sum(S)[S] = f[Pick(S)] + sum(S)[U]
    BY <2>2, <1>4 DEF IsSum
  <2> QED
    BY <2>3, <2>4
<1> QED
  BY <1>1, <1>3, <1>4

\* A sum of integers is one, of naturals a natural.
LEMMA SumType ==
    ASSUME NEW S, IsFiniteSet(S), NEW f, \A x \in S : f[x] \in Int
    PROVE  /\ SumFunctionOnSet(f, S) \in Int
           /\ (\A x \in S : f[x] >= 0) => SumFunctionOnSet(f, S) >= 0
<1> DEFINE Q == {T \in SUBSET S : /\ SumFunctionOnSet(f, T) \in Int
                                  /\ (\A x \in T : f[x] >= 0) => SumFunctionOnSet(f, T) >= 0}
<1>1. ASSUME NEW T \in SUBSET S, \A U \in SUBSET T : U # T => U \in Q
      PROVE  T \in Q
  <2>1. CASE T = {}
    <3>1. SumFunctionOnSet(f, T) = 0
      BY <2>1, SumUnfold, FS_EmptySet
    <3> QED BY <3>1
  <2>2. CASE T # {}
    <3> DEFINE x == Pick(T)
               U == T \ {x}
    <3>1. x \in T
      BY <2>2, PickMember
    <3>2. SumFunctionOnSet(f, T) = f[x] + SumFunctionOnSet(f, U)
      BY <2>2, SumUnfold, FS_Subset
    <3>3. U \in Q
      BY <1>1, <3>1
    <3>4. f[x] \in Int
      BY <3>1
    <3> HIDE DEF x
    <3> QED
      BY <3>1, <3>2, <3>3, <3>4
  <2> QED
    BY <2>1, <2>2
<1> HIDE DEF Q
<1>2. S \in Q
  BY <1>1, SubsetInduction
<1> QED
  BY <1>2 DEF Q

\* Any element may be the last to be added.
LEMMA SumRemove ==
    ASSUME NEW S, IsFiniteSet(S), NEW f, \A x \in S : f[x] \in Int, NEW e \in S
    PROVE  SumFunctionOnSet(f, S) = f[e] + SumFunctionOnSet(f, S \ {e})
<1> DEFINE Q == {T \in SUBSET S : \A x \in T :
                    SumFunctionOnSet(f, T) = f[x] + SumFunctionOnSet(f, T \ {x})}
<1>0. \A T \in SUBSET S : IsFiniteSet(T) /\ SumFunctionOnSet(f, T) \in Int
  <2>1. ASSUME NEW T \in SUBSET S PROVE IsFiniteSet(T) /\ SumFunctionOnSet(f, T) \in Int
    <3>1. IsFiniteSet(T)
      BY FS_Subset
    <3> QED BY <3>1, SumType
  <2> QED BY <2>1
<1>1. ASSUME NEW T \in SUBSET S, \A U \in SUBSET T : U # T => U \in Q
      PROVE  T \in Q
  <2> SUFFICES ASSUME NEW x \in T
               PROVE  SumFunctionOnSet(f, T) = f[x] + SumFunctionOnSet(f, T \ {x})
    OBVIOUS
  <2> DEFINE p == Pick(T)
  <2>1. p \in T
    BY PickMember
  <2>2. SumFunctionOnSet(f, T) = f[p] + SumFunctionOnSet(f, T \ {p})
    BY <1>0, SumUnfold
  <2> HIDE DEF p
  <2>3. CASE x = p
    BY <2>2, <2>3
  <2>4. CASE x # p
    <3>1. T \ {p} \in Q /\ T \ {x} \in Q
      BY <1>1, <2>1
    <3> DEFINE U == T \ {p, x}
    <3>2. (T \ {p}) \ {x} = U /\ (T \ {x}) \ {p} = U
      OBVIOUS
    <3>3. SumFunctionOnSet(f, T \ {p}) = f[x] + SumFunctionOnSet(f, U)
      BY <3>1, <3>2, <2>4
    <3>4. SumFunctionOnSet(f, T \ {x}) = f[p] + SumFunctionOnSet(f, U)
      BY <3>1, <3>2, <2>1, <2>4
    <3>5. SumFunctionOnSet(f, U) \in Int /\ f[p] \in Int /\ f[x] \in Int
      BY <1>0, <2>1
    <3> HIDE DEF U
    <3> QED
      BY <2>2, <3>3, <3>4, <3>5
  <2> QED
    BY <2>3, <2>4
<1> HIDE DEF Q
<1>2. S \in Q
  BY <1>1, SubsetInduction
<1> QED
  BY <1>2 DEF Q

\* Functions that agree on a set have the same sum over it.
LEMMA SumSame ==
    ASSUME NEW S, IsFiniteSet(S), NEW f, NEW h, \A x \in S : f[x] = h[x]
    PROVE  SumFunctionOnSet(f, S) = SumFunctionOnSet(h, S)
<1>1. ASSUME NEW g
      PROVE  IsSum(g, f, S) <=> IsSum(g, h, S)
  BY PickMember DEF IsSum
<1>2. (CHOOSE g : IsSum(g, f, S)) = (CHOOSE g : IsSum(g, h, S))
  BY <1>1
<1>3. \A k : SumFunctionOnSet(k, S) = (CHOOSE g : IsSum(g, k, S))[S]
  BY DEF SumFunctionOnSet, FoldFunctionOnSet, MapThenFoldSet, IsSum, Pick
<1> QED
  BY <1>2, <1>3

\* Where one value changes, the sum changes as much.
LEMMA SumChange ==
    ASSUME NEW S, IsFiniteSet(S), NEW f, NEW h, NEW e \in S,
           \A x \in S : f[x] \in Int /\ h[x] \in Int,
           \A x \in S \ {e} : f[x] = h[x]
    PROVE  SumFunctionOnSet(h, S) = SumFunctionOnSet(f, S) + h[e] - f[e]
<1>1. IsFiniteSet(S \ {e})
  BY FS_Subset
<1>2. SumFunctionOnSet(f, S) = f[e] + SumFunctionOnSet(f, S \ {e})
  BY SumRemove
<1>3. SumFunctionOnSet(h, S) = h[e] + SumFunctionOnSet(h, S \ {e})
  BY SumRemove
<1>4. SumFunctionOnSet(f, S \ {e}) = SumFunctionOnSet(h, S \ {e})
  BY <1>1, SumSame
<1>5. SumFunctionOnSet(f, S \ {e}) \in Int
  BY <1>1, SumType
<1> QED
  BY <1>2, <1>3, <1>4, <1>5

\* Larger values over a larger set sum up to more.
LEMMA SumMonotone ==
    ASSUME NEW S, IsFiniteSet(S), NEW T, T \subseteq S, NEW f, NEW h,
           \A x \in S : f[x] \in Nat /\ h[x] \in Nat /\ f[x] <= h[x]
    PROVE  SumFunctionOnSet(f, T) <= SumFunctionOnSet(h, S)
<1> DEFINE Q == {U \in SUBSET S : SumFunctionOnSet(f, U \cap T) <= SumFunctionOnSet(h, U)}
<1>1. ASSUME NEW U \in SUBSET S, \A V \in SUBSET U : V # U => V \in Q
      PROVE  U \in Q
  <2>1. CASE U = {}
    <3>1. U \cap T = {}
      BY <2>1
    <3>2. SumFunctionOnSet(f, {}) = 0 /\ SumFunctionOnSet(h, {}) = 0
      BY SumUnfold, FS_EmptySet
    <3> QED BY <2>1, <3>1, <3>2
  <2>2. CASE U # {}
    <3> DEFINE x == Pick(U)
               V == U \ {x}
    <3>1. x \in U
      BY <2>2, PickMember
    <3> HIDE DEF x
    <3>2. V \in Q
      BY <1>1, <3>1
    <3>3. IsFiniteSet(U) /\ IsFiniteSet(V) /\ IsFiniteSet(U \cap T) /\ IsFiniteSet(V \cap T)
      BY FS_Subset
    <3>4. SumFunctionOnSet(h, U) = h[x] + SumFunctionOnSet(h, V)
      BY <3>1, <3>3, SumRemove
    <3>5. x \in T => SumFunctionOnSet(f, U \cap T) = f[x] + SumFunctionOnSet(f, V \cap T)
      <4>1. (U \cap T) \ {x} = V \cap T
        OBVIOUS
      <4>2. x \in T => SumFunctionOnSet(f, U \cap T) = f[x] + SumFunctionOnSet(f, (U \cap T) \ {x})
        BY <3>1, <3>3, SumRemove
      <4> QED BY <4>1, <4>2
    <3>6. x \notin T => U \cap T = V \cap T
      BY <3>1
    <3>7. /\ SumFunctionOnSet(h, V) \in Int
          /\ SumFunctionOnSet(f, V \cap T) \in Int
          /\ SumFunctionOnSet(f, V \cap T) <= SumFunctionOnSet(h, V)
      BY <3>2, <3>3, SumType
    <3>8. f[x] \in Nat /\ h[x] \in Nat /\ f[x] <= h[x]
      BY <3>1
    <3>9. SumFunctionOnSet(f, U \cap T) <= SumFunctionOnSet(h, U)
      <4> HIDE DEF V
      <4>1. CASE x \in T
        BY <4>1, <3>4, <3>5, <3>7, <3>8
      <4>2. CASE x \notin T
        BY <4>2, <3>4, <3>6, <3>7, <3>8
      <4> QED BY <4>1, <4>2
    <3> QED
      BY <3>9
  <2> QED
    BY <2>1, <2>2
<1> HIDE DEF Q
<1>2. S \in Q
  BY <1>1, SubsetInduction
<1>3. S \cap T = T
  OBVIOUS
<1> QED
  BY <1>2, <1>3 DEF Q

\* Values that are smaller by k each have a sum that is smaller by k per member.
LEMMA SumShift ==
    ASSUME NEW S, IsFiniteSet(S), NEW k \in Int, NEW f, NEW h,
           \A x \in S : f[x] \in Int /\ h[x] = f[x] - k
    PROVE  SumFunctionOnSet(f, S) = SumFunctionOnSet(h, S) + Cardinality(S) * k
<1> DEFINE Q == {T \in SUBSET S :
                    SumFunctionOnSet(f, T) = SumFunctionOnSet(h, T) + Cardinality(T) * k}
<1>1. ASSUME NEW T \in SUBSET S, \A U \in SUBSET T : U # T => U \in Q
      PROVE  T \in Q
  <2>1. CASE T = {}
    <3>1. SumFunctionOnSet(f, T) = 0 /\ SumFunctionOnSet(h, T) = 0 /\ Cardinality(T) = 0
      <4>1. SumFunctionOnSet(f, {}) = 0 /\ SumFunctionOnSet(h, {}) = 0 /\ Cardinality({}) = 0
        BY SumUnfold, FS_EmptySet
      <4> QED BY <2>1, <4>1
    <3> QED
      BY <3>1
  <2>2. CASE T # {}
    <3> DEFINE x == Pick(T)
               U == T \ {x}
    <3>1. x \in T
      BY <2>2, PickMember
    <3> HIDE DEF x
    <3>2. U \in Q
      BY <1>1, <3>1
    <3>3. IsFiniteSet(T) /\ IsFiniteSet(U)
      BY FS_Subset
    <3>4. SumFunctionOnSet(f, T) = f[x] + SumFunctionOnSet(f, U)
      BY <3>1, <3>3, SumRemove
    <3>5. SumFunctionOnSet(h, T) = h[x] + SumFunctionOnSet(h, U)
      BY <3>1, <3>3, SumRemove
    <3>6. Cardinality(T) = Cardinality(U) + 1 /\ Cardinality(U) \in Nat
      BY <3>1, <3>3, FS_RemoveElement, FS_CardinalityType
    <3>7. SumFunctionOnSet(f, U) = SumFunctionOnSet(h, U) + Cardinality(U) * k
      BY <3>2
    <3>8. SumFunctionOnSet(h, U) \in Int /\ f[x] \in Int /\ h[x] = f[x] - k
      BY <3>1, <3>3, SumType
    <3>9. (Cardinality(U) + 1) * k = Cardinality(U) * k + k /\ Cardinality(U) * k \in Int
      BY <3>6
    <3> QED
      BY <3>4, <3>5, <3>6, <3>7, <3>8, <3>9
  <2> QED
    BY <2>1, <2>2
<1> HIDE DEF Q
<1>2. S \in Q
  BY <1>1, SubsetInduction
<1> QED
  BY <1>2 DEF Q
=============================================================================
