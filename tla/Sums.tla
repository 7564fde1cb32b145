---------------------------------- MODULE Sums ---------------------------------
(***************************************************************************)
(* What the sums of the community modules are worth.  MapThenFoldSet takes *)
(* the elements of a finite set one at a time, by a recursive function on  *)
(* its subsets; that there is such a function, and what it yields, follows *)
(* by looking at a smallest set that has it wrong.                         *)
(***************************************************************************)
EXTENDS Integers, FiniteSetsExt, FiniteSetTheorems, TLAPS

\* The sum of f over S, and the element of S that is added last.
Sum(f, S) == MapThenSumSet(LAMBDA x : f[x], S)
LastOf(S) == CHOOSE x \in S : TRUE

\* g has the sum of each subset of S.
Sums(g, f, S) ==
  g = [s \in SUBSET S |-> IF s = {} THEN 0 ELSE f[LastOf(s)] + g[s \ {LastOf(s)}]]

\* Of sets of subsets of a finite set one is smallest.
LEMMA SmallestSubset ==
  ASSUME NEW S, IsFiniteSet(S), NEW B, B \subseteq SUBSET S, B # {}
  PROVE  \E s \in B : \A t \in B : t \subseteq s => t = s
<1>1. B \subseteq FiniteSubsetsOf(S)
  <2>1. FiniteSubsetsOf(S) = SUBSET S
    BY FS_FiniteSubsetsOfFinite
  <2> QED BY <2>1
<1> DEFINE R == StrictSubsetOrdering(S)
<1>2. \A s, t \in SUBSET S : <<t, s>> \in R <=> t \subseteq s /\ t # s
  BY DEF StrictSubsetOrdering
<1>3. IsWellFoundedOn(R, FiniteSubsetsOf(S))
  BY FS_StrictSubsetOrderingWellFounded
<1> HIDE DEF R
<1>4. PICK s \in B : \A t \in B : ~ (<<t, s>> \in R)
  BY <1>1, <1>3, WFMin
<1>5. ASSUME NEW t \in B, t \subseteq s PROVE t = s
  BY <1>2, <1>4, <1>5
<1> QED BY <1>5

LEMMA SumIsOne ==
  ASSUME NEW f, NEW S
  PROVE  Sum(f, S) = (CHOOSE g : Sums(g, f, S))[S]
BY DEF Sum, MapThenSumSet, MapThenFoldSet, Sums, LastOf

LEMMA LastIsIn ==
  ASSUME NEW S, S # {}
  PROVE  LastOf(S) \in S
BY DEF LastOf

\* Two such functions agree where both are defined.
LEMMA SumsAgree ==
  ASSUME NEW f, NEW S, NEW T, IsFiniteSet(S), NEW g, NEW h, Sums(g, f, S), Sums(h, f, T)
  PROVE  \A s \in SUBSET S : s \subseteq T => g[s] = h[s]
<1> DEFINE B == {s \in SUBSET S : s \subseteq T /\ g[s] # h[s]}
<1> SUFFICES ASSUME B # {} PROVE FALSE
  OBVIOUS
<1>0. B \subseteq SUBSET S
  OBVIOUS
<1>1. PICK s \in B : \A t \in B : t \subseteq s => t = s
  <2> HIDE DEF B
  <2> QED BY <1>0, SmallestSubset
<1>2. g[s] = IF s = {} THEN 0 ELSE f[LastOf(s)] + g[s \ {LastOf(s)}]
  BY <1>1 DEF Sums
<1>3. h[s] = IF s = {} THEN 0 ELSE f[LastOf(s)] + h[s \ {LastOf(s)}]
  BY <1>1 DEF Sums
<1>4. s # {}
  BY <1>1, <1>2, <1>3
<1> DEFINE t == s \ {LastOf(s)}
<1>5. t \subseteq s /\ t # s
  BY <1>4, LastIsIn
<1>6. g[t] = h[t]
  BY <1>1, <1>5
<1> QED BY <1>1, <1>2, <1>3, <1>4, <1>6

\* There is one, for a finite set.
LEMMA SumsExist ==
  ASSUME NEW f, NEW S, IsFiniteSet(S)
  PROVE  \E g : Sums(g, f, S)
<1> DEFINE B == {s \in SUBSET S : ~ \E g : Sums(g, f, s)}
<1> SUFFICES ASSUME B # {} PROVE FALSE
  OBVIOUS
<1>0. B \subseteq SUBSET S
  OBVIOUS
<1>1. PICK s \in B : \A t \in B : t \subseteq s => t = s
  <2> HIDE DEF B
  <2> QED BY <1>0, SmallestSubset
<1>2. \A t \in SUBSET s : t # s => \E g : Sums(g, f, t)
  BY <1>1
<1> DEFINE G(t) == CHOOSE g : Sums(g, f, t)
<1>3. \A t \in SUBSET s : t # s => Sums(G(t), f, t)
  BY <1>2
<1> HIDE DEF G
<1> DEFINE h == [t \in SUBSET s |->
                  IF t = {} THEN 0
                  ELSE f[LastOf(t)] + G(t \ {LastOf(t)})[t \ {LastOf(t)}]]
<1>4. ASSUME NEW t \in SUBSET s, t # s PROVE h[t] = G(t)[t]
  <2>1. G(t)[t] = IF t = {} THEN 0 ELSE f[LastOf(t)] + G(t)[t \ {LastOf(t)}]
    BY <1>3, <1>4 DEF Sums
  <2>2. CASE t = {}
    BY <2>1, <2>2
  <2>3. CASE t # {}
    <3> DEFINE u == t \ {LastOf(t)}
    <3>1. u \subseteq t /\ u \in SUBSET s /\ u # s
      BY <1>4
    <3>2. IsFiniteSet(u)
      BY <1>1, <3>1, FS_Subset
    <3>3. Sums(G(u), f, u) /\ Sums(G(t), f, t)
      BY <1>3, <1>4, <3>1
    <3>4. u \in SUBSET u /\ u \subseteq t
      BY <3>1
    <3> HIDE DEF u
    <3>5. G(u)[u] = G(t)[u]
      BY <3>2, <3>3, <3>4, SumsAgree
    <3> QED BY <2>1, <2>3, <3>5 DEF u
  <2> QED BY <2>2, <2>3
<1>5. ASSUME NEW t \in SUBSET s, t # {}
      PROVE  h[t] = f[LastOf(t)] + h[t \ {LastOf(t)}]
  <2> DEFINE u == t \ {LastOf(t)}
  <2>1. u \in SUBSET s /\ u # s
    BY <1>5, LastIsIn
  <2>2. h[u] = G(u)[u]
    BY <1>4, <2>1
  <2> QED BY <1>5, <2>2
<1>6. h[{}] = 0
  OBVIOUS
<1>7. h = [t \in SUBSET s |-> IF t = {} THEN 0 ELSE f[LastOf(t)] + h[t \ {LastOf(t)}]]
  <2>1. \A t \in SUBSET s : h[t] = IF t = {} THEN 0 ELSE f[LastOf(t)] + h[t \ {LastOf(t)}]
    BY <1>5, <1>6
  <2>2. h = [t \in SUBSET s |-> h[t]]
    OBVIOUS
  <2> HIDE DEF h
  <2> QED BY <2>1, <2>2
<1>8. Sums(h, f, s)
  BY <1>7 DEF Sums
<1> QED BY <1>1, <1>8

\* The sum, one element at a time.
LEMMA SumStep ==
  ASSUME NEW f, NEW S, IsFiniteSet(S)
  PROVE  Sum(f, S) = IF S = {} THEN 0 ELSE f[LastOf(S)] + Sum(f, S \ {LastOf(S)})
<1> DEFINE T == S \ {LastOf(S)}
<1>1. PICK g : g = (CHOOSE x : Sums(x, f, S))
  OBVIOUS
<1>2. PICK h : h = (CHOOSE x : Sums(x, f, T))
  OBVIOUS
<1>3. IsFiniteSet(T) /\ T \subseteq S
  BY FS_Subset
<1>4. Sums(g, f, S)
  BY <1>1, SumsExist
<1>5. Sums(h, f, T)
  BY <1>2, <1>3, SumsExist
<1>6. Sum(f, S) = g[S] /\ Sum(f, T) = h[T]
  BY <1>1, <1>2, SumIsOne
<1>7. h[T] = g[T]
  BY <1>3, <1>4, <1>5, SumsAgree
<1>8. g[S] = IF S = {} THEN 0 ELSE f[LastOf(S)] + g[T]
  BY <1>4 DEF Sums
<1> QED BY <1>6, <1>7, <1>8

LEMMA SumIsInt ==
  ASSUME NEW f, NEW S, IsFiniteSet(S), \A x \in S : f[x] \in Int
  PROVE  Sum(f, S) \in Int
<1> DEFINE B == {s \in SUBSET S : Sum(f, s) \notin Int}
<1> SUFFICES ASSUME B # {} PROVE FALSE
  OBVIOUS
<1>1. B \subseteq SUBSET S
  OBVIOUS
<1>2. PICK s \in B : \A t \in B : t \subseteq s => t = s
  <2> HIDE DEF B
  <2> QED BY <1>1, SmallestSubset
<1>3. IsFiniteSet(s)
  BY <1>2, FS_Subset
<1>4. Sum(f, s) = IF s = {} THEN 0 ELSE f[LastOf(s)] + Sum(f, s \ {LastOf(s)})
  BY <1>3, SumStep
<1>5. s # {}
  BY <1>2, <1>4
<1>6. LastOf(s) \in s /\ f[LastOf(s)] \in Int
  BY <1>2, <1>5, LastIsIn
<1>7. Sum(f, s \ {LastOf(s)}) \in Int
  BY <1>2, <1>6
<1> QED BY <1>2, <1>4, <1>5, <1>6, <1>7

\* Sums of differences.
LEMMA SumOfDifferences ==
  ASSUME NEW S, IsFiniteSet(S), NEW f, NEW f1, NEW f2,
         \A x \in S : f1[x] \in Int /\ f2[x] \in Int /\ f[x] = f1[x] - f2[x]
  PROVE  Sum(f, S) = Sum(f1, S) - Sum(f2, S)
<1> DEFINE B == {s \in SUBSET S : Sum(f, s) # Sum(f1, s) - Sum(f2, s)}
<1> SUFFICES ASSUME B # {} PROVE FALSE
  OBVIOUS
<1>1. B \subseteq SUBSET S
  OBVIOUS
<1>2. PICK s \in B : \A t \in B : t \subseteq s => t = s
  <2> HIDE DEF B
  <2> QED BY <1>1, SmallestSubset
<1>3. IsFiniteSet(s)
  BY <1>2, FS_Subset
<1> DEFINE x == LastOf(s)
           t == s \ {x}
<1>4. /\ Sum(f, s) = IF s = {} THEN 0 ELSE f[x] + Sum(f, t)
      /\ Sum(f1, s) = IF s = {} THEN 0 ELSE f1[x] + Sum(f1, t)
      /\ Sum(f2, s) = IF s = {} THEN 0 ELSE f2[x] + Sum(f2, t)
  BY <1>3, SumStep
<1>5. s # {}
  BY <1>2, <1>4
<1>6. x \in s /\ f1[x] \in Int /\ f2[x] \in Int /\ f[x] = f1[x] - f2[x]
  BY <1>2, <1>5, LastIsIn
<1>7. Sum(f, t) = Sum(f1, t) - Sum(f2, t)
  BY <1>2, <1>6
<1>8. Sum(f1, t) \in Int /\ Sum(f2, t) \in Int
  <2>1. IsFiniteSet(t) /\ \A y \in t : f1[y] \in Int /\ f2[y] \in Int
    BY <1>2, <1>3, FS_Subset
  <2> HIDE DEF t
  <2> QED BY <2>1, SumIsInt
<1>9. Sum(f, s) = Sum(f1, s) - Sum(f2, s)
  <2> HIDE DEF x, t
  <2> QED BY <1>4, <1>5, <1>6, <1>7, <1>8
<1> QED BY <1>2, <1>9

\* The elements of a finite set, counted by the place they belong to.
LEMMA SumOfCounts ==
  ASSUME NEW S, IsFiniteSet(S), NEW T, IsFiniteSet(T), NEW place \in [T -> S], NEW f,
         \A x \in S : f[x] = Cardinality({e \in T : place[e] = x})
  PROVE  Sum(f, S) = Cardinality(T)
<1> DEFINE In(s) == {e \in T : place[e] \in s}
           B == {s \in SUBSET S : Sum(f, s) # Cardinality(In(s))}
<1>1. ASSUME B # {} PROVE FALSE
  <2>1. B \subseteq SUBSET S
    OBVIOUS
  <2>2. PICK s \in B : \A t \in B : t \subseteq s => t = s
    <3> HIDE DEF B
    <3> QED BY <1>1, <2>1, SmallestSubset
  <2>3. IsFiniteSet(s)
    BY <2>2, FS_Subset
  <2> DEFINE x == LastOf(s)
             t == s \ {x}
             E == {e \in T : place[e] = x}
  <2>4. Sum(f, s) = IF s = {} THEN 0 ELSE f[x] + Sum(f, t)
    BY <2>3, SumStep
  <2>5. In({}) = {}
    OBVIOUS
  <2>6. s # {}
    BY <2>2, <2>4, <2>5, FS_EmptySet
  <2>7. x \in s
    BY <2>6, LastIsIn
  <2>8. Sum(f, t) = Cardinality(In(t)) /\ f[x] = Cardinality(E)
    BY <2>2, <2>7
  <2>9. In(s) = In(t) \cup E /\ In(t) \cap E = {}
    BY <2>7
  <2>10. In(t) \subseteq T /\ E \subseteq T
    OBVIOUS
  <2>13. Sum(f, s) # Cardinality(In(s))
    BY <2>2
  <2> HIDE DEF B, In, E, t, x
  <2>11. IsFiniteSet(In(t)) /\ IsFiniteSet(E)
    BY <2>10, FS_Subset
  <2>12. /\ Cardinality(In(t) \cup E) = Cardinality(In(t)) + Cardinality(E) - Cardinality(In(t) \cap E)
         /\ Cardinality({}) = 0 /\ Cardinality(In(t)) \in Nat /\ Cardinality(E) \in Nat
    BY <2>11, FS_Union, FS_EmptySet, FS_CardinalityType
  <2>14. Cardinality(In(s)) = Cardinality(In(t)) + Cardinality(E)
    <3>1. Cardinality(In(s)) = Cardinality(In(t) \cup E) /\ Cardinality(In(t) \cap E) = 0
      BY <2>9, <2>12
    <3> QED BY <2>12, <3>1
  <2>15. Sum(f, s) = Cardinality(E) + Cardinality(In(t))
    BY <2>4, <2>6, <2>8
  <2> QED BY <2>12, <2>13, <2>14, <2>15
<1>2. Sum(f, S) = Cardinality(In(S))
  BY <1>1
<1>3. In(S) = T
  OBVIOUS
<1> QED BY <1>2, <1>3
================================================================================
