-------------------------------- MODULE Sums --------------------------------
(***************************************************************************)
(* Sums over finite sets. SumFunctionOnSet is a fold, that is, a choice    *)
(* among the functions that satisfy a recursive equation on the subsets of *)
(* a set. Induction over these subsets shows that there is one, that its   *)
(* values do not depend on the set, and so what a sum is with and without  *)
(* an element. Used for the minutes and the bytes of a plan, and for       *)
(* votes.                                                                  *)
(***************************************************************************)
EXTENDS FiniteSetTheorems, TLAPS

\* Induction over the subsets of a finite set, as there being no smallest counterexample.
LEMMA NoCounterexample ==
  ASSUME NEW S, IsFiniteSet(S), NEW B, B \subseteq SUBSET S,
         \A U \in B : \E V \in B : V \subseteq U /\ V # U
  PROVE  B = {}
<1>1. FiniteSubsetsOf(S) = SUBSET S /\ IsWellFoundedOn(StrictSubsetOrdering(S), FiniteSubsetsOf(S))
  BY FS_FiniteSubsetsOfFinite, FS_StrictSubsetOrderingWellFounded
<1>2. IsWellFoundedOn(StrictSubsetOrdering(S), SUBSET S)
  BY ONLY <1>1
<1>3. B # {} => \E U \in B : \A V \in B : <<V, U>> \notin StrictSubsetOrdering(S)
  BY <1>2, WFMin, Zenon
<1> QED  BY <1>3 DEF StrictSubsetOrdering

\* The element a fold takes out of a set next.
First(s) == CHOOSE x \in s : TRUE

LEMMA FirstIn == ASSUME NEW s, s # {} PROVE First(s) \in s
BY DEF First

\* The functions among which the fold chooses: sums over each subset of S.
IsIter(g, f, S) ==
  g = [s \in SUBSET S |-> IF s = {} THEN 0 ELSE f[First(s)] + g[s \ {First(s)}]]

LEMMA SumIs == ASSUME NEW f, NEW S
  PROVE SumFunctionOnSet(f, S) = (CHOOSE g : IsIter(g, f, S))[S]
BY DEF SumFunctionOnSet, FoldFunctionOnSet, MapThenFoldSet, IsIter, First

\* What they satisfy.
IterEquations(g, f, S) ==
  /\ g[{}] = 0
  /\ \A s \in SUBSET S : s # {} => g[s] = f[First(s)] + g[s \ {First(s)}]

LEMMA IterValue == \A f, S, g : IsIter(g, f, S) => IterEquations(g, f, S)
<1> SUFFICES ASSUME NEW f, NEW S, NEW g, IsIter(g, f, S) PROVE IterEquations(g, f, S)
  OBVIOUS
<1>1. \A s \in SUBSET S : g[s] = IF s = {} THEN 0 ELSE f[First(s)] + g[s \ {First(s)}]
  BY Zenon DEF IsIter
<1>2. {} \in SUBSET S
  OBVIOUS
<1> QED  BY <1>1, <1>2 DEF IterEquations

\* Two iterations have the same values where both are defined.
LEMMA IterUnique ==
  ASSUME NEW f, NEW S, IsFiniteSet(S), NEW T, NEW g, NEW h, IsIter(g, f, S), IsIter(h, f, T),
         NEW s \in SUBSET S, s \in SUBSET T
  PROVE  g[s] = h[s]
<1> DEFINE B == {u \in SUBSET S : u \in SUBSET T /\ g[u] # h[u]}
<1>1. \A U \in B : \E V \in B : V \subseteq U /\ V # U
  <2> SUFFICES ASSUME NEW U \in B PROVE \E V \in B : V \subseteq U /\ V # U
    OBVIOUS
  <2> DEFINE V == U \ {First(U)}
  <2>a. IterEquations(g, f, S) /\ IterEquations(h, f, T)
    BY IterValue
  <2>1. U # {}
    BY <2>a DEF IterEquations
  <2>2. First(U) \in U
    BY <2>1, FirstIn
  <2>3. g[U] = f[First(U)] + g[V] /\ h[U] = f[First(U)] + h[V]
    BY <2>a, <2>1 DEF IterEquations
  <2>4. V \in B /\ V \subseteq U /\ V # U
    BY <2>2, <2>3
  <2> QED  BY <2>4
<1>2. B \subseteq SUBSET S /\ (s \notin B => g[s] = h[s])
  OBVIOUS
<1> HIDE DEF B
<1>3. B = {}
  BY <1>1, <1>2, NoCounterexample
<1> QED  BY <1>2, <1>3

\* There is an iteration over each finite set.
LEMMA IterExists ==
  ASSUME NEW f, NEW S, IsFiniteSet(S)
  PROVE  \E g : IsIter(g, f, S)
<1> DEFINE B == {u \in SUBSET S : ~\E g : IsIter(g, f, u)}
<1> SUFFICES ASSUME NEW U \in B, ~\E V \in B : V \subseteq U /\ V # U PROVE FALSE
  <2>1. B \subseteq SUBSET S /\ (S \notin B => \E g : IsIter(g, f, S))
    OBVIOUS
  <2> HIDE DEF B
  <2> QED  BY <2>1, NoCounterexample, Zenon
<1>1. U \in SUBSET S /\ (~\E g : IsIter(g, f, U)) /\ \A V \in B : V \subseteq U => V = U
  OBVIOUS
<1> DEFINE H(V) == (CHOOSE g : IsIter(g, f, V))[V]
           G == [s \in SUBSET U |-> IF s = {} THEN 0 ELSE f[First(s)] + H(s \ {First(s)})]
<1>2. ASSUME NEW V \in SUBSET U, V # U
      PROVE  IsIter(CHOOSE g : IsIter(g, f, V), f, V)
  <2>1. \E g : IsIter(g, f, V)
    BY <1>1, <1>2, Zenon
  <2> QED  BY <2>1, Zenon
<1>3. ASSUME NEW V \in SUBSET U, V # U
      PROVE  G[V] = H(V)
  <2> DEFINE g == CHOOSE g : IsIter(g, f, V)
             W == V \ {First(V)}
             h == CHOOSE h : IsIter(h, f, W)
  <2>1. IsIter(g, f, V)
    BY <1>2, <1>3, Zenon
  <2>2. CASE V = {}
    <3>1. g[{}] = 0
      BY <2>1, IterValue DEF IterEquations
    <3>2. H(V) = g[V] /\ G[V] = 0
      BY <2>2
    <3> HIDE DEF g
    <3> QED  BY <2>2, <3>1, <3>2
  <2>3. CASE V # {}
    <3>1. W \in SUBSET V /\ W \in SUBSET U /\ W # U
      BY <1>3, <2>3, FirstIn
    <3>2. IsIter(h, f, W)
      BY <1>2, <3>1, Zenon
    <3>3. IsFiniteSet(V)
      BY <1>1, FS_Subset
    <3> HIDE DEF g, h, W
    <3>4. g[W] = h[W]
      BY <2>1, <3>1, <3>2, <3>3, IterUnique
    <3>5. g[V] = f[First(V)] + g[W]
      BY <2>1, <2>3, IterValue DEF W, IterEquations
    <3> QED  BY <2>3, <3>4, <3>5 DEF g, h, W
  <2> QED  BY <2>2, <2>3
<1> HIDE DEF H
<1>4. \A s \in SUBSET U : s # {} => s \ {First(s)} \in SUBSET U /\ s \ {First(s)} # U
  BY FirstIn
<1>5. \A s \in SUBSET U : s # {} => G[s \ {First(s)}] = H(s \ {First(s)})
  BY <1>3, <1>4
<1>6. IsIter(G, f, U)
  BY <1>5 DEF IsIter
<1> QED  BY <1>1, <1>6, Zenon

\* A sum is the value of any iteration, over that set or a larger one.
LEMMA SumIter ==
  ASSUME NEW f, NEW S, IsFiniteSet(S), NEW g, IsIter(g, f, S), NEW T \in SUBSET S
  PROVE  SumFunctionOnSet(f, T) = g[T]
<1> DEFINE h == CHOOSE h : IsIter(h, f, T)
<1>1. IsFiniteSet(T)
  BY FS_Subset
<1>2. IsIter(h, f, T)
  BY <1>1, IterExists, Zenon
<1>3. SumFunctionOnSet(f, T) = h[T]
  BY SumIs
<1> HIDE DEF h
<1> QED  BY <1>1, <1>2, <1>3, IterUnique

\* The sum over no element, and over one and the rest: all others follow from these.
LEMMA SumEmpty == ASSUME NEW f PROVE SumFunctionOnSet(f, {}) = 0
<1>1. IsFiniteSet({})
  BY FS_EmptySet
<1>2. PICK g : IsIter(g, f, {})
  BY <1>1, IterExists
<1>3. SumFunctionOnSet(f, {}) = g[{}]
  BY <1>1, <1>2, SumIter
<1> QED  BY <1>2, <1>3, IterValue DEF IterEquations

LEMMA SumFirst ==
  ASSUME NEW f, NEW S, IsFiniteSet(S), S # {}
  PROVE  SumFunctionOnSet(f, S) = f[First(S)] + SumFunctionOnSet(f, S \ {First(S)})
<1>2. PICK g : IsIter(g, f, S)
  BY IterExists
<1>3. S \ {First(S)} \in SUBSET S
  OBVIOUS
<1>4. SumFunctionOnSet(f, S) = g[S] /\ SumFunctionOnSet(f, S \ {First(S)}) = g[S \ {First(S)}]
  BY <1>2, <1>3, SumIter
<1>5. g[S] = f[First(S)] + g[S \ {First(S)}]
  BY <1>2, IterValue DEF IterEquations
<1> QED  BY <1>4, <1>5

\* The sum of integers is an integer, that of natural numbers a natural number.
LEMMA SumInt ==
  ASSUME NEW S, IsFiniteSet(S), NEW f, \A s \in S : f[s] \in Int
  PROVE  SumFunctionOnSet(f, S) \in Int
<1> DEFINE B == {u \in SUBSET S : SumFunctionOnSet(f, u) \notin Int}
<1>1. \A U \in B : \E V \in B : V \subseteq U /\ V # U
  <2> SUFFICES ASSUME NEW U \in B PROVE \E V \in B : V \subseteq U /\ V # U
    OBVIOUS
  <2>0. U \in SUBSET S /\ SumFunctionOnSet(f, U) \notin Int
    OBVIOUS
  <2>1. U # {} /\ IsFiniteSet(U) /\ U \in SUBSET S /\ SumFunctionOnSet(f, U) \notin Int
    <3>1. U # {}
      BY <2>0, SumEmpty
    <3> QED  BY <2>0, <3>1, FS_Subset
  <2>2. First(U) \in U /\ U \ {First(U)} \subseteq U /\ U \ {First(U)} # U
    BY <2>1, FirstIn
  <2>3. SumFunctionOnSet(f, U \ {First(U)}) \notin Int
    BY <2>1, <2>2, SumFirst
  <2>4. U \ {First(U)} \in B
    BY <2>1, <2>3
  <2> QED  BY <2>2, <2>4
<1>2. B \subseteq SUBSET S /\ (S \in B <=> SumFunctionOnSet(f, S) \notin Int)
  OBVIOUS
<1> HIDE DEF B
<1>3. B = {}
  BY <1>1, <1>2, NoCounterexample
<1> QED  BY <1>2, <1>3

\* Any element can be split off a sum.
LEMMA SumSplit ==
  ASSUME NEW S, IsFiniteSet(S), NEW f, \A s \in S : f[s] \in Int, NEW x \in S
  PROVE  SumFunctionOnSet(f, S) = f[x] + SumFunctionOnSet(f, S \ {x})
<1> DEFINE Sum(u) == SumFunctionOnSet(f, u)
           B == {u \in SUBSET S : \E y \in u : Sum(u) # f[y] + Sum(u \ {y})}
<1>1. \A U \in B : \E V \in B : V \subseteq U /\ V # U
  <2> SUFFICES ASSUME NEW U \in B PROVE \E V \in B : V \subseteq U /\ V # U
    OBVIOUS
  <2>1. PICK y \in U : Sum(U) # f[y] + Sum(U \ {y})
    OBVIOUS
  <2> DEFINE c == First(U)
             rest == (U \ {c}) \ {y}
  <2>2. U \in SUBSET S /\ IsFiniteSet(U) /\ U # {} /\ IsFiniteSet(rest)
    BY <2>1, FS_Subset
  <2>3. c \in U /\ Sum(U) = f[c] + Sum(U \ {c})
    BY <2>2, FirstIn, SumFirst
  <2>4. c # y /\ rest = (U \ {y}) \ {c} /\ f[c] \in Int /\ f[y] \in Int
    BY <2>1, <2>2, <2>3
  <2>5. Sum(rest) \in Int
    BY <2>2, SumInt
  <2> SUFFICES ASSUME U \ {c} \notin B, U \ {y} \notin B PROVE FALSE
    BY <2>1, <2>3, Zenon
  <2>6. Sum(U \ {c}) = f[y] + Sum(rest)
    BY <2>1, <2>2, <2>4
  <2>7. Sum(U \ {y}) = f[c] + Sum(rest)
    BY <2>2, <2>3, <2>4
  <2> HIDE DEF Sum, rest, c, B
  <2> QED  BY <2>1, <2>3, <2>4, <2>5, <2>6, <2>7
<1>2. B \subseteq SUBSET S /\ (S \notin B => Sum(S) = f[x] + Sum(S \ {x}))
  OBVIOUS
<1> HIDE DEF B
<1>3. B = {}
  BY <1>1, <1>2, NoCounterexample
<1> QED  BY <1>2, <1>3

\* A sum over a part of a set, of terms that are not greater, is not greater than the
\* sum over the set; so it depends on the terms of the set only.
LEMMA SumLeq ==
  ASSUME NEW S, IsFiniteSet(S), NEW f, NEW g, NEW T \in SUBSET S,
         \A s \in S : g[s] \in Nat, \A s \in T : f[s] \in Int /\ f[s] <= g[s]
  PROVE  SumFunctionOnSet(f, T) <= SumFunctionOnSet(g, S)
<1> DEFINE F(u) == SumFunctionOnSet(f, u)
           G(u) == SumFunctionOnSet(g, u)
           B == {u \in SUBSET S : ~(F(u \cap T) <= G(u))}
<1>1. \A U \in B : \E V \in B : V \subseteq U /\ V # U
  <2> SUFFICES ASSUME NEW U \in B PROVE \E V \in B : V \subseteq U /\ V # U
    OBVIOUS
  <2>1. U \in SUBSET S /\ ~(F(U \cap T) <= G(U)) /\ U # {}
    BY SumEmpty
  <2>2. PICK x \in U : TRUE
    BY <2>1
  <2> DEFINE V == U \ {x}
  <2>3. IsFiniteSet(U) /\ IsFiniteSet(U \cap T) /\ IsFiniteSet(V) /\ IsFiniteSet(V \cap T)
    BY <2>1, FS_Subset
  <2>4. F(V \cap T) \in Int /\ G(V) \in Int
    BY <2>1, <2>3, SumInt
  <2>5. G(U) = g[x] + G(V) /\ g[x] \in Nat
    BY <2>1, <2>3, SumSplit
  <2>6. ~(F(V \cap T) <= G(V))
    <3>1. CASE x \in T
      <4>1. (U \cap T) \ {x} = V \cap T
        OBVIOUS
      <4>2. F(U \cap T) = f[x] + F(V \cap T) /\ f[x] \in Int /\ f[x] <= g[x]
        BY <2>1, <2>3, <3>1, <4>1, SumSplit
      <4> HIDE DEF F, G, V
      <4> QED  BY <2>1, <2>4, <2>5, <4>2
    <3>2. CASE x \notin T
      <4>1. U \cap T = V \cap T
        BY <3>2
      <4> HIDE DEF F, G, V
      <4> QED  BY <2>1, <2>4, <2>5, <4>1
    <3> QED  BY <3>1, <3>2
  <2>7. V \in B /\ V \subseteq U /\ V # U
    BY <2>1, <2>2, <2>6
  <2> QED  BY <2>7
<1>2. B \subseteq SUBSET S /\ (S \notin B => F(T) <= G(S))
  <2>1. S \cap T = T
    OBVIOUS
  <2> QED  BY <2>1
<1> HIDE DEF B
<1>3. B = {}
  BY <1>1, <1>2, NoCounterexample
<1> QED  BY <1>2, <1>3

\* The sum of natural numbers is a natural number.
LEMMA SumNat ==
  ASSUME NEW S, IsFiniteSet(S), NEW f, \A s \in S : f[s] \in Nat
  PROVE  SumFunctionOnSet(f, S) \in Nat
<1>1. SumFunctionOnSet(f, {}) <= SumFunctionOnSet(f, S)
  BY SumLeq
<1> QED  BY <1>1, SumEmpty, SumInt

\* Sums of equal terms are equal.
LEMMA SumEqual ==
  ASSUME NEW S, IsFiniteSet(S), NEW f, NEW g, \A s \in S : f[s] \in Nat /\ f[s] = g[s]
  PROVE  SumFunctionOnSet(f, S) = SumFunctionOnSet(g, S)
<1>1. /\ SumFunctionOnSet(f, S) <= SumFunctionOnSet(g, S)
      /\ SumFunctionOnSet(g, S) <= SumFunctionOnSet(f, S)
  BY SumLeq
<1> QED  BY <1>1, SumInt

\* Counting one for each member of a set, and nothing for others, is counting the members.
LEMMA SumMembers ==
  ASSUME NEW S, IsFiniteSet(S), NEW f, NEW E, \A s \in S : f[s] = IF s \in E THEN 1 ELSE 0
  PROVE  SumFunctionOnSet(f, S) = Cardinality(S \cap E)
<1> DEFINE F(u) == SumFunctionOnSet(f, u)
           B == {u \in SUBSET S : F(u) # Cardinality(u \cap E)}
<1>1. \A U \in B : \E V \in B : V \subseteq U /\ V # U
  <2> SUFFICES ASSUME NEW U \in B PROVE \E V \in B : V \subseteq U /\ V # U
    OBVIOUS
  <2>0. U \in SUBSET S /\ F(U) # Cardinality(U \cap E)
    OBVIOUS
  <2>1. U # {}
    <3>1. {} \cap E = {}
      OBVIOUS
    <3> QED  BY <2>0, <3>1, SumEmpty, FS_EmptySet
  <2>2. PICK x \in U : TRUE
    BY <2>1
  <2> DEFINE V == U \ {x}
  <2>3. IsFiniteSet(U) /\ IsFiniteSet(U \cap E) /\ IsFiniteSet(V) /\ IsFiniteSet(V \cap E)
    BY <2>0, FS_Subset
  <2>4. F(U) = f[x] + F(V)
    <3>1. \A s \in U : f[s] \in Int
      BY <2>0
    <3> QED  BY <2>3, <3>1, SumSplit
  <2>5. Cardinality(V \cap E) \in Nat
    BY <2>3, FS_CardinalityType
  <2>6. F(V) # Cardinality(V \cap E)
    <3>1. CASE x \in E
      <4>1. V \cap E = (U \cap E) \ {x} /\ x \in U \cap E
        BY <3>1
      <4>2. Cardinality(V \cap E) = Cardinality(U \cap E) - 1 /\ Cardinality(U \cap E) \in Nat
        <5>1. PICK W : W = U \cap E
          OBVIOUS
        <5>2. Cardinality(W \ {x}) = Cardinality(W) - 1 /\ Cardinality(W) \in Nat
          BY <2>3, <4>1, <5>1, FS_RemoveElement, FS_CardinalityType
        <5> QED  BY <4>1, <5>1, <5>2
      <4>3. f[x] = 1
        BY <2>0, <3>1
      <4>4. F(U) = 1 + F(V) /\ F(U) # Cardinality(U \cap E)
        BY <2>0, <2>4, <4>3
      <4>5. F(V) = Cardinality(V \cap E) => F(U) = Cardinality(U \cap E)
        <5> HIDE DEF F, V
        <5> QED  BY <2>5, <4>2, <4>4
      <4> QED  BY <4>4, <4>5
    <3>2. CASE x \notin E
      <4>1. V \cap E = U \cap E
        BY <3>2
      <4>2. f[x] = 0
        BY <2>0, <3>2
      <4>3. F(U) = 0 + F(V) /\ F(U) # Cardinality(U \cap E)
        BY <2>0, <2>4, <4>2
      <4>4. F(V) = Cardinality(V \cap E) => F(U) = Cardinality(U \cap E)
        <5> HIDE DEF F, V
        <5> QED  BY <2>5, <4>1, <4>3
      <4> QED  BY <4>3, <4>4
    <3> QED  BY <3>1, <3>2
  <2>7. V \in B /\ V \subseteq U /\ V # U
    BY <2>0, <2>6
  <2> QED  BY <2>7
<1>2. B \subseteq SUBSET S /\ (S \notin B => F(S) = Cardinality(S \cap E))
  OBVIOUS
<1> HIDE DEF B
<1>3. B = {}
  BY <1>1, <1>2, NoCounterexample
<1> QED  BY <1>2, <1>3
==============================================================================
