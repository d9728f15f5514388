------------------------------- MODULE NatFacts -------------------------------
(***************************************************************************)
(* Facts about natural numbers that the proofs about the models rest on.   *)
(* The least-number principle comes from the well-foundedness of strict    *)
(* inclusion on finite sets, the others from it.                           *)
(***************************************************************************)
EXTENDS Naturals, Functions, FiniteSetTheorems, TLAPS

(***************************************************************************)
(* Every nonempty set of natural numbers has a least element.              *)
(***************************************************************************)
LEMMA LeastNat ==
    ASSUME NEW T, T \subseteq Nat, T # {}
    PROVE  \E x \in T : \A y \in T : x <= y
<1> DEFINE Below(n) == 1 .. n
           Intervals == {Below(n) : n \in T}
<1>1. Intervals \subseteq FiniteSubsetsOf(Nat)
  BY FS_Interval DEF FiniteSubsetsOf
<1>2. PICK X \in Intervals :
         \A Y \in Intervals : ~ (<<Y, X>> \in StrictSubsetOrdering(Nat))
  <2>1. Intervals # {}
    OBVIOUS
  <2>2. IsWellFoundedOn(StrictSubsetOrdering(Nat), FiniteSubsetsOf(Nat))
    BY FS_StrictSubsetOrderingWellFounded
  <2> HIDE DEF Intervals
  <2> QED  BY <1>1, <2>1, <2>2, WFMin
<1>3. PICK x \in T : X = 1 .. x
  BY <1>2
<1>4. ASSUME NEW y \in T, ~ (x <= y)
      PROVE  FALSE
  <2>1. ~ (<<Below(y), X>> \in StrictSubsetOrdering(Nat))
    <3>1. Below(y) \in Intervals
      OBVIOUS
    <3> QED  BY <3>1, <1>2
  <2>2. x \in X /\ x \notin Below(y)
    BY <1>3, <1>4
  <2>3. Below(y) \subseteq X /\ X \subseteq Nat
    BY <1>3, <1>4
  <2> QED  BY <2>1, <2>2, <2>3 DEF StrictSubsetOrdering
<1> QED  BY <1>4

(***************************************************************************)
(* Induction over the iterations of a loop.                                *)
(***************************************************************************)
LEMMA LoopInduction ==
    ASSUME NEW n \in Nat, NEW S, 0 \in S, \A i \in 1 .. n : i-1 \in S => i \in S
    PROVE  0 .. n \subseteq S
<1> DEFINE Missing == (0 .. n) \ S
<1>1. ASSUME NEW k \in Missing, \A j \in Missing : k <= j
      PROVE  FALSE
  <2>1. k \in 1 .. n /\ ~ (k <= k-1)
    OBVIOUS
  <2>2. k-1 \notin Missing
    <3> HIDE DEF Missing
    <3> QED  BY <2>1, <1>1
  <2>3. k-1 \in S
    BY <2>1, <2>2
  <2> QED  BY <2>1, <2>3
<1>2. Missing \subseteq Nat
  OBVIOUS
<1>3. Missing = {}
  <2> HIDE DEF Missing
  <2> QED  BY <1>1, <1>2, LeastNat
<1> QED  BY <1>3

(***************************************************************************)
(* Every nonempty set of natural numbers with a bound has a greatest one.  *)
(***************************************************************************)
LEMMA GreatestNat ==
    ASSUME NEW T, T \subseteq Nat, T # {}, NEW n \in Nat, \A x \in T : x <= n
    PROVE  \E x \in T : \A y \in T : y <= x
<1> DEFINE Distances == {n - x : x \in T}
<1>1. Distances \subseteq Nat /\ Distances # {}
  <2>1. \A x \in T : n - x \in Nat
    OBVIOUS
  <2>2. PICK x \in T : TRUE
    OBVIOUS
  <2>3. n - x \in Distances
    BY <2>2
  <2> QED  BY <2>1, <2>3
<1>2. PICK d \in Distances : \A e \in Distances : d <= e
  <2> HIDE DEF Distances
  <2> QED  BY <1>1, LeastNat
<1>3. PICK x \in T : d = n - x
  BY <1>2
<1>4. ASSUME NEW y \in T PROVE y <= x
  <2>1. n - x <= n - y
    BY <1>2, <1>3
  <2> QED  BY <2>1
<1> QED  BY <1>4

------------------------------------------------------------------------------
(* Sums of functions over finite sets.                                     *)

\* Nothing depends on the element that a fold takes first.
First(s) == CHOOSE x \in s : TRUE

\* g sums f over the subsets of S.
Sums(g, f, S) ==
    g = [s \in SUBSET S |-> IF s = {} THEN 0 ELSE f[First(s)] + g[s \ {First(s)}]]

LEMMA OneLess ==
    ASSUME NEW S, IsFiniteSet(S), NEW s \in SUBSET S, s # {}
    PROVE  /\ First(s) \in s /\ s \ {First(s)} \in SUBSET S
           /\ IsFiniteSet(s) /\ Cardinality(s) \in Nat \ {0}
           /\ Cardinality(s \ {First(s)}) = Cardinality(s) - 1
<1>1. First(s) \in s
  BY DEF First
<1>2. IsFiniteSet(s)
  BY FS_Subset
<1>3. Cardinality(s) \in Nat /\ Cardinality(s) # 0
  BY <1>2, FS_CardinalityType, FS_EmptySet
<1> QED  BY <1>1, <1>2, <1>3, FS_RemoveElement

LEMMA SumsExist ==
    ASSUME NEW S, IsFiniteSet(S), NEW f, \A x \in S : f[x] \in Nat
    PROVE  \E g \in [SUBSET S -> Nat] : Sums(g, f, S)
<1> DEFINE n == Cardinality(S)
           Next(h, s) == IF s = {} THEN 0 ELSE f[First(s)] + h[s \ {First(s)}]
           SumsTo(h, k) == \A s \in SUBSET S : Cardinality(s) <= k => h[s] = Next(h, s)
           Reached == {k \in 0 .. n : \E h \in [SUBSET S -> Nat] : SumsTo(h, k)}
<1>1. n \in Nat /\ \A s \in SUBSET S : IsFiniteSet(s) /\ Cardinality(s) \in 0 .. n
  BY FS_CardinalityType, FS_Subset
<1>2. 0 \in Reached
  <2>1. \A s \in SUBSET S : Cardinality(s) <= 0 => s = {}
    BY <1>1, FS_EmptySet
  <2>2. SumsTo([s \in SUBSET S |-> 0], 0)
    BY <2>1
  <2>3. [s \in SUBSET S |-> 0] \in [SUBSET S -> Nat]
    OBVIOUS
  <2>4. 0 \in 0 .. n
    BY <1>1
  <2> HIDE DEF SumsTo, n
  <2> QED  BY <2>2, <2>3, <2>4
<1>3. ASSUME NEW k \in 1 .. n, k-1 \in Reached
      PROVE  k \in Reached
  <2>1. PICK h \in [SUBSET S -> Nat] : SumsTo(h, k-1)
    BY <1>3
  <2> DEFINE g == [s \in SUBSET S |-> IF Cardinality(s) <= k-1 THEN h[s] ELSE Next(h, s)]
  <2>2. ASSUME NEW s \in SUBSET S, s # {}
        PROVE  f[First(s)] + h[s \ {First(s)}] \in Nat
    <3>1. First(s) \in S /\ s \ {First(s)} \in SUBSET S
      BY <2>2, OneLess
    <3>2. f[First(s)] \in Nat /\ h[s \ {First(s)}] \in Nat
      BY <3>1
    <3> QED  BY <3>2
  <2>3. g \in [SUBSET S -> Nat]
    BY <2>2
  <2>4. ASSUME NEW s \in SUBSET S, Cardinality(s) <= k
        PROVE  g[s] = Next(g, s)
    <3>1. CASE s = {}
      <4>1. Cardinality(s) <= k-1
        BY <3>1, FS_EmptySet
      <4> QED  BY <3>1, <4>1, <2>1
    <3>2. CASE s # {}
      <4> DEFINE t == s \ {First(s)}
      <4>1. t \in SUBSET S /\ Cardinality(s) \in Nat /\ Cardinality(t) = Cardinality(s) - 1
        BY <3>2, OneLess
      <4>2. Cardinality(t) <= k-1
        BY <4>1, <2>4
      <4>3. g[t] = h[t]
        BY <4>1, <4>2
      <4>4. g[s] = Next(h, s)
        BY <2>1
      <4> QED  BY <3>2, <4>3, <4>4
    <3> QED  BY <3>1, <3>2
  <2> HIDE DEF g, Next
  <2> QED  BY <2>3, <2>4
<1>4. n \in Reached
  <2> HIDE DEF Reached, n
  <2> QED  BY <1>1, <1>2, <1>3, LoopInduction
<1>5. PICK g \in [SUBSET S -> Nat] : SumsTo(g, n)
  BY <1>4
<1>6. \A s \in SUBSET S : g[s] = Next(g, s)
  BY <1>1, <1>5
<1>7. Sums(g, f, S)
  BY <1>6 DEF Sums
<1> QED  BY <1>7

(***************************************************************************)
(* What sums f over the subsets of S is its sum over each of them.         *)
(***************************************************************************)
LEMMA SumIs ==
    ASSUME NEW S, IsFiniteSet(S), NEW f, \A x \in S : f[x] \in Nat,
           NEW g, Sums(g, f, S), NEW T \in SUBSET S
    PROVE  SumFunctionOnSet(f, T) = g[T]
<1> DEFINE h == CHOOSE h : Sums(h, f, T)
           n == Cardinality(T)
           Same == {k \in 0 .. n : \A s \in SUBSET T : Cardinality(s) <= k => h[s] = g[s]}
<1>1. IsFiniteSet(T) /\ n \in Nat
      /\ \A s \in SUBSET T : IsFiniteSet(s) /\ Cardinality(s) \in 0 .. n
  BY FS_CardinalityType, FS_Subset
<1>2. SumFunctionOnSet(f, T) = h[T]
  BY DEF SumFunctionOnSet, FoldFunctionOnSet, MapThenFoldSet, Sums, First
<1>3. Sums(h, f, T)
  <2>1. \E i : Sums(i, f, T)
    BY <1>1, SumsExist
  <2> QED  BY <2>1
<1>4. \A s \in SUBSET T : /\ h[s] = IF s = {} THEN 0 ELSE f[First(s)] + h[s \ {First(s)}]
                          /\ g[s] = IF s = {} THEN 0 ELSE f[First(s)] + g[s \ {First(s)}]
  BY <1>3 DEF Sums
<1> HIDE DEF h
<1>5. 0 \in Same
  <2>1. \A s \in SUBSET T : Cardinality(s) <= 0 => s = {}
    BY <1>1, FS_EmptySet
  <2> QED  BY <2>1, <1>1, <1>4
<1>6. ASSUME NEW k \in 1 .. n, k-1 \in Same
      PROVE  k \in Same
  <2>1. ASSUME NEW s \in SUBSET T, Cardinality(s) <= k
        PROVE  h[s] = g[s]
    <3>1. CASE s = {}
      BY <3>1, <1>4
    <3>2. CASE s # {}
      <4> DEFINE t == s \ {First(s)}
      <4>1. t \in SUBSET T /\ Cardinality(s) \in Nat /\ Cardinality(t) = Cardinality(s) - 1
        BY <1>1, <3>2, OneLess
      <4>2. Cardinality(t) <= k-1
        BY <4>1, <2>1
      <4>3. h[t] = g[t]
        BY <1>6, <4>1, <4>2
      <4> QED  BY <3>2, <4>3, <1>4
    <3> QED  BY <3>1, <3>2
  <2> QED  BY <2>1
<1>7. n \in Same
  <2> HIDE DEF Same, n
  <2> QED  BY <1>1, <1>5, <1>6, LoopInduction
<1>8. h[T] = g[T]
  BY <1>7, <1>1
<1> QED  BY <1>2, <1>8

(***************************************************************************)
(* One more element adds its value.                                        *)
(***************************************************************************)
LEMMA SumAdds ==
    ASSUME NEW S, IsFiniteSet(S), NEW x, x \notin S, NEW f, \A y \in S \cup {x} : f[y] \in Nat
    PROVE  SumFunctionOnSet(f, S \cup {x}) = f[x] + SumFunctionOnSet(f, S)
<1> DEFINE U == S \cup {x}
           n == Cardinality(S)
<1>1. IsFiniteSet(U) /\ n \in Nat
  BY FS_AddElement, FS_CardinalityType
<1>2. PICK g \in [SUBSET U -> Nat] : Sums(g, f, U)
  BY <1>1, SumsExist
<1>3. \A s \in SUBSET U : g[s] = IF s = {} THEN 0 ELSE f[First(s)] + g[s \ {First(s)}]
  BY <1>2 DEF Sums
<1> DEFINE Adds == {k \in 0 .. n : \A s \in SUBSET U, y \in U :
                       Cardinality(s) <= k /\ y \notin s => g[s \cup {y}] = f[y] + g[s]}
<1>4. ASSUME NEW s \in SUBSET U, NEW y \in U, y \notin s, First(s \cup {y}) = y
      PROVE  g[s \cup {y}] = f[y] + g[s]
  <2>1. s \cup {y} # {} /\ s \cup {y} \in SUBSET U /\ (s \cup {y}) \ {y} = s
    BY <1>4
  <2> QED  BY <2>1, <1>3, <1>4
<1>5. 0 \in Adds
  <2>1. ASSUME NEW s \in SUBSET U, NEW y \in U, Cardinality(s) <= 0, y \notin s
        PROVE  g[s \cup {y}] = f[y] + g[s]
    <3>1. s = {}
      <4> HIDE DEF U
      <4>1. s # {} => Cardinality(s) \in Nat \ {0}
        BY <1>1, OneLess
      <4> QED  BY <4>1, <2>1
    <3>2. First(s \cup {y}) = y
      BY <3>1 DEF First
    <3> QED  BY <2>1, <3>2, <1>4
  <2> QED  BY <2>1, <1>1
<1>6. ASSUME NEW k \in 1 .. n, k-1 \in Adds
      PROVE  k \in Adds
  <2>1. ASSUME NEW s \in SUBSET U, NEW y \in U, Cardinality(s) <= k, y \notin s
        PROVE  g[s \cup {y}] = f[y] + g[s]
    <3> DEFINE t == s \cup {y}
               c == First(t)
               r == s \ {c}
    <3>1. t # {} /\ t \in SUBSET U /\ c \in t
      BY DEF First
    <3>2. g[t] = f[c] + g[t \ {c}]
      BY <3>1, <1>3
    <3>3. CASE c = y
      BY <2>1, <3>3, <1>4
    <3>4. CASE c # y
      <4> HIDE DEF c
      <4>1. c \in s /\ c \in U /\ c \notin r /\ y \notin r /\ r \in SUBSET U
        BY <3>1, <3>4, <2>1
      <4>2. Cardinality(r) <= k-1
        <5>1. IsFiniteSet(s)
          BY <1>1, FS_Subset
        <5>2. Cardinality(s) \in Nat /\ Cardinality(r) = Cardinality(s) - 1
          BY <4>1, <5>1, FS_RemoveElement, FS_CardinalityType
        <5> QED  BY <5>2, <2>1
      <4>3. t \ {c} = r \cup {y} /\ s = r \cup {c}
        BY <4>1, <3>4
      <4>4. g[r \cup {y}] = f[y] + g[r] /\ g[r \cup {c}] = f[c] + g[r]
        BY <4>1, <4>2, <1>6
      <4>5. f[y] \in Nat /\ f[c] \in Nat /\ g[r] \in Nat
        BY <4>1, <1>2
      <4>6. g[t] = f[c] + (f[y] + g[r]) /\ g[s] = f[c] + g[r]
        BY <3>2, <4>3, <4>4
      <4> HIDE DEF t, r
      <4>7. f[c] + (f[y] + g[r]) = f[y] + (f[c] + g[r])
        BY <4>5
      <4>8. g[t] = f[y] + g[s]
        BY <4>6, <4>7
      <4> QED  BY <4>8 DEF t
    <3> QED  BY <3>3, <3>4
  <2> QED  BY <2>1
<1>7. n \in Adds
  <2> HIDE DEF Adds, n
  <2> QED  BY <1>1, <1>5, <1>6, LoopInduction
<1>8. g[U] = f[x] + g[S]
  BY <1>7, <1>1
<1>9. SumFunctionOnSet(f, U) = g[U] /\ SumFunctionOnSet(f, S) = g[S]
  <2>1. U \in SUBSET U /\ S \in SUBSET U /\ \A y \in U : f[y] \in Nat
    OBVIOUS
  <2> HIDE DEF U
  <2> QED  BY <1>1, <1>2, <2>1, SumIs
<1> QED  BY <1>8, <1>9

LEMMA SumFacts ==
    ASSUME NEW S, IsFiniteSet(S), NEW f, \A x \in S : f[x] \in Nat
    PROVE  /\ SumFunctionOnSet(f, S) \in Nat
           /\ S = {} => SumFunctionOnSet(f, S) = 0
<1>1. PICK g \in [SUBSET S -> Nat] : Sums(g, f, S)
  BY SumsExist
<1>2. S \in SUBSET S
  OBVIOUS
<1>3. SumFunctionOnSet(f, S) = g[S]
  BY <1>1, <1>2, SumIs
<1>4. S = {} => g[S] = 0
  BY <1>1 DEF Sums
<1> QED  BY <1>1, <1>2, <1>3, <1>4

(***************************************************************************)
(* Only the values on the set matter.                                      *)
(***************************************************************************)
LEMMA SumSame ==
    ASSUME NEW S, IsFiniteSet(S), NEW f, \A x \in S : f[x] \in Nat,
           NEW h, \A x \in S : h[x] = f[x]
    PROVE  SumFunctionOnSet(h, S) = SumFunctionOnSet(f, S)
<1>1. PICK g \in [SUBSET S -> Nat] : Sums(g, f, S)
  BY SumsExist
<1>2. ASSUME NEW s \in SUBSET S
      PROVE  g[s] = IF s = {} THEN 0 ELSE h[First(s)] + g[s \ {First(s)}]
  <2>1. g[s] = IF s = {} THEN 0 ELSE f[First(s)] + g[s \ {First(s)}]
    BY <1>1 DEF Sums
  <2>2. s # {} => First(s) \in S
    BY OneLess
  <2> QED  BY <2>1, <2>2
<1>3. Sums(g, h, S)
  BY <1>1, <1>2 DEF Sums
<1>4. S \in SUBSET S
  OBVIOUS
<1> QED  BY <1>1, <1>3, <1>4, SumIs

(***************************************************************************)
(* Equal values add up to a multiple.                                      *)
(***************************************************************************)
LEMMA SumOfEqual ==
    ASSUME NEW S, IsFiniteSet(S), NEW a \in Nat, NEW f, \A x \in S : f[x] = a
    PROVE  SumFunctionOnSet(f, S) = a * Cardinality(S)
<1> DEFINE g == [s \in SUBSET S |-> a * Cardinality(s)]
<1>1. ASSUME NEW s \in SUBSET S
      PROVE  g[s] = IF s = {} THEN 0 ELSE f[First(s)] + g[s \ {First(s)}]
  <2>1. CASE s = {}
    <3>1. g[s] = a * Cardinality(s) /\ Cardinality(s) = 0
      BY <2>1, FS_EmptySet
    <3>2. a * 0 = 0
      OBVIOUS
    <3> QED  BY <2>1, <3>1, <3>2
  <2>2. CASE s # {}
    <3>1. /\ First(s) \in S /\ s \ {First(s)} \in SUBSET S
          /\ Cardinality(s) \in Nat \ {0}
          /\ Cardinality(s \ {First(s)}) = Cardinality(s) - 1
      BY <2>2, OneLess
    <3> DEFINE c == Cardinality(s)
    <3>2. g[s] = a * c /\ g[s \ {First(s)}] = a * (c - 1) /\ f[First(s)] = a
      BY <3>1
    <3> HIDE DEF c, g
    <3>3. c \in Nat
      BY <3>1 DEF c
    <3>4. a * c = a + a * (c - 1)
      BY <3>3
    <3> QED  BY <2>2, <3>2, <3>4
  <2> QED  BY <2>1, <2>2
<1>2. Sums(g, f, S)
  <2>1. g = [s \in SUBSET S |-> g[s]]
    OBVIOUS
  <2> HIDE DEF g
  <2> QED  BY <1>1, <2>1 DEF Sums
<1>3. S \in SUBSET S /\ g[S] = a * Cardinality(S) /\ \A x \in S : f[x] \in Nat
  OBVIOUS
<1> HIDE DEF g
<1> QED  BY <1>2, <1>3, SumIs

(***************************************************************************)
(* More elements add up to more.                                           *)
(***************************************************************************)
LEMMA SumGrows ==
    ASSUME NEW S, IsFiniteSet(S), NEW f, \A x \in S : f[x] \in Nat, NEW T \in SUBSET S
    PROVE  SumFunctionOnSet(f, T) <= SumFunctionOnSet(f, S)
<1> DEFINE n == Cardinality(S)
           Grows == {k \in 0 .. n : \A s \in SUBSET S : T \subseteq s /\ Cardinality(s) <= k
                        => SumFunctionOnSet(f, T) <= SumFunctionOnSet(f, s)}
<1>1. n \in Nat /\ \A s \in SUBSET S : IsFiniteSet(s) /\ Cardinality(s) \in Nat
  BY FS_Subset, FS_CardinalityType
<1>2. \A s \in SUBSET S : SumFunctionOnSet(f, s) \in Nat
  BY <1>1, SumFacts
<1>3. ASSUME NEW k \in Nat, NEW s \in SUBSET S, T \subseteq s, Cardinality(s) <= k, s # T,
             \A r \in SUBSET S : T \subseteq r /\ Cardinality(r) <= k - 1
                => SumFunctionOnSet(f, T) <= SumFunctionOnSet(f, r)
      PROVE  SumFunctionOnSet(f, T) <= SumFunctionOnSet(f, s)
  <2>1. PICK x \in s : x \notin T
    BY <1>3
  <2> DEFINE r == s \ {x}
  <2>2. Cardinality(r) = Cardinality(s) - 1 /\ IsFiniteSet(r)
    BY <1>1, <2>1, FS_RemoveElement
  <2>3. r \in SUBSET S /\ T \subseteq r /\ x \notin r /\ s = r \cup {x} /\ x \in S
    BY <1>3, <2>1
  <2> HIDE DEF r
  <2>4. SumFunctionOnSet(f, T) <= SumFunctionOnSet(f, r)
    BY <1>1, <1>3, <2>2, <2>3
  <2>5. SumFunctionOnSet(f, s) = f[x] + SumFunctionOnSet(f, r)
    <3>1. \A y \in r \cup {x} : f[y] \in Nat
      BY <2>3
    <3> QED  BY <2>2, <2>3, <3>1, SumAdds
  <2>6. f[x] \in Nat
    BY <2>3
  <2> QED  BY <1>2, <2>3, <2>4, <2>5, <2>6
<1>4. 0 \in Grows
  <2>1. ASSUME NEW s \in SUBSET S, T \subseteq s, Cardinality(s) <= 0
        PROVE  SumFunctionOnSet(f, T) <= SumFunctionOnSet(f, s)
    <3>1. s = {}
      BY <1>1, <2>1, FS_EmptySet
    <3>2. T = s
      BY <2>1, <3>1
    <3> QED  BY <1>2, <3>2
  <2> QED  BY <2>1, <1>1
<1>5. ASSUME NEW k \in 1 .. n, k-1 \in Grows
      PROVE  k \in Grows
  <2>1. ASSUME NEW s \in SUBSET S, T \subseteq s, Cardinality(s) <= k
        PROVE  SumFunctionOnSet(f, T) <= SumFunctionOnSet(f, s)
    <3>1. CASE s = T
      BY <1>2, <3>1
    <3>2. CASE s # T
      BY <1>3, <1>5, <2>1, <3>2
    <3> QED  BY <3>1, <3>2
  <2> QED  BY <2>1
<1>6. n \in Grows
  <2> HIDE DEF Grows, n
  <2> QED  BY <1>1, <1>4, <1>5, LoopInduction
<1> QED  BY <1>6, <1>1

==============================================================================
