----------------------------- MODULE SumLemmas -----------------------------
(***************************************************************************)
(* What adding an element to a set, or changing a value, does to the sum of*)
(* a function's values over the set.                                       *)
(***************************************************************************)
EXTENDS Integers, FiniteSets, Functions, FiniteSetTheorems, WellFoundedInduction, TLAPS

\* The recursion that SumFunctionOnSet stands for, on the subsets of S.
Sums(f, S, g) ==
  g = [s \in SUBSET S |-> IF s = {} THEN 0
                          ELSE f[CHOOSE x \in s : TRUE] + g[s \ {CHOOSE x \in s : TRUE}]]

LEMMA SumIsRecursive ==
  ASSUME NEW f, NEW S
  PROVE  SumFunctionOnSet(f, S) = (CHOOSE g : Sums(f, S, g))[S]
BY DEF SumFunctionOnSet, FoldFunctionOnSet, MapThenFoldSet, Sums

Pick(s) == CHOOSE x \in s : TRUE

\* Of some subsets of a finite set, one has none of the others below it.
LEMMA MinimalSet ==
  ASSUME NEW S, IsFiniteSet(S), NEW B \in SUBSET (SUBSET S), B # {}
  PROVE  \E T \in B : \A U \in SUBSET T : U # T => U \notin B
<1>1. IsWellFoundedOn(StrictSubsetOrdering(S), FiniteSubsetsOf(S))
  BY FS_StrictSubsetOrderingWellFounded
<1>2. B \subseteq FiniteSubsetsOf(S)
  BY FS_FiniteSubsetsOfFinite
<1>3. PICK T \in B : \A U \in B : ~ (<<U, T>> \in StrictSubsetOrdering(S))
  BY <1>1, <1>2, WFMin
<1>4. ASSUME NEW U \in SUBSET T, U # T, U \in B
      PROVE  FALSE
  <2>1. <<U, T>> \in StrictSubsetOrdering(S)
    BY <1>4 DEF StrictSubsetOrdering
  <2> QED
    BY <1>3, <1>4, <2>1
<1> QED
  BY <1>4

\* Of some numbers, one is the smallest.
LEMMA SmallestNumber ==
  ASSUME NEW B \in SUBSET Nat, B # {}
  PROVE  \E m \in B : \A k \in B : m <= k
<1> PICK n \in B : TRUE
  OBVIOUS
<1> DEFINE S == 0..n
           C == {T \in SUBSET S : \E i \in B : i <= n /\ T = 0..i}
<1>1. IsFiniteSet(S)
  BY FS_Interval
<1>2. C \in SUBSET (SUBSET S) /\ 0..n \in C
  OBVIOUS
<1>3. PICK T \in C : \A U \in SUBSET T : U # T => U \notin C
  <2>1. C # {}
    BY <1>2
  <2> HIDE DEF C, S
  <2> QED
    BY <1>1, <1>2, <2>1, MinimalSet
<1>4. PICK m \in B : m <= n /\ T = 0..m
  OBVIOUS
<1>5. ASSUME NEW k \in B, ~ (m <= k)
      PROVE  FALSE
  <2>1. k \in Nat /\ m \in Nat /\ n \in Nat /\ k < m /\ k <= n
    BY <1>4, <1>5
  <2>2. 0..k \in SUBSET T /\ 0..k # T
    <3>1. m \in T /\ m \notin 0..k /\ 0..k \subseteq 0..m
      BY <1>4, <2>1
    <3> QED
      BY <1>4, <3>1
  <2>3. 0..k \in C
    BY <2>1
  <2> QED
    BY <1>3, <2>2, <2>3
<1> QED
  BY <1>4, <1>5

\* What the recursion says of the empty set and of another.
LEMMA SumsEmpty ==
  ASSUME NEW f, NEW S, NEW g, Sums(f, S, g)
  PROVE  g[{}] = 0
BY DEF Sums

LEMMA SumsSplit ==
  ASSUME NEW f, NEW S, NEW g, Sums(f, S, g), NEW s \in SUBSET S, s # {}
  PROVE  /\ Pick(s) \in s /\ s \ {Pick(s)} \in SUBSET S
         /\ g[s] = f[Pick(s)] + g[s \ {Pick(s)}]
<1>1. g = [r \in SUBSET S |-> IF r = {} THEN 0 ELSE f[Pick(r)] + g[r \ {Pick(r)}]]
  BY DEF Sums, Pick
<1>2. Pick(s) \in s
  BY DEF Pick
<1> HIDE DEF Pick
<1> QED
  BY <1>1, <1>2

\* The recursion has one solution at most, whichever set it starts from.
LEMMA SumsUnique ==
  ASSUME NEW f, NEW S, IsFiniteSet(S), NEW T \in SUBSET S, NEW g, Sums(f, S, g), NEW h, Sums(f, T, h)
  PROVE  \A s \in SUBSET T : g[s] = h[s]
<1> DEFINE B == {s \in SUBSET T : g[s] # h[s]}
<1> SUFFICES ASSUME B # {}
             PROVE  FALSE
  OBVIOUS
<1>1. IsFiniteSet(T)
  BY FS_Subset
<1>2. PICK s \in B : \A u \in SUBSET s : u # s => u \notin B
  <2>1. B \in SUBSET (SUBSET T)
    OBVIOUS
  <2> HIDE DEF B
  <2> QED
    BY <1>1, <2>1, MinimalSet
<1>3. s # {} /\ s \in SUBSET S /\ s \in SUBSET T
  <2>1. g[{}] = 0 /\ h[{}] = 0
    BY SumsEmpty
  <2> QED
    BY <1>2, <2>1
<1>4. Pick(s) \in s
  BY <1>3, SumsSplit
<1>5. g[s \ {Pick(s)}] = h[s \ {Pick(s)}]
  BY <1>2, <1>3, <1>4
<1>a. s # {}
  BY <1>3
<1>b. s \in SUBSET S
  BY <1>3
<1>c. s \in SUBSET T
  BY <1>3
<1>6. g[s] = f[Pick(s)] + g[s \ {Pick(s)}]
  <2> HIDE DEF B
  <2> QED
    BY <1>a, <1>b, SumsSplit
<1>7. h[s] = f[Pick(s)] + h[s \ {Pick(s)}]
  <2> HIDE DEF B
  <2> QED
    BY <1>a, <1>c, SumsSplit
<1> QED
  BY <1>2, <1>5, <1>6, <1>7

\* It has one on a finite set.
LEMMA SumsExist ==
  ASSUME NEW f, NEW S, IsFiniteSet(S)
  PROVE  \E g : Sums(f, S, g)
<1> DEFINE Solved(T) == \E g : Sums(f, T, g)
           B == {T \in SUBSET S : ~ Solved(T)}
<1> SUFFICES ASSUME B # {}
             PROVE  FALSE
  OBVIOUS
<1> HIDE DEF Solved
<1>1. PICK T \in B : \A U \in SUBSET T : U # T => U \notin B
  <2>1. B \in SUBSET (SUBSET S)
    OBVIOUS
  <2> HIDE DEF B
  <2> QED
    BY <2>1, MinimalSet
<1>2. \A U \in SUBSET T : U # T => Solved(U)
  BY <1>1
<1> DEFINE G(u) == (CHOOSE g : Sums(f, u, g))
           h == [s \in SUBSET T |-> IF s = {} THEN 0 ELSE f[Pick(s)] + G(s \ {Pick(s)})[s \ {Pick(s)}]]
<1>3. \A U \in SUBSET T : U # T => Sums(f, U, G(U))
  BY <1>2 DEF Solved
<1>4. ASSUME NEW u \in SUBSET T, u # T
      PROVE  h[u] = G(u)[u]
  <2>1. Sums(f, u, G(u)) /\ IsFiniteSet(u)
    BY <1>3, <1>4, <1>1, FS_Subset
  <2>2. CASE u = {}
    BY <2>1, <2>2, SumsEmpty
  <2>3. CASE u # {}
    <3> DEFINE v == u \ {Pick(u)}
    <3>1. Pick(u) \in u /\ G(u)[u] = f[Pick(u)] + G(u)[v]
      <4>1. u \in SUBSET u
        OBVIOUS
      <4> HIDE DEF G
      <4> QED
        BY <2>1, <2>3, <4>1, SumsSplit
    <3>2. v \in SUBSET u /\ v \in SUBSET T /\ v # T
      BY <1>4, <3>1
    <3>3. Sums(f, v, G(v)) /\ v \in SUBSET v
      BY <1>3, <3>2
    <3>4. G(u)[v] = G(v)[v]
      <4>1. v \in SUBSET u /\ Sums(f, u, G(u)) /\ IsFiniteSet(u) /\ Sums(f, v, G(v))
        BY <2>1, <3>2, <3>3
      <4> HIDE DEF G, v
      <4>2. \A w \in SUBSET v : G(u)[w] = G(v)[w]
        BY <4>1, SumsUnique
      <4> QED
        BY <4>2
    <3>5. h[u] = f[Pick(u)] + G(v)[v]
      BY <2>3
    <3> QED
      BY <3>1, <3>4, <3>5
  <2> QED
    BY <2>2, <2>3
<1>5. ASSUME NEW s \in SUBSET T, s # {}
      PROVE  h[s \ {Pick(s)}] = G(s \ {Pick(s)})[s \ {Pick(s)}]
  <2>1. Pick(s) \in s
    BY <1>5 DEF Pick
  <2>2. s \ {Pick(s)} \in SUBSET T /\ s \ {Pick(s)} # T
    BY <2>1
  <2> QED
    BY <1>4, <2>2
<1>6. Sums(f, T, h)
  <2>1. \A s \in SUBSET T : h[s] = IF s = {} THEN 0 ELSE f[Pick(s)] + h[s \ {Pick(s)}]
    <3>1. \A s \in SUBSET T : h[s] = IF s = {} THEN 0 ELSE f[Pick(s)] + G(s \ {Pick(s)})[s \ {Pick(s)}]
      OBVIOUS
    <3> HIDE DEF h, G
    <3> QED
      BY <1>5, <3>1
  <2>2. h = [s \in SUBSET T |-> h[s]]
    OBVIOUS
  <2> HIDE DEF h
  <2>3. h = [s \in SUBSET T |-> IF s = {} THEN 0 ELSE f[Pick(s)] + h[s \ {Pick(s)}]]
    BY <2>1, <2>2
  <2> QED
    BY <2>3 DEF Sums, Pick
<1> QED
  BY <1>1, <1>6 DEF Solved

-----------------------------------------------------------------------------
(* The sums.                                                               *)

LEMMA SumIs ==
  ASSUME NEW f, NEW S, IsFiniteSet(S), NEW g, Sums(f, S, g), NEW T \in SUBSET S
  PROVE  SumFunctionOnSet(f, T) = g[T]
<1>1. PICK h : Sums(f, T, h) /\ SumFunctionOnSet(f, T) = h[T]
  <2>1. IsFiniteSet(T)
    BY FS_Subset
  <2>2. \E h : Sums(f, T, h)
    BY <2>1, SumsExist
  <2> QED
    BY <2>2, SumIsRecursive
<1>2. IsFiniteSet(S) /\ T \in SUBSET S /\ Sums(f, S, g) /\ Sums(f, T, h)
  BY <1>1
<1>3. \A s \in SUBSET T : g[s] = h[s]
  BY <1>2, SumsUnique, Z3
<1>4. T \in SUBSET T
  OBVIOUS
<1> QED
  BY <1>1, <1>3, <1>4

LEMMA SumOfEmpty ==
  ASSUME NEW f
  PROVE  SumFunctionOnSet(f, {}) = 0
<1>1. IsFiniteSet({})
  BY FS_EmptySet
<1>2. PICK g : Sums(f, {}, g)
  BY <1>1, SumsExist
<1>3. SumFunctionOnSet(f, {}) = g[{}]
  BY <1>1, <1>2, SumIs
<1> QED
  BY <1>2, <1>3, SumsEmpty

LEMMA SumStep ==
  ASSUME NEW f, NEW S, IsFiniteSet(S), S # {}
  PROVE  /\ Pick(S) \in S
         /\ SumFunctionOnSet(f, S) = f[Pick(S)] + SumFunctionOnSet(f, S \ {Pick(S)})
<1>1. PICK g : Sums(f, S, g)
  BY SumsExist
<1>2. S \in SUBSET S /\ S \ {Pick(S)} \in SUBSET S
  OBVIOUS
<1>3. SumFunctionOnSet(f, S) = g[S]
  BY <1>1, <1>2, SumIs
<1>4. SumFunctionOnSet(f, S \ {Pick(S)}) = g[S \ {Pick(S)}]
  BY <1>1, <1>2, SumIs
<1> QED
  BY <1>1, <1>2, <1>3, <1>4, SumsSplit

\* The sum of integers is one.
LEMMA SumInt ==
  ASSUME NEW D, NEW f \in [D -> Int], NEW S \in SUBSET D, IsFiniteSet(S)
  PROVE  SumFunctionOnSet(f, S) \in Int
<1> DEFINE B == {T \in SUBSET S : SumFunctionOnSet(f, T) \notin Int}
<1> SUFFICES ASSUME B # {}
             PROVE  FALSE
  OBVIOUS
<1>1. PICK T \in B : \A U \in SUBSET T : U # T => U \notin B
  <2>1. B \in SUBSET (SUBSET S)
    OBVIOUS
  <2> HIDE DEF B
  <2> QED
    BY <2>1, MinimalSet
<1>2. IsFiniteSet(T) /\ T \in SUBSET S
  BY FS_Subset
<1>3. CASE T = {}
  BY <1>3, SumOfEmpty
<1>4. CASE T # {}
  <2>1. Pick(T) \in T /\ SumFunctionOnSet(f, T) = f[Pick(T)] + SumFunctionOnSet(f, T \ {Pick(T)})
    <3> HIDE DEF B
    <3> QED
      BY <1>2, <1>4, SumStep
  <2>2. SumFunctionOnSet(f, T \ {Pick(T)}) \in Int
    BY <1>1, <1>2, <2>1
  <2>3. f[Pick(T)] \in Int
    BY <1>2, <2>1
  <2> QED
    BY <2>1, <2>2, <2>3
<1> QED
  BY <1>3, <1>4

\* Any element can be taken out first.
LEMMA SumRemove ==
  ASSUME NEW D, NEW f \in [D -> Int], NEW S \in SUBSET D, IsFiniteSet(S), NEW x \in S
  PROVE  SumFunctionOnSet(f, S) = f[x] + SumFunctionOnSet(f, S \ {x})
<1> DEFINE Out(T, y) == SumFunctionOnSet(f, T) = f[y] + SumFunctionOnSet(f, T \ {y})
           B == {T \in SUBSET S : \E y \in T : ~ Out(T, y)}
<1> SUFFICES ASSUME B # {}
             PROVE  FALSE
  OBVIOUS
<1>1. PICK T \in B : \A U \in SUBSET T : U # T => U \notin B
  <2>1. B \in SUBSET (SUBSET S)
    OBVIOUS
  <2> HIDE DEF B
  <2> QED
    BY <2>1, MinimalSet
<1>2. PICK y \in T : ~ Out(T, y)
  BY <1>1
<1> DEFINE p == Pick(T)
<1>3. IsFiniteSet(T) /\ T \in SUBSET S
  BY FS_Subset
<1>4. p \in T /\ Out(T, p)
  BY <1>2, <1>3, SumStep
<1>5. y # p
  BY <1>2, <1>4
<1>6. Out(T \ {p}, y) /\ Out(T \ {y}, p)
  <2>1. \A U \in SUBSET T : U # T => \A z \in U : Out(U, z)
    BY <1>1, <1>3
  <2> HIDE DEF Out, p
  <2> QED
    BY <2>1, <1>2, <1>4, <1>5
<1>7. (T \ {p}) \ {y} = (T \ {y}) \ {p}
  OBVIOUS
<1>8. /\ f[p] \in Int /\ f[y] \in Int
      /\ SumFunctionOnSet(f, (T \ {y}) \ {p}) \in Int
  <2>1. IsFiniteSet((T \ {y}) \ {p}) /\ (T \ {y}) \ {p} \in SUBSET D
    BY <1>3, FS_Subset
  <2> HIDE DEF p
  <2>2. SumFunctionOnSet(f, (T \ {y}) \ {p}) \in Int
    BY <2>1, SumInt
  <2> QED
    BY <1>2, <1>3, <1>4, <2>2
<1>9. /\ SumFunctionOnSet(f, T) = f[p] + (f[y] + SumFunctionOnSet(f, (T \ {y}) \ {p}))
      /\ SumFunctionOnSet(f, T \ {y}) = f[p] + SumFunctionOnSet(f, (T \ {y}) \ {p})
  BY <1>4, <1>6, <1>7
<1> HIDE DEF p, B
<1> QED
  BY <1>2, <1>8, <1>9

\* Adding an element adds its value.
LEMMA SumAdd ==
  ASSUME NEW D, NEW f \in [D -> Int], NEW S \in SUBSET D, IsFiniteSet(S), NEW x \in D, x \notin S
  PROVE  SumFunctionOnSet(f, S \cup {x}) = f[x] + SumFunctionOnSet(f, S)
<1>1. IsFiniteSet(S \cup {x}) /\ S \cup {x} \in SUBSET D /\ x \in S \cup {x}
  BY FS_AddElement
<1>2. (S \cup {x}) \ {x} = S
  OBVIOUS
<1> QED
  BY <1>1, <1>2, SumRemove

\* The sum depends on the values over the set alone.
LEMMA SumSame ==
  ASSUME NEW f, NEW g, NEW S, IsFiniteSet(S), \A y \in S : f[y] = g[y]
  PROVE  SumFunctionOnSet(f, S) = SumFunctionOnSet(g, S)
<1> DEFINE B == {T \in SUBSET S : SumFunctionOnSet(f, T) # SumFunctionOnSet(g, T)}
<1> SUFFICES ASSUME B # {}
             PROVE  FALSE
  OBVIOUS
<1>1. PICK T \in B : \A U \in SUBSET T : U # T => U \notin B
  <2>1. B \in SUBSET (SUBSET S)
    OBVIOUS
  <2> HIDE DEF B
  <2> QED
    BY <2>1, MinimalSet
<1>2. IsFiniteSet(T) /\ T \in SUBSET S
  BY FS_Subset
<1>3. CASE T = {}
  BY <1>3, SumOfEmpty
<1>4. CASE T # {}
  <2>1. Pick(T) \in T /\ SumFunctionOnSet(f, T) = f[Pick(T)] + SumFunctionOnSet(f, T \ {Pick(T)})
    <3> HIDE DEF B
    <3> QED
      BY <1>2, <1>4, SumStep
  <2>2. SumFunctionOnSet(g, T) = g[Pick(T)] + SumFunctionOnSet(g, T \ {Pick(T)})
    <3> HIDE DEF B
    <3> QED
      BY <1>2, <1>4, SumStep
  <2>3. SumFunctionOnSet(f, T \ {Pick(T)}) = SumFunctionOnSet(g, T \ {Pick(T)})
    BY <1>1, <1>2, <2>1
  <2>4. f[Pick(T)] = g[Pick(T)]
    BY <1>2, <2>1
  <2> QED
    BY <2>1, <2>2, <2>3, <2>4
<1> QED
  BY <1>3, <1>4

\* Where one value changes, the sum changes by the difference.
LEMMA SumChange ==
  ASSUME NEW D, NEW f \in [D -> Int], NEW g \in [D -> Int], NEW S \in SUBSET D, IsFiniteSet(S),
         NEW x \in S, \A y \in S \ {x} : f[y] = g[y]
  PROVE  SumFunctionOnSet(g, S) = SumFunctionOnSet(f, S) - f[x] + g[x]
<1>1. IsFiniteSet(S \ {x}) /\ S \ {x} \in SUBSET D
  BY FS_Subset
<1>2. SumFunctionOnSet(f, S) = f[x] + SumFunctionOnSet(f, S \ {x})
  BY SumRemove
<1>3. SumFunctionOnSet(g, S) = g[x] + SumFunctionOnSet(g, S \ {x})
  BY SumRemove
<1>4. SumFunctionOnSet(f, S \ {x}) = SumFunctionOnSet(g, S \ {x})
  BY <1>1, SumSame
<1>5. SumFunctionOnSet(f, S \ {x}) \in Int
  BY <1>1, SumInt
<1>6. f[x] \in Int /\ g[x] \in Int
  OBVIOUS
<1> QED
  BY <1>2, <1>3, <1>4, <1>5, <1>6

\* Zeros add up to zero.
LEMMA SumOfZeros ==
  ASSUME NEW D, IsFiniteSet(D), NEW f, \A x \in D : f[x] = 0
  PROVE  SumFunctionOnSet(f, D) = 0
<1> DEFINE B == {T \in SUBSET D : SumFunctionOnSet(f, T) # 0}
<1> SUFFICES ASSUME B # {}
             PROVE  FALSE
  OBVIOUS
<1>1. PICK T \in B : \A U \in SUBSET T : U # T => U \notin B
  <2>1. B \in SUBSET (SUBSET D)
    OBVIOUS
  <2> HIDE DEF B
  <2> QED
    BY <2>1, MinimalSet
<1>2. T # {}
  BY <1>1, SumOfEmpty
<1>3. IsFiniteSet(T) /\ T \in SUBSET D
  BY FS_Subset
<1>4. Pick(T) \in T /\ SumFunctionOnSet(f, T) = f[Pick(T)] + SumFunctionOnSet(f, T \ {Pick(T)})
  <2> HIDE DEF B
  <2> QED
    BY <1>2, <1>3, SumStep
<1>5. SumFunctionOnSet(f, T \ {Pick(T)}) = 0 /\ f[Pick(T)] = 0
  BY <1>1, <1>3, <1>4
<1> QED
  BY <1>4, <1>5

\* The sum of values that are not negative is not negative, and not less over
\* a larger set.
LEMMA SumNat ==
  ASSUME NEW D, NEW f \in [D -> Nat], NEW S \in SUBSET D, IsFiniteSet(S)
  PROVE  SumFunctionOnSet(f, S) \in Nat
<1> DEFINE B == {T \in SUBSET S : SumFunctionOnSet(f, T) \notin Nat}
<1> SUFFICES ASSUME B # {}
             PROVE  FALSE
  OBVIOUS
<1>1. PICK T \in B : \A U \in SUBSET T : U # T => U \notin B
  <2>1. B \in SUBSET (SUBSET S)
    OBVIOUS
  <2> HIDE DEF B
  <2> QED
    BY <2>1, MinimalSet
<1>2. IsFiniteSet(T)
  BY FS_Subset
<1>3. T # {}
  BY SumOfEmpty
<1>4. Pick(T) \in T /\ SumFunctionOnSet(f, T) = f[Pick(T)] + SumFunctionOnSet(f, T \ {Pick(T)})
  <2> HIDE DEF B
  <2> QED
    BY <1>2, <1>3, SumStep
<1>5. SumFunctionOnSet(f, T \ {Pick(T)}) \in Nat
  BY <1>1, <1>4
<1>6. f[Pick(T)] \in Nat
  BY <1>4
<1> QED
  BY <1>4, <1>5, <1>6

LEMMA SumWithin ==
  ASSUME NEW D, NEW f \in [D -> Nat], NEW S \in SUBSET D, IsFiniteSet(S), NEW R \in SUBSET S
  PROVE  SumFunctionOnSet(f, R) <= SumFunctionOnSet(f, S)
<1> DEFINE Below(T) == SumFunctionOnSet(f, R \cap T) <= SumFunctionOnSet(f, T)
           B == {T \in SUBSET S : ~ Below(T)}
<1> SUFFICES ASSUME B # {}
             PROVE  FALSE
  <2>1. S \notin B => Below(S)
    OBVIOUS
  <2>2. R \cap S = R
    OBVIOUS
  <2> QED
    BY <2>1, <2>2
<1>1. PICK T \in B : \A U \in SUBSET T : U # T => U \notin B
  <2>1. B \in SUBSET (SUBSET S)
    OBVIOUS
  <2> HIDE DEF B
  <2> QED
    BY <2>1, MinimalSet
<1>2. IsFiniteSet(T) /\ T \in SUBSET D
  BY FS_Subset
<1>3. T # {}
  <2>1. T = {} => R \cap T = {}
    OBVIOUS
  <2> QED
    BY <2>1, SumOfEmpty
<1>4. PICK x \in T : TRUE
  BY <1>3
<1> DEFINE U == T \ {x}
<1>5. IsFiniteSet(U) /\ IsFiniteSet(R \cap T) /\ IsFiniteSet(R \cap U)
  BY <1>2, FS_Subset, FS_Intersection
<1>6. f \in [D -> Int]
  OBVIOUS
<1>7. SumFunctionOnSet(f, T) = f[x] + SumFunctionOnSet(f, U)
  <2> HIDE DEF B
  <2> QED
    BY <1>2, <1>6, SumRemove
<1>8. Below(U)
  BY <1>1, <1>4
<1>9. /\ f[x] \in Nat /\ SumFunctionOnSet(f, U) \in Nat
      /\ SumFunctionOnSet(f, R \cap U) \in Nat
  <2>1. U \in SUBSET D /\ R \cap U \in SUBSET D /\ x \in D
    BY <1>2, <1>4
  <2> QED
    BY <1>5, <2>1, SumNat
<1>10. CASE x \in R
  <2>1. x \in R \cap T /\ (R \cap T) \ {x} = R \cap U /\ R \cap T \in SUBSET D
    BY <1>2, <1>4, <1>10
  <2> HIDE DEF U, B
  <2>2. SumFunctionOnSet(f, R \cap T) = f[x] + SumFunctionOnSet(f, R \cap U)
    BY <1>5, <1>6, <2>1, SumRemove
  <2>3. Below(T)
    BY <1>7, <1>8, <1>9, <2>2
  <2> QED
    BY <1>1, <2>3 DEF B
<1>11. CASE x \notin R
  <2>1. R \cap T = R \cap U
    BY <1>11
  <2> HIDE DEF U, B
  <2>2. SumFunctionOnSet(f, R \cap T) <= SumFunctionOnSet(f, U)
    BY <1>8, <2>1
  <2>3. SumFunctionOnSet(f, R \cap T) \in Nat
    BY <1>9, <2>1
  <2>4. Below(T)
    BY <1>7, <1>9, <2>2, <2>3
  <2> QED
    BY <1>1, <2>4 DEF B
<1> QED
  BY <1>10, <1>11

\* A sum over the images of a set's elements, each of one element, is a sum
\* over the set.
LEMMA SumOfImages ==
  ASSUME NEW S, IsFiniteSet(S), NEW r, \A x, y \in S : r[x] = r[y] => x = y,
         NEW E, \A x \in S : r[x] \in E, NEW h \in [E -> Int],
         NEW g \in [S -> Int], \A x \in S : g[x] = h[r[x]]
  PROVE  SumFunctionOnSet(h, {r[x] : x \in S}) = SumFunctionOnSet(g, S)
<1> DEFINE Im(T) == {r[x] : x \in T}
           Same(T) == IsFiniteSet(Im(T)) /\ SumFunctionOnSet(h, Im(T)) = SumFunctionOnSet(g, T)
           B == {T \in SUBSET S : ~ Same(T)}
<1> SUFFICES ASSUME B # {}
             PROVE  FALSE
  OBVIOUS
<1>1. PICK T \in B : \A U \in SUBSET T : U # T => U \notin B
  <2>1. B \in SUBSET (SUBSET S)
    OBVIOUS
  <2> HIDE DEF B
  <2> QED
    BY <2>1, MinimalSet
<1>2. IsFiniteSet(T) /\ T \in SUBSET S
  BY FS_Subset
<1>3. T # {}
  <2>1. T = {} => Im(T) = {}
    OBVIOUS
  <2> QED
    BY <2>1, SumOfEmpty, FS_EmptySet
<1>4. PICK x \in T : TRUE
  BY <1>3
<1> DEFINE U == T \ {x}
<1>5. Im(T) \ {r[x]} = Im(U) /\ r[x] \in Im(T) /\ Im(T) \in SUBSET E
  BY <1>2, <1>4
<1>6. IsFiniteSet(Im(U)) /\ SumFunctionOnSet(h, Im(U)) = SumFunctionOnSet(g, U)
  <2>1. Same(U)
    BY <1>1, <1>4
  <2> QED
    BY <2>1
<1>7. IsFiniteSet(Im(T))
  <2>1. Im(T) = Im(U) \cup {r[x]}
    BY <1>5
  <2> HIDE DEF Im, U
  <2> QED
    BY <1>6, <2>1, FS_AddElement
<1>8. SumFunctionOnSet(g, T) = g[x] + SumFunctionOnSet(g, U)
  <2> HIDE DEF B
  <2> QED
    BY <1>2, <1>4, SumRemove
<1>9. SumFunctionOnSet(h, Im(T)) = h[r[x]] + SumFunctionOnSet(h, Im(T) \ {r[x]})
  <2> HIDE DEF B, Im
  <2> QED
    BY <1>5, <1>7, SumRemove
<1>10. g[x] = h[r[x]]
  BY <1>2, <1>4
<1>11. Same(T)
  <2> HIDE DEF B, Im, U
  <2> QED
    BY <1>5, <1>6, <1>7, <1>8, <1>9, <1>10
<1> QED
  BY <1>1, <1>11
=============================================================================
