----------------------------- MODULE SumTheorems -----------------------------
(***************************************************************************)
(* What proofs need to know of SumFunction, the sum of the values of a     *)
(* function with a finite domain (Functions.tla): balances over users,     *)
(* reserved amounts over orders, values over messages.                     *)
(*                                                                         *)
(* SumFunction is a fold: MapThenFoldSet chooses a function on the subsets *)
(* of the domain that satisfies the recursion.  To the provers the choice  *)
(* is opaque until such a function is shown to exist and to be determined  *)
(* on every finite set.  Induction is by a smallest counterexample: among  *)
(* the subsets of a finite set that refute a claim one has no smaller one  *)
(* inside it, so the claim can be used for all its proper subsets.         *)
(***************************************************************************)
EXTENDS FiniteSetTheorems, TLAPS

\* Among subsets of a finite set, one contains none of the others.
LEMMA SmallestSubset ==
  ASSUME NEW S, IsFiniteSet(S), NEW F, F \subseteq SUBSET S, F # {}
  PROVE  \E T \in F : \A U \in F : U \subseteq T => U = T
<1>1. F \subseteq FiniteSubsetsOf(S)
  BY FS_FiniteSubsetsOfFinite
<1>2. IsWellFoundedOn(StrictSubsetOrdering(S), FiniteSubsetsOf(S))
  BY FS_StrictSubsetOrderingWellFounded
<1>3. \E T \in F : \A U \in F : <<U, T>> \notin StrictSubsetOrdering(S)
  BY <1>1, <1>2, WFMin, Zenon
<1> QED
  BY <1>3 DEF StrictSubsetOrdering

\* The recursion of the fold: the sum over s from the sums g over smaller sets.
SumBody(w, g, s) ==
  IF s = {} THEN 0
  ELSE w[CHOOSE x \in s : TRUE] + g[s \ {CHOOSE x \in s : TRUE}]

\* g gives the sum of w over each subset of S.
IsSumOn(w, S, g) == g = [s \in SUBSET S |-> SumBody(w, g, s)]

\* Which element the recursion takes from s does not depend on g.
LEMMA SumBodyOf ==
  ASSUME NEW w, NEW s, s # {}
  PROVE  \E x \in s : \A g : SumBody(w, g, s) = w[x] + g[s \ {x}]
BY DEF SumBody

\* The recursion determines the sums, whatever larger set they are part of.
LEMMA SumsAgree ==
  ASSUME NEW w, NEW S, NEW T, IsFiniteSet(S), NEW g, NEW h,
         IsSumOn(w, S, g), IsSumOn(w, T, h), T \subseteq S
  PROVE  \A s \in SUBSET T : g[s] = h[s]
<1> DEFINE F == {s \in SUBSET T : g[s] # h[s]}
<1> SUFFICES ASSUME F # {} PROVE FALSE
  OBVIOUS
<1>1. PICK s \in F : \A u \in F : u \subseteq s => u = s
  <2>1. F \subseteq SUBSET S
    OBVIOUS
  <2> HIDE DEF F
  <2> QED
    BY <2>1, SmallestSubset
<1>2. g[s] = SumBody(w, g, s) /\ h[s] = SumBody(w, h, s)
  BY DEF IsSumOn
<1>3. s # {}
  BY <1>1, <1>2 DEF SumBody
<1>4. PICK x \in s : \A f : SumBody(w, f, s) = w[x] + f[s \ {x}]
  BY <1>3, SumBodyOf
<1>5. g[s \ {x}] = h[s \ {x}]
  BY <1>1, <1>4
<1> QED
  BY <1>1, <1>2, <1>4, <1>5

\* There are sums over the subsets of a finite set.
LEMMA SumExists ==
  ASSUME NEW w, NEW S, IsFiniteSet(S)
  PROVE  \E g : IsSumOn(w, S, g)
<1> DEFINE F == {s \in SUBSET S : ~\E g : IsSumOn(w, s, g)}
<1> SUFFICES ASSUME F # {} PROVE FALSE
  OBVIOUS
<1>1. PICK T \in F : \A u \in F : u \subseteq T => u = T
  <2>1. F \subseteq SUBSET S
    OBVIOUS
  <2> HIDE DEF F
  <2> QED
    BY <2>1, SmallestSubset
<1> DEFINE v(s) == (CHOOSE g : IsSumOn(w, s, g))[s]
           before == [s \in SUBSET T |-> v(s)]
           f == [s \in SUBSET T |-> SumBody(w, before, s)]
<1>2. \A s \in SUBSET T : s # T => IsSumOn(w, s, CHOOSE g : IsSumOn(w, s, g))
  BY <1>1
<1>3. ASSUME NEW s \in SUBSET T, s # T PROVE f[s] = v(s)
  <2> DEFINE gs == CHOOSE g : IsSumOn(w, s, g)
  <2>1. IsSumOn(w, s, gs)
    BY <1>2, <1>3
  <2>2. v(s) = SumBody(w, gs, s)
    BY <2>1 DEF IsSumOn
  <2>3. CASE s = {}
    BY <2>2, <2>3 DEF SumBody
  <2>4. CASE s # {}
    <3>1. PICK x \in s : \A g : SumBody(w, g, s) = w[x] + g[s \ {x}]
      BY <2>4, SumBodyOf
    <3> DEFINE r == s \ {x}
               gr == CHOOSE g : IsSumOn(w, r, g)
    <3>2. IsSumOn(w, r, gr)
      BY <1>2, <1>3
    <3>3. IsFiniteSet(s) /\ r \subseteq s
      BY FS_Subset
    <3> HIDE DEF gs, gr
    <3>4. gs[r] = gr[r]
      BY <2>1, <3>2, <3>3, SumsAgree
    <3>5. before[r] = gr[r]
      BY DEF gr
    <3> QED
      BY <2>2, <3>1, <3>4, <3>5
  <2> QED
    BY <2>3, <2>4
<1>4. ASSUME NEW s \in SUBSET T PROVE SumBody(w, before, s) = SumBody(w, f, s)
  <2>1. CASE s = {}
    BY <2>1 DEF SumBody
  <2>2. CASE s # {}
    <3>1. PICK x \in s : \A g : SumBody(w, g, s) = w[x] + g[s \ {x}]
      BY <2>2, SumBodyOf
    <3>2. s \ {x} \in SUBSET T /\ s \ {x} # T
      OBVIOUS
    <3>3. f[s \ {x}] = v(s \ {x})
      BY <1>3, <3>2
    <3>4. before[s \ {x}] = v(s \ {x})
      BY <3>2
    <3> HIDE DEF f, before
    <3> QED
      BY <3>1, <3>3, <3>4
  <2> QED
    BY <2>1, <2>2
<1>5. IsSumOn(w, T, f)
  BY <1>4 DEF IsSumOn
<1> QED
  BY <1>1, <1>5

\* The operator of the library is one of them.
LEMMA SumOverDef ==
  ASSUME NEW w, NEW S, IsFiniteSet(S)
  PROVE  \E g : IsSumOn(w, S, g) /\ SumFunctionOnSet(w, S) = g[S]
<1> DEFINE g == CHOOSE h : IsSumOn(w, S, h)
<1>1. IsSumOn(w, S, g)
  BY SumExists
<1>2. SumFunctionOnSet(w, S) = g[S]
  BY DEF SumFunctionOnSet, FoldFunctionOnSet, MapThenFoldSet, IsSumOn, SumBody
<1> QED
  BY <1>1, <1>2

\* Some summand can be taken out; the choice is the library's.
LEMMA SumRecursion ==
  ASSUME NEW w, NEW S, IsFiniteSet(S)
  PROVE  /\ SumFunctionOnSet(w, {}) = 0
         /\ S # {} =>
              \E x \in S : SumFunctionOnSet(w, S) = w[x] + SumFunctionOnSet(w, S \ {x})
<1>1. SumFunctionOnSet(w, {}) = 0
  <2>1. IsFiniteSet({})
    BY FS_EmptySet
  <2>2. PICK g : IsSumOn(w, {}, g) /\ SumFunctionOnSet(w, {}) = g[{}]
    BY <2>1, SumOverDef
  <2> QED
    BY <2>2 DEF IsSumOn, SumBody
<1>2. ASSUME S # {}
      PROVE  \E x \in S : SumFunctionOnSet(w, S) = w[x] + SumFunctionOnSet(w, S \ {x})
  <2>1. PICK g : IsSumOn(w, S, g) /\ SumFunctionOnSet(w, S) = g[S]
    BY SumOverDef
  <2>2. g[S] = SumBody(w, g, S)
    BY <2>1 DEF IsSumOn
  <2>3. PICK x \in S : \A f : SumBody(w, f, S) = w[x] + f[S \ {x}]
    BY <1>2, SumBodyOf
  <2> DEFINE T == S \ {x}
  <2>4. IsFiniteSet(T) /\ T \subseteq S
    BY FS_Subset
  <2> HIDE DEF T
  <2>5. PICK h : IsSumOn(w, T, h) /\ SumFunctionOnSet(w, T) = h[T]
    BY <2>4, SumOverDef
  <2>6. g[T] = h[T]
    BY <2>1, <2>4, <2>5, SumsAgree
  <2> QED
    BY <2>1, <2>2, <2>3, <2>5, <2>6 DEF T
<1> QED
  BY <1>1, <1>2

\* The sum of integers is an integer, and every summand can be taken out.
LEMMA SumRemove ==
  ASSUME NEW S, IsFiniteSet(S), NEW w, \A x \in S : w[x] \in Int
  PROVE  /\ SumFunctionOnSet(w, S) \in Int
         /\ \A x \in S : SumFunctionOnSet(w, S) = w[x] + SumFunctionOnSet(w, S \ {x})
<1> DEFINE OK(T) == /\ SumFunctionOnSet(w, T) \in Int
                    /\ \A x \in T : SumFunctionOnSet(w, T) = w[x] + SumFunctionOnSet(w, T \ {x})
           F == {T \in SUBSET S : ~OK(T)}
<1> SUFFICES ASSUME F # {} PROVE FALSE
  OBVIOUS
<1>1. PICK T \in F : \A u \in F : u \subseteq T => u = T
  <2>1. F \subseteq SUBSET S
    OBVIOUS
  <2> HIDE DEF F
  <2> QED
    BY <2>1, SmallestSubset
<1>2. T \subseteq S /\ IsFiniteSet(T) /\ \A u \in SUBSET T : u # T => OK(u)
  BY <1>1, FS_Subset
<1>3. T # {}
  <2>1. SumFunctionOnSet(w, {}) = 0
    BY <1>2, SumRecursion
  <2>2. OK({})
    BY <2>1
  <2> HIDE DEF OK
  <2> QED
    BY <1>1, <2>2
<1>4. PICK x \in T : SumFunctionOnSet(w, T) = w[x] + SumFunctionOnSet(w, T \ {x})
  BY <1>2, <1>3, SumRecursion
<1>5. OK(T \ {x}) /\ w[x] \in Int
  BY <1>2
<1>6. ASSUME NEW y \in T, y # x
      PROVE  SumFunctionOnSet(w, T) = w[y] + SumFunctionOnSet(w, T \ {y})
  <2> DEFINE r == (T \ {x}) \ {y}
  <2>1. r = (T \ {y}) \ {x}
    OBVIOUS
  <2>2. OK(T \ {y}) /\ OK(r) /\ w[y] \in Int
    BY <1>2, <1>6
  <2>3. SumFunctionOnSet(w, T \ {x}) = w[y] + SumFunctionOnSet(w, r)
    BY <1>5, <1>6
  <2>4. SumFunctionOnSet(w, T \ {y}) = w[x] + SumFunctionOnSet(w, r)
    BY <2>1, <2>2, <1>6
  <2>5. SumFunctionOnSet(w, r) \in Int
    BY <2>2
  <2> HIDE DEF r, OK
  <2> QED
    BY <1>4, <1>5, <2>2, <2>3, <2>4, <2>5
<1>7. SumFunctionOnSet(w, T) \in Int
  <2>1. SumFunctionOnSet(w, T \ {x}) \in Int
    BY <1>5
  <2> HIDE DEF OK
  <2> QED
    BY <1>4, <1>5, <2>1
<1>8. OK(T)
  BY <1>4, <1>6, <1>7
<1> HIDE DEF OK
<1> QED
  BY <1>1, <1>8

\* The sum of nothing.
LEMMA SumEmpty == \A w : SumFunctionOnSet(w, {}) = 0
BY FS_EmptySet, SumRecursion

\* The sum of integers is an integer.
LEMMA SumType ==
  ASSUME NEW S, IsFiniteSet(S), NEW w, \A x \in S : w[x] \in Int
  PROVE  SumFunctionOnSet(w, S) \in Int
BY SumRemove

\* A summand can be added.
LEMMA SumAdd ==
  ASSUME NEW S, IsFiniteSet(S), NEW w, NEW x, x \notin S,
         \A y \in S \cup {x} : w[y] \in Int
  PROVE  SumFunctionOnSet(w, S \cup {x}) = w[x] + SumFunctionOnSet(w, S)
<1>1. IsFiniteSet(S \cup {x}) /\ (S \cup {x}) \ {x} = S
  BY FS_AddElement
<1> QED
  BY <1>1, SumRemove

\* IsSumOn of equal summands are equal.
LEMMA SumCongruence ==
  ASSUME NEW S, IsFiniteSet(S), NEW w, NEW v,
         \A x \in S : w[x] \in Int /\ w[x] = v[x]
  PROVE  SumFunctionOnSet(w, S) = SumFunctionOnSet(v, S)
<1> DEFINE F == {T \in SUBSET S : SumFunctionOnSet(w, T) # SumFunctionOnSet(v, T)}
<1> SUFFICES ASSUME F # {} PROVE FALSE
  OBVIOUS
<1>1. PICK T \in F : \A u \in F : u \subseteq T => u = T
  <2>1. F \subseteq SUBSET S
    OBVIOUS
  <2> HIDE DEF F
  <2> QED
    BY <2>1, SmallestSubset
<1>2. IsFiniteSet(T)
  BY <1>1, FS_Subset
<1>3. T # {}
  BY <1>1, SumEmpty
<1>4. PICK x \in T : TRUE
  BY <1>3
<1>5. SumFunctionOnSet(w, T \ {x}) = SumFunctionOnSet(v, T \ {x})
  BY <1>1
<1>6. SumFunctionOnSet(w, T) = w[x] + SumFunctionOnSet(w, T \ {x})
  BY <1>2, SumRemove
<1>7. SumFunctionOnSet(v, T) = v[x] + SumFunctionOnSet(v, T \ {x})
  BY <1>2, SumRemove
<1> QED
  BY <1>1, <1>5, <1>6, <1>7

\* One summand changes.
LEMMA SumUpdate ==
  ASSUME NEW S, IsFiniteSet(S), NEW x \in S, NEW w, NEW v,
         \A y \in S : w[y] \in Int /\ v[y] \in Int,
         \A y \in S \ {x} : w[y] = v[y]
  PROVE  SumFunctionOnSet(v, S) = SumFunctionOnSet(w, S) - w[x] + v[x]
<1>1. IsFiniteSet(S \ {x})
  BY FS_RemoveElement
<1>2. SumFunctionOnSet(w, S \ {x}) = SumFunctionOnSet(v, S \ {x})
  BY <1>1, SumCongruence
<1>3. SumFunctionOnSet(w, S \ {x}) \in Int
  BY <1>1, SumType
<1>4. SumFunctionOnSet(w, S) = w[x] + SumFunctionOnSet(w, S \ {x})
  BY SumRemove
<1>5. SumFunctionOnSet(v, S) = v[x] + SumFunctionOnSet(v, S \ {x})
  BY SumRemove
<1> QED
  BY <1>2, <1>3, <1>4, <1>5

\* The sum over two disjoint sets is the sum of the sums.
LEMMA SumUnion ==
  ASSUME NEW R, NEW S, IsFiniteSet(R \cup S), R \cap S = {}, NEW w,
         \A x \in R \cup S : w[x] \in Int
  PROVE  SumFunctionOnSet(w, R \cup S)
           = SumFunctionOnSet(w, R) + SumFunctionOnSet(w, S)
<1> DEFINE Sum(T) == SumFunctionOnSet(w, T)
           Splits(T) == Sum(R \cup T) = Sum(R) + Sum(T)
           F == {T \in SUBSET S : ~Splits(T)}
<1>1. ASSUME NEW U, U \subseteq R \cup S
      PROVE  /\ IsFiniteSet(U) /\ Sum(U) \in Int
             /\ \A x \in U : Sum(U) = w[x] + Sum(U \ {x})
  <2>1. IsFiniteSet(U) /\ \A x \in U : w[x] \in Int
    BY <1>1, FS_Subset
  <2> QED
    BY <2>1, SumRemove
<1>2. Sum({}) = 0
  BY SumEmpty
<1> HIDE DEF Sum
<1>3. ASSUME NEW T \in SUBSET S, \A x \in T : Splits(T \ {x})
      PROVE  Splits(T)
  <2>1. CASE T = {}
    <3>1. R \cup T = R /\ Sum(R) \in Int
      BY <1>1, <2>1
    <3> QED
      BY <1>2, <2>1, <3>1
  <2>2. ASSUME NEW x \in T PROVE Splits(T)
    <3>1. Sum(R) \in Int /\ Sum(T \ {x}) \in Int /\ w[x] \in Int
      BY <1>1, <1>3
    <3>2. Sum(T) = w[x] + Sum(T \ {x})
      BY <1>1, <1>3
    <3>3. Sum(R \cup T) = w[x] + Sum((R \cup T) \ {x})
      BY <1>1, <1>3
    <3>4. (R \cup T) \ {x} = R \cup (T \ {x})
      BY <1>3
    <3>5. Sum(R \cup (T \ {x})) = Sum(R) + Sum(T \ {x})
      BY <1>3
    <3>6. Sum(R \cup T) = w[x] + (Sum(R) + Sum(T \ {x}))
      BY <3>3, <3>4, <3>5, Zenon
    <3>7. w[x] + (Sum(R) + Sum(T \ {x})) = Sum(R) + (w[x] + Sum(T \ {x}))
      BY <3>1
    <3> QED
      BY <3>2, <3>6, <3>7, Zenon
  <2> QED
    BY <2>1, <2>2
<1> HIDE DEF Splits
<1>4. ASSUME F # {} PROVE FALSE
  <2>1. F \subseteq SUBSET S /\ IsFiniteSet(S)
    BY FS_Subset
  <2> HIDE DEF F
  <2>2. PICK T \in F : \A u \in F : u \subseteq T => u = T
    BY <1>4, <2>1, SmallestSubset
  <2> USE DEF F
  <2>3. \A x \in T : Splits(T \ {x})
    BY <2>2
  <2> QED
    BY <1>3, <2>2, <2>3
<1>5. Splits(S)
  BY <1>4
<1> QED
  BY <1>5 DEF Splits, Sum

\* The sum of natural numbers is a natural number.
LEMMA SumNat ==
  ASSUME NEW S, IsFiniteSet(S), NEW w, \A x \in S : w[x] \in Nat
  PROVE  SumFunctionOnSet(w, S) \in Nat
<1> DEFINE F == {T \in SUBSET S : SumFunctionOnSet(w, T) \notin Nat}
<1> SUFFICES ASSUME F # {} PROVE FALSE
  OBVIOUS
<1>1. PICK T \in F : \A u \in F : u \subseteq T => u = T
  <2>1. F \subseteq SUBSET S
    OBVIOUS
  <2> HIDE DEF F
  <2> QED
    BY <2>1, SmallestSubset
<1>2. IsFiniteSet(T)
  BY <1>1, FS_Subset
<1>3. T # {}
  <2>1. SumFunctionOnSet(w, {}) = 0
    BY SumEmpty
  <2>2. SumFunctionOnSet(w, T) \notin Nat
    BY <1>1
  <2> QED
    BY <2>1, <2>2
<1>4. PICK x \in T : TRUE
  BY <1>3
<1>5. SumFunctionOnSet(w, T \ {x}) \in Nat
  BY <1>1
<1>6. SumFunctionOnSet(w, T) = w[x] + SumFunctionOnSet(w, T \ {x})
  BY <1>2, SumRemove
<1> QED
  BY <1>1, <1>5, <1>6

\* No one or two summands exceed the sum of natural numbers.
LEMMA SumBounds ==
  ASSUME NEW S, IsFiniteSet(S), NEW w, \A x \in S : w[x] \in Nat
  PROVE  /\ \A x \in S : w[x] <= SumFunctionOnSet(w, S)
         /\ \A x, y \in S : x # y => w[x] + w[y] <= SumFunctionOnSet(w, S)
<1>1. ASSUME NEW T \in SUBSET S, NEW x \in T
      PROVE  /\ SumFunctionOnSet(w, T \ {x}) \in Nat
             /\ SumFunctionOnSet(w, T) = w[x] + SumFunctionOnSet(w, T \ {x})
  <2>1. IsFiniteSet(T) /\ IsFiniteSet(T \ {x})
    BY FS_Subset
  <2> QED
    BY <2>1, SumNat, SumRemove
<1>2. ASSUME NEW x \in S
      PROVE  w[x] <= SumFunctionOnSet(w, S)
  <2>1. /\ SumFunctionOnSet(w, S \ {x}) \in Nat
        /\ SumFunctionOnSet(w, S) = w[x] + SumFunctionOnSet(w, S \ {x})
    BY <1>1
  <2> QED
    BY <2>1
<1>3. ASSUME NEW x \in S, NEW y \in S, x # y
      PROVE  w[x] + w[y] <= SumFunctionOnSet(w, S)
  <2>1. SumFunctionOnSet(w, S) = w[x] + SumFunctionOnSet(w, S \ {x})
    BY <1>1
  <2>2. /\ SumFunctionOnSet(w, S \ {x}) = w[y] + SumFunctionOnSet(w, (S \ {x}) \ {y})
        /\ SumFunctionOnSet(w, (S \ {x}) \ {y}) \in Nat
    BY <1>1, <1>3
  <2> QED
    BY <2>1, <2>2
<1> QED
  BY <1>2, <1>3

-----------------------------------------------------------------------------
(***************************************************************************)
(* The same for the sum of all values of a function.                       *)
(***************************************************************************)

\* A sum of natural numbers is one, and no summand exceeds it.
LEMMA SumFunctionNat ==
  ASSUME NEW S, IsFiniteSet(S), NEW f \in [S -> Nat]
  PROVE  SumFunction(f) \in Nat /\ \A x \in S : f[x] <= SumFunction(f)
<1>1. SumFunction(f) = SumFunctionOnSet(f, S)
  BY DEF SumFunction
<1>2. \A x \in S : f[x] \in Nat
  OBVIOUS
<1> QED
  BY <1>1, <1>2, SumNat, SumBounds

\* The sum of nothing but zeros.
LEMMA SumFunctionZero ==
  ASSUME NEW S, IsFiniteSet(S), NEW f \in [S -> {0}]
  PROVE  SumFunction(f) = 0
<1> DEFINE F == {T \in SUBSET S : SumFunctionOnSet(f, T) # 0}
<1>1. ASSUME F # {} PROVE FALSE
  <2>1. PICK T \in F : \A u \in F : u \subseteq T => u = T
    <3>1. F \subseteq SUBSET S
      OBVIOUS
    <3> HIDE DEF F
    <3> QED
      BY <1>1, <3>1, SmallestSubset
  <2>2. IsFiniteSet(T) /\ SumFunctionOnSet(f, T) # 0
    BY <2>1, FS_Subset
  <2>3. T # {}
    BY <2>2, SumEmpty
  <2>4. PICK x \in T : SumFunctionOnSet(f, T) = f[x] + SumFunctionOnSet(f, T \ {x})
    BY <2>2, <2>3, SumRecursion
  <2>5. SumFunctionOnSet(f, T \ {x}) = 0 /\ f[x] = 0
    BY <2>1
  <2> QED
    BY <2>2, <2>4, <2>5
<1>2. SumFunctionOnSet(f, S) = 0
  BY <1>1
<1> QED
  BY <1>2 DEF SumFunction

\* One more summand.
LEMMA SumFunctionInsert ==
  ASSUME NEW S, IsFiniteSet(S), NEW x, x \notin S, NEW T, T = S \cup {x},
         NEW f \in [S -> Int], NEW g \in [T -> Int], \A y \in S : g[y] = f[y]
  PROVE  SumFunction(g) = SumFunction(f) + g[x] /\ SumFunction(f) \in Int
<1>1. SumFunction(f) = SumFunctionOnSet(f, S)
      /\ SumFunction(g) = SumFunctionOnSet(g, S \cup {x})
  BY DEF SumFunction
<1>2. \A y \in S \cup {x} : g[y] \in Int
  OBVIOUS
<1>3. SumFunctionOnSet(g, S \cup {x}) = g[x] + SumFunctionOnSet(g, S)
  BY <1>2, SumAdd
<1>4. \A y \in S : g[y] \in Int /\ g[y] = f[y]
  OBVIOUS
<1>5. SumFunctionOnSet(g, S) = SumFunctionOnSet(f, S)
  BY <1>4, SumCongruence
<1>6. SumFunctionOnSet(g, S) \in Int /\ g[x] \in Int
  BY <1>2, SumType
<1> QED
  BY <1>1, <1>3, <1>5, <1>6

\* One other summand.
LEMMA SumFunctionUpdate ==
  ASSUME NEW S, IsFiniteSet(S), NEW x \in S, NEW f \in [S -> Int],
         NEW g \in [S -> Int], \A y \in S \ {x} : g[y] = f[y]
  PROVE  /\ SumFunction(g) = SumFunction(f) - f[x] + g[x]
         /\ SumFunction(f) \in Int
<1>1. SumFunction(f) = SumFunctionOnSet(f, S)
      /\ SumFunction(g) = SumFunctionOnSet(g, S)
  BY DEF SumFunction
<1>2. \A y \in S : f[y] \in Int /\ g[y] \in Int
  OBVIOUS
<1>3. \A y \in S \ {x} : f[y] = g[y]
  OBVIOUS
<1> QED
  BY <1>1, <1>2, <1>3, SumUpdate, SumType

\* Two other summands.
LEMMA SumFunctionUpdateTwo ==
  ASSUME NEW S, IsFiniteSet(S), NEW x \in S, NEW y \in S, x # y,
         NEW f \in [S -> Int], NEW g \in [S -> Int],
         \A z \in S \ {x, y} : g[z] = f[z]
  PROVE  /\ SumFunction(g) = SumFunction(f) - f[x] - f[y] + g[x] + g[y]
         /\ SumFunction(f) \in Int
<1> DEFINE h == [f EXCEPT ![x] = g[x]]
<1>1. h \in [S -> Int] /\ h[x] = g[x] /\ h[y] = f[y]
  OBVIOUS
<1>2. (\A z \in S \ {x} : h[z] = f[z]) /\ (\A z \in S \ {y} : g[z] = h[z])
  OBVIOUS
<1> HIDE DEF h
<1>3. SumFunction(h) = SumFunction(f) - f[x] + h[x] /\ SumFunction(f) \in Int
  BY <1>1, <1>2, SumFunctionUpdate
<1>4. SumFunction(g) = SumFunction(h) - h[y] + g[y]
  BY <1>1, <1>2, SumFunctionUpdate
<1> QED
  BY <1>1, <1>3, <1>4

\* Two functions that agree but on one argument, which either may lack.
LEMMA SumFunctionChange ==
  ASSUME NEW S, NEW T, NEW x, IsFiniteSet(S), IsFiniteSet(T),
         S \ {x} = T \ {x}, NEW f \in [S -> Int], NEW g \in [T -> Int],
         \A y \in S \ {x} : g[y] = f[y]
  PROVE  /\ SumFunction(f) \in Int
         /\ SumFunction(g) = SumFunction(f) - (IF x \in S THEN f[x] ELSE 0)
                                            + (IF x \in T THEN g[x] ELSE 0)
<1>1. CASE x \in S /\ x \in T
  <2>1. S = T
    BY <1>1
  <2>2. g \in [S -> Int]
    BY <2>1
  <2> QED
    BY <1>1, <2>2, SumFunctionUpdate
<1>2. CASE x \notin S /\ x \in T
  <2>1. T = S \cup {x}
    BY <1>2
  <2>2. \A y \in S : g[y] = f[y]
    BY <1>2
  <2>3. SumFunction(g) = SumFunction(f) + g[x] /\ SumFunction(f) \in Int
    BY <1>2, <2>1, <2>2, SumFunctionInsert
  <2> QED
    BY <1>2, <2>3
<1>3. CASE x \in S /\ x \notin T
  <2>1. S = T \cup {x}
    BY <1>3
  <2>2. \A y \in T : f[y] = g[y]
    BY <1>3
  <2>3. SumFunction(f) = SumFunction(g) + f[x] /\ SumFunction(g) \in Int
    BY <1>3, <2>1, <2>2, SumFunctionInsert
  <2>4. f[x] \in Int
    BY <1>3
  <2> QED
    BY <1>3, <2>3, <2>4
<1>4. CASE x \notin S /\ x \notin T
  <2>1. S = T
    BY <1>4
  <2>2. f = g
    BY <1>4, <2>1
  <2>3. SumFunction(f) \in Int
    BY SumType DEF SumFunction
  <2> QED
    BY <1>4, <2>2, <2>3
<1> QED
  BY <1>1, <1>2, <1>3, <1>4
=============================================================================
