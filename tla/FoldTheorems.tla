--------------------------- MODULE FoldTheorems ---------------------------
(***************************************************************************)
(* Sums and folds, the recursive operators of the community modules.       *)
(*                                                                         *)
(* MapThenSumSet, a sum over a finite set, is a number, and an element     *)
(* taken out of the set is taken out of the sum, whatever order the        *)
(* elements are added up in.  FoldLeft, over a sequence, is a walk: it is  *)
(* the last of the values that begin with the base and follow from each    *)
(* other by one element each.  Inductions here are about a set of subsets  *)
(* or numbers, where the library has a predicate.                          *)
(***************************************************************************)
EXTENDS Integers, Functions, FiniteSetsExt, FiniteSetTheorems, WellFoundedInduction, TLAPS

\* The element that is added next.
Pick(s) == CHOOSE x \in s : TRUE

\* g gives the sum of the values v for every subset of S.
IsSum(g, v, S) ==
    g = [s \in SUBSET S |-> IF s = {} THEN 0 ELSE v[Pick(s)] + g[s \ {Pick(s)}]]

\* The sum of v over S.
SumOf(v, S) == MapThenSumSet(LAMBDA x : v[x], S)

-----------------------------------------------------------------------------
\* Induction over the subsets of a finite set, for a set G of them.
LEMMA SubsetInduction ==
    ASSUME NEW S, IsFiniteSet(S), NEW G,
           \A U \in SUBSET S : (\A V \in SUBSET U : V # U => V \in G) => U \in G
    PROVE  \A U \in SUBSET S : U \in G
<1> DEFINE T == (SUBSET S) \ G
<1> SUFFICES ASSUME T # {} PROVE FALSE
  OBVIOUS
<1>1. IsWellFoundedOn(StrictSubsetOrdering(S), SUBSET S)
  <2>1. IsWellFoundedOn(StrictSubsetOrdering(S), FiniteSubsetsOf(S))
    BY FS_StrictSubsetOrderingWellFounded
  <2>2. FiniteSubsetsOf(S) = SUBSET S
    BY FS_FiniteSubsetsOfFinite
  <2>3. QED BY <2>1, <2>2
<1>2. PICK U \in T : \A V \in T : <<V, U>> \notin StrictSubsetOrdering(S)
  <2>1. T \subseteq SUBSET S
    OBVIOUS
  <2> HIDE DEF T
  <2>2. QED BY <1>1, <2>1, WFMin
<1>3. \A V \in SUBSET U : V # U => V \in G
  BY <1>2 DEF StrictSubsetOrdering
<1>4. QED BY <1>2, <1>3

LEMMA PickIsElement == \A s : s # {} => Pick(s) \in s
  BY DEF Pick

\* There is at most one function of sums,
LEMMA SumsAreUnique ==
    ASSUME NEW S, IsFiniteSet(S), NEW v, NEW g, NEW h, IsSum(g, v, S), IsSum(h, v, S)
    PROVE  g = h
<1> DEFINE G == {U \in SUBSET S : g[U] = h[U]}
<1>1. ASSUME NEW U \in SUBSET S, \A V \in SUBSET U : V # U => V \in G
      PROVE  U \in G
  <2>1. CASE U = {}
    BY <2>1 DEF IsSum
  <2>2. CASE U # {}
    <3>1. Pick(U) \in U
      BY <2>2, PickIsElement
    <3>2. g[U \ {Pick(U)}] = h[U \ {Pick(U)}]
      BY <1>1, <3>1
    <3>3. g[U] = v[Pick(U)] + g[U \ {Pick(U)}] /\ h[U] = v[Pick(U)] + h[U \ {Pick(U)}]
      BY <2>2 DEF IsSum
    <3>4. QED BY <3>2, <3>3
  <2>3. QED BY <2>1, <2>2
<1>2. \A U \in SUBSET S : g[U] = h[U]
  <2> HIDE DEF G
  <2>1. \A U \in SUBSET S : U \in G
    BY <1>1, SubsetInduction
  <2>2. QED BY <2>1 DEF G
<1>3. g = [s \in SUBSET S |-> g[s]] /\ h = [s \in SUBSET S |-> h[s]]
  BY DEF IsSum
<1>4. QED BY <1>2, <1>3

\* which gives the sums over a subset as well,
LEMMA SumsOfSubsets ==
    ASSUME NEW S, NEW v, NEW g, IsSum(g, v, S), NEW U \in SUBSET S
    PROVE  IsSum([s \in SUBSET U |-> g[s]], v, U)
<1> DEFINE r == [s \in SUBSET U |-> g[s]]
<1>1. \A s \in SUBSET U : g[s] = IF s = {} THEN 0 ELSE v[Pick(s)] + g[s \ {Pick(s)}]
  BY DEF IsSum
<1>2. \A s \in SUBSET U : s \ {Pick(s)} \in SUBSET U
  OBVIOUS
<1>3. \A s \in SUBSET U : r[s] = IF s = {} THEN 0 ELSE v[Pick(s)] + r[s \ {Pick(s)}]
  BY <1>1, <1>2
<1>4. r = [s \in SUBSET U |-> r[s]]
  OBVIOUS
<1>5. QED BY <1>3, <1>4 DEF IsSum

\* and there is one.
LEMMA SumsExist ==
    ASSUME NEW S, IsFiniteSet(S), NEW v
    PROVE  \E g : IsSum(g, v, S)
<1> DEFINE G == {U \in SUBSET S : \E g : IsSum(g, v, U)}
<1>1. ASSUME NEW U \in SUBSET S, \A V \in SUBSET U : V # U => V \in G
      PROVE  U \in G
  <2> DEFINE sums(s) == CHOOSE g : IsSum(g, v, s)
             rest(s) == s \ {Pick(s)}
             g == [s \in SUBSET U |-> IF s = {} THEN 0
                                      ELSE v[Pick(s)] + sums(rest(s))[rest(s)]]
  <2>1. ASSUME NEW s \in SUBSET U, s # {}
        PROVE  rest(s) \in SUBSET U /\ IsSum(sums(rest(s)), v, rest(s))
    <3>1. rest(s) \in SUBSET U /\ rest(s) # U
      BY <2>1, PickIsElement
    <3>2. \E h : IsSum(h, v, rest(s))
      BY <1>1, <3>1
    <3>3. QED BY <3>1, <3>2
  <2>2. ASSUME NEW t \in SUBSET U, IsSum(sums(t), v, t)
        PROVE  g[t] = sums(t)[t]
    <3>1. CASE t = {}
      BY <2>2, <3>1 DEF IsSum
    <3>2. CASE t # {}
      <4> DEFINE h == [s \in SUBSET rest(t) |-> sums(t)[s]]
      <4>1. IsSum(h, v, rest(t))
        BY <2>2, SumsOfSubsets
      <4>2. IsSum(sums(rest(t)), v, rest(t)) /\ IsFiniteSet(rest(t))
        BY <2>1, <3>2, FS_Subset
      <4>3. h = sums(rest(t))
        BY <4>1, <4>2, SumsAreUnique
      <4>4. sums(rest(t))[rest(t)] = sums(t)[rest(t)]
        <5> HIDE DEF sums
        <5>1. h[rest(t)] = sums(t)[rest(t)]
          OBVIOUS
        <5>2. QED BY <4>3, <5>1
      <4>5. sums(t)[t] = v[Pick(t)] + sums(t)[rest(t)]
        BY <2>2, <3>2 DEF IsSum
      <4>6. g[t] = v[Pick(t)] + sums(rest(t))[rest(t)]
        BY <3>2
      <4>7. QED BY <4>4, <4>5, <4>6
    <3>3. QED BY <3>1, <3>2
  <2>3. \A s \in SUBSET U : g[s] = IF s = {} THEN 0 ELSE v[Pick(s)] + g[rest(s)]
    <3>1. ASSUME NEW s \in SUBSET U, s # {} PROVE g[rest(s)] = sums(rest(s))[rest(s)]
      <4> HIDE DEF sums, g, rest
      <4>1. QED BY <2>1, <2>2, <3>1
    <3>2. \A s \in SUBSET U : g[s] = IF s = {} THEN 0 ELSE v[Pick(s)] + sums(rest(s))[rest(s)]
      BY ZenonT(20)
    <3> HIDE DEF sums, g, rest
    <3>3. QED BY <3>1, <3>2
  <2>4. IsSum(g, v, U)
    <3>1. g = [s \in SUBSET U |-> g[s]]
      OBVIOUS
    <3> HIDE DEF g
    <3>2. QED BY <2>3, <3>1 DEF IsSum
  <2>5. QED BY <2>4
<1>2. \A U \in SUBSET S : U \in G
  <2> HIDE DEF G
  <2>1. QED BY <1>1, SubsetInduction
<1>3. QED BY <1>2

-----------------------------------------------------------------------------
\* The operator of the community modules is the value of that function.
LEMMA SumOfIsSum ==
    ASSUME NEW S, IsFiniteSet(S), NEW v
    PROVE  \E g : IsSum(g, v, S) /\ SumOf(v, S) = g[S]
<1> DEFINE it == CHOOSE g : IsSum(g, v, S)
<1>1. IsSum(it, v, S)
  BY SumsExist
<1>2. SumOf(v, S) = it[S]
  BY DEF SumOf, MapThenSumSet, MapThenFoldSet, IsSum, Pick
<1>3. QED BY <1>1, <1>2

LEMMA SumOfEmpty == ASSUME NEW v PROVE SumOf(v, {}) = 0
  BY SumOfIsSum, FS_EmptySet DEF IsSum

LEMMA SumOfPick ==
    ASSUME NEW S, IsFiniteSet(S), NEW v, S # {}
    PROVE  SumOf(v, S) = v[Pick(S)] + SumOf(v, S \ {Pick(S)})
<1> DEFINE R == S \ {Pick(S)}
<1>1. PICK g : IsSum(g, v, S) /\ SumOf(v, S) = g[S]
  BY SumOfIsSum
<1>2. PICK h : IsSum(h, v, R) /\ SumOf(v, R) = h[R]
  BY SumOfIsSum, FS_Subset
<1>3. IsSum([s \in SUBSET R |-> g[s]], v, R)
  <2>1. R \in SUBSET S
    OBVIOUS
  <2> HIDE DEF R
  <2>2. QED BY <1>1, <2>1, SumsOfSubsets
<1>4. h = [s \in SUBSET R |-> g[s]]
  BY <1>2, <1>3, SumsAreUnique, FS_Subset
<1>5. h[R] = g[R]
  BY <1>4
<1>6. g[S] = v[Pick(S)] + g[R]
  BY <1>1 DEF IsSum
<1>7. QED BY <1>1, <1>2, <1>5, <1>6

\* A sum of numbers is a number.
LEMMA SumOfType ==
    ASSUME NEW S, IsFiniteSet(S), NEW v, NEW N, 0 \in N,
           \A a, b \in N : a + b \in N, \A x \in S : v[x] \in N
    PROVE  SumOf(v, S) \in N
<1> DEFINE G == {U \in SUBSET S : SumOf(v, U) \in N}
<1>1. ASSUME NEW U \in SUBSET S, \A V \in SUBSET U : V # U => V \in G
      PROVE  U \in G
  <2>1. CASE U = {}
    BY <2>1, SumOfEmpty
  <2>2. CASE U # {}
    <3>1. Pick(U) \in U /\ IsFiniteSet(U)
      BY <2>2, PickIsElement, FS_Subset
    <3>2. SumOf(v, U \ {Pick(U)}) \in N
      BY <1>1, <3>1
    <3>3. v[Pick(U)] \in N
      BY <3>1
    <3>4. v[Pick(U)] + SumOf(v, U \ {Pick(U)}) \in N
      BY <3>2, <3>3
    <3>5. SumOf(v, U) = v[Pick(U)] + SumOf(v, U \ {Pick(U)})
      BY <2>2, <3>1, SumOfPick
    <3>6. SumOf(v, U) \in N
      BY <3>4, <3>5
    <3>7. QED BY <3>6
  <2>3. QED BY <2>1, <2>2
<1>2. \A U \in SUBSET S : U \in G
  <2> HIDE DEF G
  <2>1. QED BY <1>1, SubsetInduction
<1>3. QED BY <1>2

\* The order does not matter: any element may be added last.
LEMMA SumOfAdd ==
    ASSUME NEW S, IsFiniteSet(S), NEW v, \A x \in S : v[x] \in Int, NEW a \in S
    PROVE  SumOf(v, S) = v[a] + SumOf(v, S \ {a})
<1> DEFINE G == {U \in SUBSET S : \A x \in U : SumOf(v, U) = v[x] + SumOf(v, U \ {x})}
<1>1. ASSUME NEW U \in SUBSET S, \A V \in SUBSET U : V # U => V \in G
      PROVE  U \in G
  <2> SUFFICES ASSUME NEW x \in U PROVE SumOf(v, U) = v[x] + SumOf(v, U \ {x})
    OBVIOUS
  <2> DEFINE y == Pick(U)
  <2>1. y \in U /\ IsFiniteSet(U)
    BY PickIsElement, FS_Subset
  <2>2. SumOf(v, U) = v[y] + SumOf(v, U \ {y})
    BY <2>1, SumOfPick
  <2>3. CASE y = x
    BY <2>2, <2>3
  <2>4. CASE y # x
    <3> HIDE DEF y
    <3>1. U \ {y} \in G /\ U \ {x} \in G
      BY <1>1, <2>1
    <3>2. /\ SumOf(v, U \ {y}) = v[x] + SumOf(v, (U \ {y}) \ {x})
          /\ SumOf(v, U \ {x}) = v[y] + SumOf(v, (U \ {x}) \ {y})
      BY <2>1, <2>4, <3>1
    <3>3. (U \ {y}) \ {x} = (U \ {x}) \ {y}
      OBVIOUS
    <3>4. SumOf(v, (U \ {x}) \ {y}) \in Int
      <4>1. IsFiniteSet((U \ {x}) \ {y})
        BY <2>1, FS_Subset
      <4>2. \A z \in (U \ {x}) \ {y} : v[z] \in Int
        OBVIOUS
      <4>3. QED BY <4>1, <4>2, SumOfType
    <3>5. v[x] \in Int /\ v[y] \in Int
      BY <2>1
    <3> DEFINE rest == SumOf(v, (U \ {x}) \ {y})
    <3>6. v[y] + (v[x] + rest) = v[x] + (v[y] + rest)
      <4> HIDE DEF rest
      <4>1. \A a1, b1, c1 \in Int : b1 + (a1 + c1) = a1 + (b1 + c1)
        OBVIOUS
      <4>2. rest \in Int
        BY <3>4 DEF rest
      <4>3. QED BY <3>5, <4>1, <4>2
    <3>7. SumOf(v, U) = v[y] + (v[x] + rest)
      BY <2>2, <3>2, <3>3
    <3>8. SumOf(v, U \ {x}) = v[y] + rest
      BY <3>2
    <3>9. QED BY <3>6, <3>7, <3>8
  <2>5. QED BY <2>3, <2>4
<1>2. \A U \in SUBSET S : U \in G
  <2> HIDE DEF G
  <2>1. QED BY <1>1, SubsetInduction
<1>3. QED BY <1>2

\* Only the values of the elements count.
LEMMA SumOfEqual ==
    ASSUME NEW S, IsFiniteSet(S), NEW v, NEW w, \A x \in S : v[x] = w[x]
    PROVE  SumOf(v, S) = SumOf(w, S)
<1> DEFINE G == {U \in SUBSET S : SumOf(v, U) = SumOf(w, U)}
<1>1. ASSUME NEW U \in SUBSET S, \A V \in SUBSET U : V # U => V \in G
      PROVE  U \in G
  <2>1. CASE U = {}
    BY <2>1, SumOfEmpty
  <2>2. CASE U # {}
    <3> DEFINE y == Pick(U)
    <3>1. y \in U /\ IsFiniteSet(U)
      BY <2>2, PickIsElement, FS_Subset
    <3>2. /\ SumOf(v, U) = v[y] + SumOf(v, U \ {y})
          /\ SumOf(w, U) = w[y] + SumOf(w, U \ {y})
      BY <2>2, <3>1, SumOfPick
    <3> HIDE DEF y
    <3>3. U \ {y} \in G
      BY <1>1, <3>1
    <3>4. v[y] = w[y]
      BY <3>1
    <3>5. QED BY <3>2, <3>3, <3>4
  <2>3. QED BY <2>1, <2>2
<1>2. \A U \in SUBSET S : U \in G
  <2> HIDE DEF G
  <2>1. QED BY <1>1, SubsetInduction
<1>3. QED BY <1>2

\* The operator SumFunction adds up the same.
LEMMA SumFunctionIsSum == ASSUME NEW v PROVE SumFunction(v) = SumOf(v, DOMAIN v)
  BY DEF SumFunction, SumFunctionOnSet, FoldFunctionOnSet, SumOf, MapThenSumSet

LEMMA SumFunctionType ==
    ASSUME NEW v, IsFiniteSet(DOMAIN v), \A x \in DOMAIN v : v[x] \in Nat
    PROVE  SumFunction(v) \in Nat
<1>1. 0 \in Nat /\ \A a, b \in Nat : a + b \in Nat
  OBVIOUS
<1>2. QED BY <1>1, SumFunctionIsSum, SumOfType

\* A finite set of numbers has a greatest one.
LEMMA MaxIsElement ==
    ASSUME NEW S, IsFiniteSet(S), S \subseteq Int, S # {}
    PROVE  Max(S) \in S /\ \A x \in S : x <= Max(S)
<1> DEFINE G == {U \in SUBSET S : U = {} \/ \E m \in U : \A x \in U : m >= x}
<1>1. ASSUME NEW U \in SUBSET S, \A V \in SUBSET U : V # U => V \in G
      PROVE  U \in G
  <2> SUFFICES ASSUME U # {} PROVE \E m \in U : \A x \in U : m >= x
    OBVIOUS
  <2> DEFINE y == Pick(U)
             V == U \ {y}
  <2>1. y \in U /\ V \in G
    BY <1>1, PickIsElement
  <2>2. CASE V = {}
    <3>1. y \in Int /\ \A x \in U : x = y
      BY <2>1, <2>2
    <3> HIDE DEF y
    <3>2. QED BY <2>1, <3>1
  <2>3. CASE V # {}
    <3>1. PICK m \in V : \A x \in V : m >= x
      BY <2>1, <2>3
    <3>2. y \in Int /\ m \in Int /\ m \in U /\ \A x \in U : x \in Int
      BY <2>1
    <3>3. \A x \in U : x = y \/ m >= x
      BY <3>1
    <3> HIDE DEF y
    <3>4. CASE m >= y
      BY <3>2, <3>3, <3>4
    <3>5. CASE y >= m
      <4>1. \A x \in U : y >= x
        BY <3>2, <3>3, <3>5
      <4>2. QED BY <2>1, <4>1
    <3>6. QED BY <3>2, <3>4, <3>5
  <2>4. QED BY <2>2, <2>3
<1>2. \A U \in SUBSET S : U \in G
  <2> HIDE DEF G
  <2>1. QED BY <1>1, SubsetInduction
<1>3. \E m \in S : \A x \in S : m >= x
  BY <1>2
<1>4. Max(S) \in S /\ \A x \in S : Max(S) >= x
  BY <1>3 DEF Max
<1>5. QED BY <1>4

\* The same of the smallest element.
LEMMA MinIsElement ==
    ASSUME NEW S, IsFiniteSet(S), S \subseteq Int, S # {}
    PROVE  Min(S) \in S /\ \A x \in S : Min(S) <= x
<1> DEFINE T == {0 - x : x \in S}
<1>1. IsFiniteSet(T)
  <2> DEFINE f == [x \in S |-> 0 - x]
  <2>1. f \in Surjection(S, T)
    BY DEF Surjection
  <2> HIDE DEF f, T
  <2>2. QED BY <2>1, FS_Surjection
<1>2. T \subseteq Int /\ T # {}
  <2>1. PICK x \in S : TRUE
    OBVIOUS
  <2>2. 0 - x \in T
    BY <2>1
  <2>3. \A y \in T : y \in Int
    OBVIOUS
  <2> HIDE DEF T
  <2>4. QED BY <2>2, <2>3
<1>3. Max(T) \in T /\ \A y \in T : y <= Max(T)
  <2> HIDE DEF T
  <2>1. QED BY <1>1, <1>2, MaxIsElement
<1>4. PICK m \in S : \A x \in S : 0 - x <= 0 - m
  BY <1>3
<1>5. \A x \in S : m <= x
  BY <1>4
<1>6. QED BY <1>5 DEF Min

LEMMA MaxOfTwo ==
    ASSUME NEW a \in Int, NEW b \in Int PROVE Max({a, b}) = IF a >= b THEN a ELSE b
<1>1. \E x \in {a, b} : \A y \in {a, b} : x >= y
  <2>1. CASE a >= b
    BY <2>1
  <2>2. CASE ~(a >= b)
    BY <2>2
  <2>3. QED BY <2>1, <2>2
<1>2. Max({a, b}) \in {a, b} /\ \A y \in {a, b} : Max({a, b}) >= y
  BY <1>1 DEF Max
<1>3. QED BY <1>2

LEMMA MinOfTwo ==
    ASSUME NEW a \in Int, NEW b \in Int PROVE Min({a, b}) = IF a <= b THEN a ELSE b
<1>1. \E x \in {a, b} : \A y \in {a, b} : x <= y
  <2>1. CASE a <= b
    BY <2>1
  <2>2. CASE ~(a <= b)
    BY <2>2
  <2>3. QED BY <2>1, <2>2
<1>2. Min({a, b}) \in {a, b} /\ \A y \in {a, b} : Min({a, b}) <= y
  BY <1>1 DEF Min
<1>3. QED BY <1>2

-----------------------------------------------------------------------------
(* Folds over sequences.                                                   *)

\* Induction over an interval, for a set G of numbers.
LEMMA IntervalInduction ==
    ASSUME NEW n \in Nat, NEW G, 0 \in G, \A k \in 1..n : k - 1 \in G => k \in G
    PROVE  \A k \in 0..n : k \in G
<1> DEFINE T == (0..n) \ G
<1> SUFFICES ASSUME T # {} PROVE FALSE
  OBVIOUS
<1>1. IsFiniteSet(T) /\ T \subseteq Int
  <2>1. IsFiniteSet(0..n) /\ T \subseteq 0..n /\ T \subseteq Int
    BY FS_Interval
  <2> HIDE DEF T
  <2>2. QED BY <2>1, FS_Subset
<1>2. Min(T) \in T /\ \A x \in T : Min(T) <= x
  <2> HIDE DEF T
  <2>1. QED BY <1>1, MinIsElement
<1>3. PICK m \in T : \A x \in T : m <= x
  BY <1>2
<1>4. m \in 1..n /\ m - 1 \notin T
  BY <1>3
<1>5. QED BY <1>3, <1>4

\* A fold from left to right takes the largest index last.
LEMMA LargestOfPrefix == ASSUME NEW k \in Nat, k # 0 PROVE Max(1..k) = k
<1>1. IsFiniteSet(1..k) /\ 1..k \subseteq Int /\ 1..k # {}
  <2>1. k \in 1..k
    OBVIOUS
  <2>2. IsFiniteSet(1..k)
    BY FS_Interval
  <2>3. QED BY <2>1, <2>2
<1>2. Max(1..k) \in 1..k /\ k <= Max(1..k)
  BY <1>1, MaxIsElement
<1>3. QED BY <1>2

LEMMA LastIndex ==
    ASSUME NEW n \in Nat, NEW s \in SUBSET (1..n), s # {}
    PROVE  Max(s) \in 1..n /\ s \ {Max(s)} \in SUBSET (1..n)
<1>1. IsFiniteSet(1..n) /\ s \subseteq Int
  BY FS_Interval
<1>2. QED BY <1>1, MaxIsElement, FS_Subset

\* g is the value of a fold at every set of indices: h[i] is the step at index i.
IsFold(g, h, b, n) ==
    g = [s \in SUBSET (1..n) |-> IF s = {} THEN b ELSE h[Max(s)][g[s \ {Max(s)}]]]

\* The folds exist.
LEMMA FoldsExist ==
    ASSUME NEW n \in Nat, NEW D, NEW b \in D, NEW h \in [1..n -> [D -> D]]
    PROVE  \E g \in [SUBSET (1..n) -> D] : IsFold(g, h, b, n)
<1> DEFINE G == {m \in 0..n : \E g \in [SUBSET (1..m) -> D] : IsFold(g, h, b, m)}
<1>1. 0 \in G
  <2> DEFINE g == [s \in SUBSET (1..0) |-> b]
  <2>1. 1..0 = {}
    OBVIOUS
  <2>2. g \in [SUBSET (1..0) -> D] /\ IsFold(g, h, b, 0)
    BY <2>1 DEF IsFold
  <2> HIDE DEF g
  <2>3. 0 \in 0..n
    OBVIOUS
  <2>4. QED BY <2>2, <2>3
<1>2. ASSUME NEW k \in 1..n, k - 1 \in G PROVE k \in G
  <2> DEFINE I == 1..(k - 1)
  <2>1. PICK f \in [SUBSET I -> D] : IsFold(f, h, b, k - 1)
    BY <1>2
  <2> DEFINE g == [s \in SUBSET (1..k) |-> IF k \in s THEN h[k][f[s \ {k}]] ELSE f[s]]
  <2>2. \A s \in SUBSET (1..k) : s \ {k} \in SUBSET I /\ (k \notin s => s \in SUBSET I)
    OBVIOUS
  <2>3. g \in [SUBSET (1..k) -> D]
    <3> HIDE DEF I
    <3>1. ASSUME NEW s \in SUBSET (1..k) PROVE g[s] \in D
      <4>1. CASE k \in s
        <5>1. f[s \ {k}] \in D /\ h[k] \in [D -> D]
          BY <2>2
        <5>2. g[s] = h[k][f[s \ {k}]]
          BY <4>1
        <5> HIDE DEF g
        <5>3. QED BY <5>1, <5>2
      <4>2. CASE k \notin s
        BY <2>2, <4>2
      <4>3. QED BY <4>1, <4>2
    <3> HIDE DEF g
    <3>2. g = [s \in SUBSET (1..k) |-> g[s]]
      BY DEF g
    <3>3. QED BY <3>1, <3>2
  <2>4. ASSUME NEW s \in SUBSET (1..k)
        PROVE  g[s] = IF s = {} THEN b ELSE h[Max(s)][g[s \ {Max(s)}]]
    <3>1. CASE s = {}
      BY <2>1, <3>1 DEF IsFold
    <3>2. CASE s # {}
      <4>1. IsFiniteSet(s) /\ s \subseteq Int
        <5>1. IsFiniteSet(1..k) /\ 1..k \subseteq Int
          BY FS_Interval
        <5>2. QED BY <5>1, FS_Subset
      <4>2. Max(s) \in s /\ \A x \in s : x <= Max(s)
        BY <3>2, <4>1, MaxIsElement
      <4> DEFINE m == Max(s)
      <4>3. CASE k \in s
        <5>1. m = k
          <6> HIDE DEF m
          <6>1. m \in s /\ \A x \in s : x <= m
            BY <4>2 DEF m
          <6>2. QED BY <4>3, <6>1
        <5>2. g[s] = h[k][f[s \ {k}]] /\ g[s \ {k}] = f[s \ {k}]
          BY <4>3
        <5> HIDE DEF g
        <5>3. QED BY <3>2, <5>1, <5>2
      <4>4. CASE k \notin s
        <5>1. s \in SUBSET I /\ s \ {m} \in SUBSET (1..k) /\ k \notin s \ {m}
          BY <4>4, <2>2
        <5>2. g[s] = f[s] /\ g[s \ {m}] = f[s \ {m}]
          <6> HIDE DEF m
          <6>1. QED BY <4>4, <5>1
        <5>3. f[s] = h[m][f[s \ {m}]]
          BY <2>1, <3>2, <5>1 DEF IsFold
        <5> HIDE DEF g
        <5>4. QED BY <3>2, <5>2, <5>3
      <4>5. QED BY <4>3, <4>4
    <3>3. QED BY <3>1, <3>2
  <2>5. IsFold(g, h, b, k)
    <3>1. g = [s \in SUBSET (1..k) |-> g[s]]
      OBVIOUS
    <3> HIDE DEF g
    <3>2. QED BY <2>4, <3>1 DEF IsFold
  <2> HIDE DEF g
  <2>6. QED BY <2>3, <2>5
<1>3. n \in G
  <2> HIDE DEF G
  <2>1. n \in 0..n
    OBVIOUS
  <2>2. QED BY <1>1, <1>2, <2>1, IntervalInduction
<1>4. QED BY <1>3

\* g has the values of a fold where they are in D.
Unfolds(g, h, b, n, D) ==
    /\ n \in Nat /\ b \in D /\ h \in [1..n -> [D -> D]]
    /\ g[{}] = b
    /\ \A s \in SUBSET (1..n) :
          s # {} /\ g[s \ {Max(s)}] \in D => g[s] = h[Max(s)][g[s \ {Max(s)}]]

\* What a fold has reached after each number of elements.
IsWalk(a, h, b, n, D) ==
    a \in [0..n -> D] /\ a[0] = b /\ \A k \in 1..n : a[k] = h[k][a[k - 1]]

\* A fold from left to right is a walk.
LEMMA FoldIsWalk ==
    ASSUME NEW n, NEW D, NEW b, NEW h, NEW g, Unfolds(g, h, b, n, D)
    PROVE  \E a : IsWalk(a, h, b, n, D) /\ a[n] = g[1..n]
<1> USE DEF Unfolds
<1> DEFINE G == {k \in 0..n : g[1..k] \in D}
<1>1. ASSUME NEW k \in 1..n PROVE (1..k) \ {k} = 1..(k - 1) /\ Max(1..k) = k
  BY LargestOfPrefix
<1>2. ASSUME NEW k \in 1..n, g[1..(k - 1)] \in D
      PROVE  g[1..k] = h[k][g[1..(k - 1)]] /\ g[1..k] \in D
  <2>1. 1..k \in SUBSET (1..n) /\ 1..k # {}
    <3>1. k \in Nat /\ k \in 1..k /\ k <= n
      BY <1>2
    <3>2. \A j \in 1..k : j \in 1..n
      BY <3>1
    <3>3. QED BY <3>1, <3>2
  <2>2. g[1..k] = h[k][g[1..(k - 1)]]
    BY <1>1, <1>2, <2>1
  <2>3. QED BY <1>2, <2>2
<1>3. g[1..0] = b
  <2>1. 1..0 = {}
    OBVIOUS
  <2>2. QED BY <2>1
<1>4. \A k \in 0..n : k \in G
  <2>1. 0 \in G
    BY <1>3
  <2>2. \A k \in 1..n : k - 1 \in G => k \in G
    BY <1>2
  <2> HIDE DEF G
  <2>3. QED BY <2>1, <2>2, IntervalInduction
<1> DEFINE a == [k \in 0..n |-> g[1..k]]
<1>5. a \in [0..n -> D]
  BY <1>4
<1>6. \A k \in 1..n : a[k] = h[k][a[k - 1]]
  BY <1>2, <1>4
<1>7. a[0] = b /\ a[n] = g[1..n]
  BY <1>3
<1> HIDE DEF a
<1>8. QED BY <1>5, <1>6, <1>7 DEF IsWalk

\* There is a walk for any steps.
LEMMA WalksExist ==
    ASSUME NEW n \in Nat, NEW D, NEW b \in D, NEW h \in [1..n -> [D -> D]]
    PROVE  \E a : IsWalk(a, h, b, n, D)
<1>1. PICK g \in [SUBSET (1..n) -> D] : IsFold(g, h, b, n)
  BY FoldsExist
<1>2. Unfolds(g, h, b, n, D)
  <2>1. {} \in SUBSET (1..n)
    OBVIOUS
  <2>2. QED BY <1>1, <2>1 DEF IsFold, Unfolds
<1>3. QED BY <1>2, FoldIsWalk

-----------------------------------------------------------------------------
(* More about sums.                                                        *)

\* Zeros add nothing.
LEMMA SumOfZeros ==
    ASSUME NEW S, IsFiniteSet(S), NEW v, \A x \in S : v[x] \in Int,
           NEW T \in SUBSET S, \A x \in S \ T : v[x] = 0
    PROVE  SumOf(v, S) = SumOf(v, T)
<1> DEFINE G == {U \in SUBSET S : SumOf(v, U) = SumOf(v, U \cap T)}
<1>1. ASSUME NEW U \in SUBSET S, \A V \in SUBSET U : V # U => V \in G
      PROVE  U \in G
  <2>1. CASE U = {}
    <3>1. U \cap T = U
      BY <2>1
    <3>2. QED BY <3>1
  <2>2. CASE U # {}
    <3> DEFINE y == Pick(U)
               rest == U \ {y}
    <3>1. y \in U /\ IsFiniteSet(U) /\ v[y] \in Int
      BY <2>2, PickIsElement, FS_Subset
    <3>2. SumOf(v, U) = v[y] + SumOf(v, rest)
      BY <2>2, <3>1, SumOfPick
    <3> HIDE DEF y
    <3>3. SumOf(v, rest) = SumOf(v, rest \cap T)
      BY <1>1, <3>1
    <3>4. CASE y \in T
      <4> DEFINE both == U \cap T
      <4>1. y \in both /\ both \ {y} = rest \cap T /\ \A x \in both : v[x] \in Int
        BY <3>1, <3>4
      <4>2. IsFiniteSet(both)
        BY <3>1, FS_Subset
      <4> HIDE DEF both
      <4>3. SumOf(v, both) = v[y] + SumOf(v, both \ {y})
        BY <4>1, <4>2, SumOfAdd
      <4>4. QED BY <3>2, <3>3, <4>1, <4>3 DEF both
    <3>5. CASE y \notin T
      <4>1. v[y] = 0 /\ rest \cap T = U \cap T
        BY <3>1, <3>5
      <4>2. SumOf(v, rest) \in Int
        <5>1. IsFiniteSet(rest) /\ \A x \in rest : v[x] \in Int
          BY <3>1, FS_Subset
        <5> HIDE DEF rest
        <5>2. QED BY <5>1, SumOfType
      <4>3. SumOf(v, U) = SumOf(v, rest)
        <5> HIDE DEF rest
        <5>1. QED BY <3>2, <4>1, <4>2
      <4>4. QED BY <3>3, <4>1, <4>3
    <3>6. QED BY <3>4, <3>5
  <2>3. QED BY <2>1, <2>2
<1>2. \A U \in SUBSET S : U \in G
  <2> HIDE DEF G
  <2>1. QED BY <1>1, SubsetInduction
<1>3. S \in SUBSET S /\ S \cap T = T
  OBVIOUS
<1>4. QED BY <1>2, <1>3

\* A sum whose value at one element changes.
LEMMA SumOfOneChanged ==
    ASSUME NEW S, IsFiniteSet(S), NEW v, NEW w, NEW a \in S,
           \A x \in S : v[x] \in Int /\ w[x] \in Int, \A x \in S \ {a} : v[x] = w[x]
    PROVE  SumOf(w, S) = SumOf(v, S) + (w[a] - v[a])
<1> DEFINE rest == S \ {a}
<1>1. IsFiniteSet(rest) /\ \A x \in rest : v[x] \in Int /\ v[x] = w[x]
  BY FS_Subset
<1>2. SumOf(v, S) = v[a] + SumOf(v, rest)
  BY SumOfAdd
<1>3. SumOf(w, S) = w[a] + SumOf(w, rest)
  BY SumOfAdd
<1> HIDE DEF rest
<1>4. SumOf(v, rest) = SumOf(w, rest) /\ SumOf(v, rest) \in Int
  BY <1>1, SumOfEqual, SumOfType
<1>5. QED BY <1>2, <1>3, <1>4

\* A sum of differences.
LEMMA SumOfDifferences ==
    ASSUME NEW S, IsFiniteSet(S), NEW u, NEW v, NEW w,
           \A x \in S : v[x] \in Int /\ w[x] \in Int /\ u[x] = v[x] - w[x]
    PROVE  SumOf(u, S) = SumOf(v, S) - SumOf(w, S)
<1> DEFINE G == {U \in SUBSET S : SumOf(u, U) = SumOf(v, U) - SumOf(w, U)}
<1>1. ASSUME NEW U \in SUBSET S, \A V \in SUBSET U : V # U => V \in G
      PROVE  U \in G
  <2>1. CASE U = {}
    BY <2>1, SumOfEmpty
  <2>2. CASE U # {}
    <3> DEFINE y == Pick(U)
               rest == U \ {y}
    <3>1. y \in U /\ IsFiniteSet(U)
      BY <2>2, PickIsElement, FS_Subset
    <3>2. /\ SumOf(u, U) = u[y] + SumOf(u, rest)
          /\ SumOf(v, U) = v[y] + SumOf(v, rest)
          /\ SumOf(w, U) = w[y] + SumOf(w, rest)
      BY <2>2, <3>1, SumOfPick
    <3> HIDE DEF y
    <3>3. SumOf(u, rest) = SumOf(v, rest) - SumOf(w, rest)
      BY <1>1, <3>1
    <3>4. IsFiniteSet(rest) /\ \A x \in rest : v[x] \in Int /\ w[x] \in Int
      BY <3>1, FS_Subset
    <3> HIDE DEF rest
    <3>5. SumOf(v, rest) \in Int /\ SumOf(w, rest) \in Int
      BY <3>4, SumOfType
    <3>6. v[y] \in Int /\ w[y] \in Int /\ u[y] = v[y] - w[y]
      BY <3>1
    <3>7. QED BY <3>2, <3>3, <3>5, <3>6
  <2>3. QED BY <2>1, <2>2
<1>2. \A U \in SUBSET S : U \in G
  <2> HIDE DEF G
  <2>1. QED BY <1>1, SubsetInduction
<1>3. QED BY <1>2

\* A sum over an interval: its last value comes last,
LEMMA SumToNext ==
    ASSUME NEW n \in Nat, NEW v, \A k \in 1..n : v[k] \in Int, n # 0
    PROVE  /\ SumOf(v, 1..(n - 1)) \in Int
           /\ SumOf(v, 1..n) = SumOf(v, 1..(n - 1)) + v[n]
<1> DEFINE S == 1..n
           T == 1..(n - 1)
<1>1. n \in S /\ S \ {n} = T /\ T \subseteq S
  OBVIOUS
<1>2. IsFiniteSet(S) /\ IsFiniteSet(T)
  BY FS_Interval
<1>3. (\A k \in S : v[k] \in Int) /\ \A k \in T : v[k] \in Int
  BY <1>1
<1> HIDE DEF S, T
<1>4. SumOf(v, S) = v[n] + SumOf(v, T)
  BY <1>1, <1>2, <1>3, SumOfAdd
<1>5. SumOf(v, T) \in Int
  BY <1>2, <1>3, SumOfType
<1>6. v[n] \in Int
  BY <1>1, <1>3
<1>7. QED BY <1>4, <1>5, <1>6 DEF S, T

\* and its first values come first.
LEMMA SumOfTwoParts ==
    ASSUME NEW m \in Nat, NEW n \in Nat, NEW v, NEW w, \A k \in 1..(m + n) : v[k] \in Int,
           \A k \in 1..n : w[k] = v[m + k]
    PROVE  SumOf(v, 1..(m + n)) = SumOf(v, 1..m) + SumOf(w, 1..n)
<1> DEFINE G == {j \in 0..n : SumOf(v, 1..(m + j)) = SumOf(v, 1..m) + SumOf(w, 1..j)}
<1>1. SumOf(v, 1..m) \in Int
  <2>1. IsFiniteSet(1..m) /\ \A k \in 1..m : v[k] \in Int
    BY FS_Interval
  <2>2. QED BY <2>1, SumOfType
<1>2. 0 \in G
  <2>1. 1..0 = {} /\ m + 0 = m /\ 0 \in 0..n
    OBVIOUS
  <2>2. SumOf(w, 1..0) = 0
    BY <2>1, SumOfEmpty
  <2>3. QED BY <1>1, <2>1, <2>2
<1>3. ASSUME NEW j \in 1..n, j - 1 \in G PROVE j \in G
  <2> DEFINE i == m + j
  <2>1. /\ i \in Nat /\ i # 0 /\ i - 1 = m + (j - 1) /\ j \in Nat /\ j # 0
        /\ (\A k \in 1..i : v[k] \in Int) /\ j \in 0..n
    OBVIOUS
  <2>2. \A k \in 1..j : w[k] \in Int
    <3>1. \A k \in 1..j : k \in 1..n /\ m + k \in 1..(m + n)
      OBVIOUS
    <3>2. QED BY <3>1
  <2>3. w[j] = v[i]
    OBVIOUS
  <2> HIDE DEF i
  <2>4. SumOf(v, 1..i) = SumOf(v, 1..(i - 1)) + v[i]
    BY <2>1, SumToNext
  <2>5. SumOf(w, 1..j) = SumOf(w, 1..(j - 1)) + w[j] /\ SumOf(w, 1..(j - 1)) \in Int
    BY <2>1, <2>2, SumToNext
  <2>6. SumOf(v, 1..(i - 1)) = SumOf(v, 1..m) + SumOf(w, 1..(j - 1))
    BY <1>3, <2>1
  <2>7. w[j] \in Int
    BY <2>1, <2>2
  <2>8. SumOf(v, 1..i) = SumOf(v, 1..m) + SumOf(w, 1..j)
    BY <1>1, <2>3, <2>4, <2>5, <2>6, <2>7
  <2>9. QED BY <2>1, <2>8 DEF i
<1>4. n \in G
  <2> HIDE DEF G
  <2>1. n \in 0..n
    OBVIOUS
  <2>2. QED BY <1>2, <1>3, <2>1, IntervalInduction
<1>5. QED BY <1>4

=============================================================================
