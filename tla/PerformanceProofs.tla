-------------------------- MODULE PerformanceProofs --------------------------
(***************************************************************************)
(* What the figures of Performance are for every history of trades,        *)
(* payments and closes.                                                    *)
(***************************************************************************)
EXTENDS Performance, FoldTheorems, SequenceTheorems

-----------------------------------------------------------------------------
(* The drawdown.                                                           *)

\* Falls are fractions with positive denominators.
Falls == Int \X (Nat \ {0})

\* Fractions are ordered.
LEMMA BelowIsTransitive ==
    ASSUME NEW x \in Falls, NEW y \in Falls, NEW z \in Falls, ~Below(y, x), ~Below(z, y)
    PROVE  ~Below(z, x)
<1> DEFINE a == x[1]  b == x[2]  c == y[1]  d == y[2]  e == z[1]  f == z[2]
<1>1. /\ a \in Int /\ b \in Int /\ c \in Int /\ d \in Int /\ e \in Int /\ f \in Int
      /\ 0 < b /\ 0 < d /\ 0 < f
      /\ a * d <= c * b /\ c * f <= e * d
  BY DEF Falls, Below
<1> SUFFICES ~(e * b < a * f)
  BY DEF Below
<1> HIDE DEF a, b, c, d, e, f
<1>2. \A p, q, k \in Int : p <= q /\ 0 < k => p * k <= q * k
  BY SMTT(20)
<1>3. (a * d) * f <= (c * b) * f /\ (c * f) * b <= (e * d) * b
  BY <1>1, <1>2
<1>4. (a * f) * d <= (e * b) * d
  <2>1. \A p, q, k \in Int : (p * q) * k = (p * k) * q
    BY SMTT(20)
  <2>2. (a * d) * f = (a * f) * d /\ (c * b) * f = (c * f) * b /\ (e * d) * b = (e * b) * d
    BY <1>1, <2>1
  <2>3. QED BY <1>1, <1>3, <2>2
<1>5. \A p, q, k \in Int : p < q /\ 0 < k => p * k < q * k
  BY SMTT(20)
<1>6. QED BY <1>1, <1>4, <1>5

\* A fall from a higher peak is deeper.
LEMMA HigherIsDeeper ==
    ASSUME NEW p \in Nat \ {0}, NEW q \in Nat \ {0}, p <= q, NEW n \in Nat \ {0}
    PROVE  ~Below(<<n - p, p>>, <<n - q, q>>)
<1>1. n * p <= n * q
  BY SMTT(20)
<1>2. (n - q) * p = n * p - q * p /\ (n - p) * q = n * q - p * q /\ q * p = p * q
  BY SMTT(20)
<1>3. QED BY <1>1, <1>2 DEF Below

LEMMA BelowIsStrict ==
    ASSUME NEW x \in Falls, NEW y \in Falls
    PROVE  ~Below(x, x) /\ (Below(x, y) => ~Below(y, x))
<1> DEFINE a == x[1]  b == x[2]  c == y[1]  d == y[2]
<1>1. a \in Int /\ b \in Int /\ c \in Int /\ d \in Int
  BY DEF Falls
<1> SUFFICES ~(a * b < a * b) /\ (a * d < c * b => ~(c * b < a * d))
  BY DEF Below
<1> HIDE DEF a, b, c, d
<1>2. a * b \in Int /\ a * d \in Int /\ c * b \in Int
  BY <1>1
<1>3. QED BY <1>2

\* How far the loop over the days has got.
Walk == [peak : Nat \ {0}, worst : Falls]
FirstPeak(navs) == [peak |-> navs[1], worst |-> <<0, 1>>]
DeeperAt(navs) == [k \in 1..Len(navs) |-> [m \in Walk |-> Deeper(m, navs[k])]]

LEMMA DeeperType ==
    ASSUME NEW m \in Walk, NEW nav \in Nat \ {0}
    PROVE  /\ Deeper(m, nav) \in Walk
           /\ Deeper(m, nav).peak = IF m.peak >= nav THEN m.peak ELSE nav
<1>1. m.peak \in Nat \ {0} /\ m.worst \in Falls
  BY DEF Walk
<1> DEFINE peak == PeakAfter(m.peak, nav)
           fall == <<nav - peak, peak>>
<1>2. peak = IF m.peak >= nav THEN m.peak ELSE nav
  BY <1>1, MaxOfTwo DEF PeakAfter
<1>3. peak \in Nat \ {0}
  BY <1>1, <1>2
<1>4. fall \in Falls
  <2> HIDE DEF peak
  <2>1. QED BY <1>3 DEF Falls
<1>5. Deeper(m, nav) = [peak |-> peak, worst |-> IF Below(fall, m.worst) THEN fall ELSE m.worst]
  BY DEF Deeper
<1> HIDE DEF peak, fall
<1>6. QED BY <1>1, <1>2, <1>3, <1>4, <1>5 DEF Walk

LEMMA DrawdownIsWalk ==
    ASSUME NEW navs \in Seq(Nat \ {0}), navs # <<>>
    PROVE  \E a : /\ IsWalk(a, DeeperAt(navs), FirstPeak(navs), Len(navs), Walk)
                  /\ a[Len(navs)] = FoldLeft(Deeper, FirstPeak(navs), navs)
<1> DEFINE n == Len(navs)
           b == FirstPeak(navs)
           h == DeeperAt(navs)
           Is(g) == g = [s \in SUBSET DOMAIN navs |->
                           IF s = {} THEN b
                           ELSE LET x == Max(s) IN Deeper(g[s \ {x}], navs[x])]
           it == CHOOSE g : Is(g)
<1>1. n \in Nat /\ DOMAIN navs = 1..n /\ n # 0 /\ \A k \in 1..n : navs[k] \in Nat \ {0}
  OBVIOUS
<1>2. h \in [1..n -> [Walk -> Walk]]
  BY DeeperType, <1>1 DEF DeeperAt
<1>3. b \in Walk
  <2>1. navs[1] \in Nat \ {0}
    BY <1>1
  <2>2. QED BY <2>1 DEF FirstPeak, Walk, Falls
<1>4. \A k \in 1..n : \A m \in Walk : h[k][m] = Deeper(m, navs[k])
  BY DEF DeeperAt
<1> HIDE DEF n, b, h
<1>5. PICK g \in [SUBSET (1..n) -> Walk] : IsFold(g, h, b, n)
  BY <1>1, <1>2, <1>3, FoldsExist
<1>6. Is(g)
  <2>1. ASSUME NEW s \in SUBSET (1..n), s # {}
        PROVE  h[Max(s)][g[s \ {Max(s)}]] = Deeper(g[s \ {Max(s)}], navs[Max(s)])
    <3>1. Max(s) \in 1..n /\ g[s \ {Max(s)}] \in Walk
      BY <1>1, <2>1, LastIndex
    <3>2. QED BY <3>1, <1>4
  <2>2. QED BY <2>1, <1>1, <1>5 DEF IsFold
<1>7. Is(it)
  <2> HIDE DEF Is
  <2>1. QED BY <1>6
<1>8. FoldLeft(Deeper, b, navs) = it[1..n]
  BY <1>1 DEF FoldLeft, MapThenFoldSet
<1>9. Unfolds(it, h, b, n, Walk)
  <2> HIDE DEF it
  <2>1. it[{}] = b
    BY <1>1, <1>7
  <2>2. ASSUME NEW s \in SUBSET (1..n), s # {}, it[s \ {Max(s)}] \in Walk
        PROVE  it[s] = h[Max(s)][it[s \ {Max(s)}]]
    <3>1. Max(s) \in 1..n
      BY <1>1, <2>2, LastIndex
    <3>2. it[s] = Deeper(it[s \ {Max(s)}], navs[Max(s)])
      BY <1>1, <1>7, <2>2
    <3>3. QED BY <3>1, <3>2, <2>2, <1>4
  <2>3. QED BY <2>1, <2>2, <1>1, <1>2, <1>3 DEF Unfolds
<1> HIDE DEF it
<1>10. QED BY <1>8, <1>9, FoldIsWalk DEF n, b, h

\* The peak so far is that of a day so far, and the fall the deepest so far.
IsPeak(peak, navs, k) ==
    /\ \E i \in 1..Len(navs) : (i <= k \/ i = 1) /\ peak = navs[i]
    /\ \A i \in 1..k : navs[i] <= peak
IsDeepestTo(fall, navs, k) ==
    /\ \A i, j \in 1..k : i <= j => ~Below(Fall(navs, i, j), fall)
    /\ fall = <<0, 1>> \/ \E i, j \in 1..k : i <= j /\ fall = Fall(navs, i, j)

LEMMA FallType ==
    ASSUME NEW navs \in Seq(Nat \ {0}), NEW i \in 1..Len(navs), NEW j \in 1..Len(navs)
    PROVE  Fall(navs, i, j) \in Falls
<1>1. navs[i] \in Nat \ {0} /\ navs[j] \in Nat \ {0}
  OBVIOUS
<1>2. QED BY <1>1 DEF Fall, Falls

LEMMA DeeperStep ==
    ASSUME NEW navs \in Seq(Nat \ {0}), NEW k \in 1..Len(navs), NEW m \in Walk,
           IsPeak(m.peak, navs, k - 1), IsDeepestTo(m.worst, navs, k - 1)
    PROVE  /\ IsPeak(Deeper(m, navs[k]).peak, navs, k)
           /\ IsDeepestTo(Deeper(m, navs[k]).worst, navs, k)
<1> DEFINE nav == navs[k]
           peak == Deeper(m, nav).peak
           worst == Deeper(m, nav).worst
           fall == <<nav - peak, peak>>
<1>0. nav \in Nat \ {0}
  OBVIOUS
<1>1. /\ nav \in Nat \ {0} /\ Deeper(m, nav) \in Walk
      /\ peak = IF m.peak >= nav THEN m.peak ELSE nav
  <2> HIDE DEF nav
  <2>1. QED BY <1>0, DeeperType
<1>2. peak \in Nat \ {0} /\ m.peak \in Nat \ {0} /\ worst \in Falls /\ m.worst \in Falls
  BY <1>1 DEF Walk
<1>3. worst = IF Below(fall, m.worst) THEN fall ELSE m.worst
  BY DEF Deeper
<1>4. \A i \in 1..Len(navs) : navs[i] \in Nat \ {0}
  OBVIOUS
<1> HIDE DEF peak, worst
<1>5. \A i \in 1..k : navs[i] <= peak
  <2>1. ASSUME NEW i \in 1..k PROVE navs[i] <= peak
    <3>1. CASE i = k
      BY <1>1, <1>2, <3>1
    <3>2. CASE i # k
      <4>1. navs[i] <= m.peak /\ navs[i] \in Nat
        BY <3>2, <1>4 DEF IsPeak
      <4>2. QED BY <4>1, <1>1, <1>2
    <3>3. QED BY <3>1, <3>2
  <2>2. QED BY <2>1
<1>6. \E i \in 1..Len(navs) : i <= k /\ peak = navs[i]
  <2>1. CASE m.peak >= nav
    <3>1. PICK i \in 1..Len(navs) : (i <= k - 1 \/ i = 1) /\ m.peak = navs[i]
      BY DEF IsPeak
    <3>2. i <= k
      BY <3>1
    <3>3. QED BY <3>1, <3>2, <2>1, <1>1
  <2>2. CASE ~(m.peak >= nav)
    BY <2>2, <1>1
  <2>3. QED BY <2>1, <2>2
<1>7. IsPeak(peak, navs, k)
  BY <1>5, <1>6 DEF IsPeak
<1>8. PICK top \in 1..Len(navs) : top <= k /\ peak = navs[top]
  BY <1>6
<1>9. fall = Fall(navs, top, k) /\ fall \in Falls
  BY <1>8, FallType DEF Fall
<1>10. ~Below(fall, worst) /\ ~Below(m.worst, worst)
  <2> HIDE DEF fall
  <2>1. QED BY <1>2, <1>3, <1>9, BelowIsStrict
<1>11. ASSUME NEW i \in 1..k, NEW j \in 1..k, i <= j
       PROVE  ~Below(Fall(navs, i, j), worst)
  <2>0. i \in 1..Len(navs) /\ j \in 1..Len(navs) /\ Fall(navs, i, j) \in Falls
    BY FallType
  <2>1. CASE j = k
    <3>1. ~Below(Fall(navs, i, j), fall)
      <4>1. navs[i] \in Nat \ {0} /\ navs[i] <= peak
        BY <1>4, <1>5, <2>0
      <4>2. ~Below(<<nav - navs[i], navs[i]>>, <<nav - peak, peak>>)
        BY <4>1, <1>1, <1>2, HigherIsDeeper
      <4>3. QED BY <4>2, <2>1 DEF Fall
    <3> HIDE DEF fall
    <3>2. QED BY <3>1, <2>0, <1>2, <1>9, <1>10, BelowIsTransitive
  <2>2. CASE j # k
    <3>1. i \in 1..(k - 1) /\ j \in 1..(k - 1)
      BY <1>11, <2>2
    <3>2. ~Below(Fall(navs, i, j), m.worst)
      BY <3>1, <1>11 DEF IsDeepestTo
    <3>3. QED BY <3>2, <2>0, <1>2, <1>10, BelowIsTransitive
  <2>3. QED BY <2>1, <2>2
<1>12. worst = <<0, 1>> \/ \E i, j \in 1..k : i <= j /\ worst = Fall(navs, i, j)
  <2>1. CASE Below(fall, m.worst)
    <3>1. worst = Fall(navs, top, k)
      BY <2>1, <1>3, <1>9
    <3>2. top \in 1..k /\ k \in 1..k
      BY <1>8
    <3>3. QED BY <3>1, <3>2
  <2>2. CASE ~Below(fall, m.worst)
    <3>1. worst = m.worst
      BY <2>2, <1>3
    <3>2. \A i \in 1..(k - 1) : i \in 1..k
      OBVIOUS
    <3>3. QED BY <3>1, <3>2 DEF IsDeepestTo
  <2>3. QED BY <2>1, <2>2
<1>13. IsDeepestTo(worst, navs, k)
  BY <1>11, <1>12 DEF IsDeepestTo
<1>14. QED BY <1>7, <1>13 DEF peak, worst

\* _max_drawdown finds the deepest fall between any two days, in one pass.
THEOREM DrawdownIsDeepestFall ==
    ASSUME NEW navs \in Seq(Nat \ {0})
    PROVE  IsDeepest(MaxDrawdown(navs), navs)
<1>1. DOMAIN navs = 1..Len(navs) /\ Len(navs) \in Nat /\ \A i \in 1..Len(navs) : navs[i] \in Nat \ {0}
  OBVIOUS
<1>2. CASE Len(navs) < 2
  <2>1. \A i, j \in 1..Len(navs) : i <= j => ~Below(Fall(navs, i, j), <<0, 1>>)
    <3>1. ASSUME NEW i \in 1..Len(navs), NEW j \in 1..Len(navs)
          PROVE  ~Below(Fall(navs, i, j), <<0, 1>>)
      <4>1. i = j /\ navs[i] \in Nat \ {0}
        BY <1>1, <1>2
      <4>2. Fall(navs, i, j) = <<0, navs[i]>>
        BY <4>1 DEF Fall
      <4>3. QED BY <4>1, <4>2 DEF Below
    <3>2. QED BY <3>1
  <2>2. MaxDrawdown(navs) = <<0, 1>>
    BY <1>2 DEF MaxDrawdown
  <2>3. QED BY <2>1, <2>2, <1>1 DEF IsDeepest
<1>3. CASE ~(Len(navs) < 2)
  <2> DEFINE n == Len(navs)
  <2>1. navs # <<>> /\ n \in Nat /\ 1 \in 1..n
    BY <1>1, <1>3
  <2>2. PICK a : IsWalk(a, DeeperAt(navs), FirstPeak(navs), n, Walk)
                 /\ a[n] = FoldLeft(Deeper, FirstPeak(navs), navs)
    BY <2>1, DrawdownIsWalk
  <2> DEFINE G == {k \in 0..n : IsPeak(a[k].peak, navs, k) /\ IsDeepestTo(a[k].worst, navs, k)}
  <2>3. 0 \in G
    <3>1. a[0].peak = navs[1] /\ a[0].worst = <<0, 1>>
      BY <2>2 DEF IsWalk, FirstPeak
    <3>2. IsPeak(a[0].peak, navs, 0) /\ IsDeepestTo(a[0].worst, navs, 0)
      BY <2>1, <3>1 DEF IsPeak, IsDeepestTo
    <3>3. QED BY <3>2, <2>1
  <2>4. ASSUME NEW k \in 1..n, k - 1 \in G PROVE k \in G
    <3>1. a[k - 1] \in Walk
      BY <2>2, <2>4 DEF IsWalk
    <3>2. a[k] = Deeper(a[k - 1], navs[k])
      BY <2>2, <3>1 DEF IsWalk, DeeperAt
    <3>3. IsPeak(a[k].peak, navs, k) /\ IsDeepestTo(a[k].worst, navs, k)
      BY <2>4, <3>1, <3>2, DeeperStep
    <3>4. QED BY <3>3, <2>1
  <2>5. n \in G
    <3> HIDE DEF G
    <3>1. n \in 0..n
      BY <2>1
    <3>2. QED BY <2>1, <2>3, <2>4, <3>1, IntervalInduction
  <2>6. MaxDrawdown(navs) = a[n].worst
    BY <1>3, <2>2 DEF MaxDrawdown, FirstPeak
  <2>7. QED BY <2>5, <2>6, <1>1 DEF IsDeepest, IsDeepestTo
<1>4. QED BY <1>2, <1>3

-----------------------------------------------------------------------------
(* What the tables hold.                                                   *)

HistoryOK ==
    /\ past \in Seq(Day)
    /\ trades \in Seq(Orders)
    /\ flow \in Int

LEMMA HistoryInvariant == Spec => []HistoryOK
<1>1. Init => HistoryOK
  BY DEF Init, HistoryOK
<1>2. HistoryOK /\ [Next]_vars => HistoryOK'
  <2> SUFFICES ASSUME HistoryOK, [Next]_vars PROVE HistoryOK'
    OBVIOUS
  <2> USE DEF HistoryOK
  <2>1. ASSUME NEW order \in Orders, Trade(order) PROVE HistoryOK'
    BY <2>1 DEF Trade
  <2>2. ASSUME NEW amount \in Flows, Pay(amount) PROVE HistoryOK'
    BY <2>2, PerformanceAssumption DEF Pay
  <2>3. ASSUME NEW quote \in Quotes, EndDay(quote) PROVE HistoryOK'
    <3>1. [trades |-> trades, flow |-> flow, quote |-> quote] \in Day
      BY DEF Day
    <3>2. QED BY <2>3, <3>1 DEF EndDay
  <2>4. CASE UNCHANGED vars
    BY <2>4 DEF vars
  <2>5. QED BY <2>1, <2>2, <2>3, <2>4 DEF Next
<1>3. QED BY <1>1, <1>2, PTL DEF Spec

\* The rows of the first days are trades.
RowsStep(days, n) == [k \in 1..n |-> [all \in Seq(Orders) |-> all \o days[k].trades]]

LEMMA RowsAreWalk ==
    ASSUME NEW days \in Seq(Day), NEW n \in 0..Len(days)
    PROVE  \E a : IsWalk(a, RowsStep(days, n), <<>>, n, Seq(Orders)) /\ a[n] = TradesTo(days, n)
<1> DEFINE seq == SubSeq(days, 1, n)
           h == RowsStep(days, n)
           Is(g) == g = [s \in SUBSET DOMAIN seq |->
                           IF s = {} THEN <<>>
                           ELSE LET x == Max(s) IN g[s \ {x}] \o seq[x].trades]
           it == CHOOSE g : Is(g)
<1>1. n \in Nat /\ DOMAIN seq = 1..n /\ \A k \in 1..n : seq[k] = days[k] /\ days[k].trades \in Seq(Orders)
  <2>1. \A k \in 1..n : days[k] \in Day
    OBVIOUS
  <2>2. QED BY <2>1 DEF Day
<1>2. h \in [1..n -> [Seq(Orders) -> Seq(Orders)]]
  BY <1>1 DEF RowsStep
<1>3. <<>> \in Seq(Orders)
  OBVIOUS
<1>4. \A k \in 1..n : \A all \in Seq(Orders) : h[k][all] = all \o seq[k].trades
  BY <1>1 DEF RowsStep
<1> HIDE DEF h, seq
<1>5. PICK g \in [SUBSET (1..n) -> Seq(Orders)] : IsFold(g, h, <<>>, n)
  BY <1>1, <1>2, <1>3, FoldsExist
<1>6. Is(g)
  <2>1. ASSUME NEW s \in SUBSET (1..n), s # {}
        PROVE  h[Max(s)][g[s \ {Max(s)}]] = g[s \ {Max(s)}] \o seq[Max(s)].trades
    <3>1. Max(s) \in 1..n /\ g[s \ {Max(s)}] \in Seq(Orders)
      BY <1>1, <2>1, LastIndex
    <3>2. QED BY <3>1, <1>4
  <2>2. QED BY <2>1, <1>1, <1>5 DEF IsFold
<1>7. Is(it)
  <2> HIDE DEF Is
  <2>1. QED BY <1>6
<1>8. TradesTo(days, n) = it[1..n]
  BY <1>1 DEF TradesTo, FoldLeft, MapThenFoldSet, seq
<1>9. Unfolds(it, h, <<>>, n, Seq(Orders))
  <2> HIDE DEF it
  <2>1. it[{}] = <<>>
    BY <1>1, <1>7
  <2>2. ASSUME NEW s \in SUBSET (1..n), s # {}, it[s \ {Max(s)}] \in Seq(Orders)
        PROVE  it[s] = h[Max(s)][it[s \ {Max(s)}]]
    <3>1. Max(s) \in 1..n
      BY <1>1, <2>2, LastIndex
    <3>2. it[s] = it[s \ {Max(s)}] \o seq[Max(s)].trades
      BY <1>1, <1>7, <2>2
    <3>3. QED BY <3>1, <3>2, <2>2, <1>4
  <2>3. QED BY <2>1, <2>2, <1>1, <1>2, <1>3 DEF Unfolds
<1> HIDE DEF it
<1>10. QED BY <1>8, <1>9, FoldIsWalk DEF h

LEMMA RowsType ==
    ASSUME NEW days \in Seq(Day), NEW n \in 0..Len(days)
    PROVE  TradesTo(days, n) \in Seq(Orders)
<1>1. PICK a : IsWalk(a, RowsStep(days, n), <<>>, n, Seq(Orders)) /\ a[n] = TradesTo(days, n)
  BY RowsAreWalk
<1>2. n \in 0..n
  OBVIOUS
<1>3. QED BY <1>1, <1>2 DEF IsWalk

\* Days without a trade bring no rows,
LEMMA NoTradesNoRows ==
    ASSUME NEW days \in Seq(Day), NEW n \in 0..Len(days), \A i \in 1..n : days[i].trades = <<>>
    PROVE  TradesTo(days, n) = <<>>
<1>1. n \in Nat /\ n \in 0..n
  OBVIOUS
<1>2. PICK a : IsWalk(a, RowsStep(days, n), <<>>, n, Seq(Orders)) /\ a[n] = TradesTo(days, n)
  BY RowsAreWalk
<1> DEFINE G == {k \in 0..n : a[k] = <<>>}
<1>3. 0 \in G
  BY <1>1, <1>2 DEF IsWalk
<1>4. ASSUME NEW k \in 1..n, k - 1 \in G PROVE k \in G
  <2>1. a[k - 1] = <<>> /\ <<>> \in Seq(Orders)
    BY <1>4
  <2>2. a[k] = a[k - 1] \o days[k].trades
    BY <1>2, <2>1 DEF IsWalk, RowsStep
  <2>3. QED BY <1>1, <2>1, <2>2
<1>5. n \in G
  <2> HIDE DEF G
  <2>1. QED BY <1>1, <1>3, <1>4, IntervalInduction
<1>6. QED BY <1>2, <1>5

\* so with a row there is a day of the first trade, and no row before it.
LEMMA FirstTradeType ==
    ASSUME NEW days \in Seq(Day), TradesTo(days, Len(days)) # <<>>
    PROVE  /\ FirstTrade(days) \in 1..Len(days)
           /\ \A d \in 1..Len(days) : d < FirstTrade(days) => TradesTo(days, d) = <<>>
<1> DEFINE n == Len(days)
           T == {i \in 1..n : days[i].trades # <<>>}
           first == FirstTrade(days)
<1>1. n \in Nat /\ n \in 0..n
  OBVIOUS
<1>2. T # {}
  BY <1>1, NoTradesNoRows
<1>3. IsFiniteSet(T) /\ T \subseteq Int
  <2>1. IsFiniteSet(1..n) /\ T \subseteq 1..n /\ T \subseteq Int
    BY FS_Interval
  <2> HIDE DEF T
  <2>2. QED BY <2>1, FS_Subset
<1>4. first \in T /\ \A i \in T : first <= i
  <2>1. first = Min(T)
    BY DEF FirstTrade
  <2> HIDE DEF T, first
  <2>2. QED BY <1>2, <1>3, <2>1, MinIsElement
<1>5. ASSUME NEW d \in 1..n, d < first PROVE TradesTo(days, d) = <<>>
  <2>1. d \in 0..n
    BY <1>1
  <2>2. ASSUME NEW i \in 1..d PROVE days[i].trades = <<>>
    <3>1. i \in 1..n /\ i <= d /\ first \in Int
      BY <1>1, <1>4
    <3> HIDE DEF first
    <3>2. i \notin T
      <4> HIDE DEF T
      <4>1. QED BY <3>1, <1>4, <1>5
    <3>3. QED BY <3>1, <3>2
  <2>3. QED BY <2>1, <2>2, NoTradesNoRows
<1>6. QED BY <1>4, <1>5

-----------------------------------------------------------------------------
(* The replay.                                                             *)

Marks == UNION {[T -> Nat \ {0}] : T \in SUBSET Symbols}
Points == [day : Nat, nav : Nat \ {0}, base : Nat, sound : BOOLEAN,
           ret : (Int \X Int) \cup {NoReturn}]
Account == [holdings : [Symbols -> Int], cash : Int, flow : Int, debt : BOOLEAN]
Run == [holdings : [Symbols -> Int], cash : Int, last : Marks, rows : Nat,
        prev : Nat, sound : BOOLEAN, points : Seq(Points)]

LEMMA OrderType ==
    ASSUME NEW t \in Orders
    PROVE  /\ t.symbol \in Symbols /\ t.side \in {"BUY", "SELL"}
           /\ t.qty \in Nat /\ t.price \in Nat /\ t.fee \in Nat
           /\ t.qty * t.price \in Nat
<1>1. t \in [symbol : Symbols, side : {"BUY", "SELL"}, qty : Nat \ {0}, price : Nat, fee : Nat]
  BY PerformanceAssumption
<1>2. \A p, q \in Nat : p * q \in Nat
  OBVIOUS
<1>3. QED BY <1>1, <1>2

LEMMA CashType ==
    ASSUME NEW cash \in Int, NEW t \in Orders
    PROVE  /\ ApplyTradeCash(cash, t).cash \in Int
           /\ ApplyTradeCash(cash, t).implicit \in Int
<1> DEFINE c == t.qty * t.price
<1>1. c \in Nat /\ t.fee \in Nat /\ t.side \in {"BUY", "SELL"}
  BY OrderType
<1>2. Max({cash, 0}) \in Int
  BY MaxOfTwo
<1>3. ApplyTradeCash(cash, t) =
        CASE t.side = "SELL"                      -> [cash |-> cash + c - t.fee, implicit |-> 0]
          [] t.side = "BUY" /\ cash >= c + t.fee  -> [cash |-> cash - (c + t.fee), implicit |-> 0]
          [] t.side = "BUY" /\ cash < c + t.fee   -> [cash |-> 0, implicit |-> c + t.fee - Max({cash, 0})]
  BY DEF ApplyTradeCash
<1> HIDE DEF c
<1>4. CASE t.side = "SELL"
  BY <1>1, <1>3, <1>4
<1>5. CASE t.side = "BUY" /\ cash >= c + t.fee
  BY <1>1, <1>3, <1>5
<1>6. CASE t.side = "BUY" /\ cash < c + t.fee
  BY <1>1, <1>2, <1>3, <1>6
<1>7. QED BY <1>1, <1>4, <1>5, <1>6

LEMMA ReplayedType ==
    ASSUME NEW lotOnly \in BOOLEAN, NEW r \in Account, NEW t \in Orders
    PROVE  Replayed(lotOnly, r, t) \in Account
<1> DEFINE paid == ApplyTradeCash(r.cash, t)
           cost == t.qty * t.price + t.fee
           cash == IF lotOnly THEN r.cash ELSE paid.cash
           inflow == r.flow + IF lotOnly THEN cost ELSE paid.implicit
           debt == r.debt \/ (~lotOnly /\ t.side = "BUY" /\ r.cash < 0)
           held == [r.holdings EXCEPT ![t.symbol] = IF t.side = "BUY" THEN @ + t.qty ELSE @ - t.qty]
<1>1. r.holdings \in [Symbols -> Int] /\ r.cash \in Int /\ r.flow \in Int /\ r.debt \in BOOLEAN
  BY DEF Account
<1>2. Replayed(lotOnly, r, t) =
         [r EXCEPT !.cash = cash, !.flow = inflow, !.debt = debt, !.holdings = held]
  BY DEF Replayed
<1>3. cost \in Int /\ paid.cash \in Int /\ paid.implicit \in Int
  BY <1>1, CashType, OrderType
<1>4. cash \in Int /\ inflow \in Int
  <2> HIDE DEF paid, cost
  <2>1. QED BY <1>1, <1>3
<1>5. debt \in BOOLEAN
  OBVIOUS
<1>6. held \in [Symbols -> Int]
  BY <1>1, OrderType
<1> HIDE DEF cash, inflow, debt, held
<1>7. QED BY <1>1, <1>2, <1>4, <1>5, <1>6 DEF Account

\* The rows of a day, replayed one after the other.
ReplayStep(lotOnly, rows) ==
    [k \in 1..Len(rows) |-> [r \in Account |-> Replayed(lotOnly, r, rows[k])]]

LEMMA ReplayedIsWalk ==
    ASSUME NEW lotOnly \in BOOLEAN, NEW b \in Account, NEW rows \in Seq(Orders)
    PROVE  \E a : /\ IsWalk(a, ReplayStep(lotOnly, rows), b, Len(rows), Account)
                  /\ a[Len(rows)] = ReplayedRows(lotOnly, b, rows)
<1> DEFINE n == Len(rows)
           h == ReplayStep(lotOnly, rows)
           Is(g) == g = [s \in SUBSET DOMAIN rows |->
                           IF s = {} THEN b
                           ELSE LET x == Max(s) IN Replayed(lotOnly, g[s \ {x}], rows[x])]
           it == CHOOSE g : Is(g)
<1>1. n \in Nat /\ DOMAIN rows = 1..n /\ \A k \in 1..n : rows[k] \in Orders
  OBVIOUS
<1>2. h \in [1..n -> [Account -> Account]]
  BY ReplayedType, <1>1 DEF ReplayStep
<1>3. \A k \in 1..n : \A r \in Account : h[k][r] = Replayed(lotOnly, r, rows[k])
  BY DEF ReplayStep
<1> HIDE DEF n, h
<1>4. PICK g \in [SUBSET (1..n) -> Account] : IsFold(g, h, b, n)
  BY <1>1, <1>2, FoldsExist
<1>5. Is(g)
  <2>1. ASSUME NEW s \in SUBSET (1..n), s # {}
        PROVE  h[Max(s)][g[s \ {Max(s)}]] = Replayed(lotOnly, g[s \ {Max(s)}], rows[Max(s)])
    <3>1. Max(s) \in 1..n /\ g[s \ {Max(s)}] \in Account
      BY <1>1, <2>1, LastIndex
    <3>2. QED BY <3>1, <1>3
  <2>2. QED BY <2>1, <1>1, <1>4 DEF IsFold
<1>6. Is(it)
  <2> HIDE DEF Is
  <2>1. QED BY <1>5
<1>7. ReplayedRows(lotOnly, b, rows) = it[1..n]
  BY <1>1 DEF ReplayedRows, FoldLeft, MapThenFoldSet
<1>8. Unfolds(it, h, b, n, Account)
  <2> HIDE DEF it
  <2>1. it[{}] = b
    BY <1>1, <1>6
  <2>2. ASSUME NEW s \in SUBSET (1..n), s # {}, it[s \ {Max(s)}] \in Account
        PROVE  it[s] = h[Max(s)][it[s \ {Max(s)}]]
    <3>1. Max(s) \in 1..n
      BY <1>1, <2>2, LastIndex
    <3>2. it[s] = Replayed(lotOnly, it[s \ {Max(s)}], rows[Max(s)])
      BY <1>1, <1>6, <2>2
    <3>3. QED BY <3>1, <3>2, <2>2, <1>3
  <2>3. QED BY <2>1, <2>2, <1>1, <1>2 DEF Unfolds
<1> HIDE DEF it
<1>9. QED BY <1>7, <1>8, FoldIsWalk DEF n, h

LEMMA WalkEnds ==
    ASSUME NEW n \in Nat, NEW D, NEW b, NEW h, NEW a, IsWalk(a, h, b, n, D)
    PROVE  a[n] \in D
  BY DEF IsWalk

LEMMA RecordedType ==
    ASSUME NEW lotOnly \in BOOLEAN, NEW r \in Account, NEW amount \in Int
    PROVE  Recorded(r, lotOnly, amount) \in Account
<1> DEFINE cash == IF lotOnly THEN r.cash ELSE r.cash + amount
           inflow == r.flow + amount
<1>1. cash \in Int /\ inflow \in Int
  BY DEF Account
<1>2. Recorded(r, lotOnly, amount) = [r EXCEPT !.cash = cash, !.flow = inflow]
  BY DEF Recorded
<1> HIDE DEF cash, inflow
<1>3. QED BY <1>1, <1>2 DEF Account

LEMMA QuoteType ==
    ASSUME NEW quote \in Quotes, quote # NoBar
    PROVE  DOMAIN quote \subseteq Symbols /\ \A s \in DOMAIN quote : quote[s] \in Nat \ {0}
<1>1. DOMAIN quote \subseteq Symbols /\ Range(quote) \subseteq Nat \ {0}
  BY PerformanceAssumption
<1>2. \A s \in DOMAIN quote : quote[s] \in Range(quote)
  BY DEF Range
<1>3. QED BY <1>1, <1>2

LEMMA MarkedType ==
    ASSUME NEW last \in Marks, NEW quote \in Quotes, quote # NoBar,
           NEW holdings \in [Symbols -> Int]
    PROVE  Marked(last, quote, holdings) \in Marks
<1> DEFINE new == DOMAIN quote \cap Held(holdings)
           marked(s) == IF s \in new THEN quote[s] ELSE last[s]
<1>1. PICK T \in SUBSET Symbols : last \in [T -> Nat \ {0}]
  BY DEF Marks
<1>2. Marked(last, quote, holdings) = [s \in new \cup T |-> marked(s)]
  BY <1>1 DEF Marked
<1>3. new \cup T \in SUBSET Symbols
  BY <1>1, QuoteType
<1>4. \A s \in new \cup T : marked(s) \in Nat \ {0}
  BY <1>1, QuoteType
<1> HIDE DEF new, marked
<1>5. Marked(last, quote, holdings) \in [new \cup T -> Nat \ {0}]
  BY <1>2, <1>4
<1>6. QED BY <1>3, <1>5 DEF Marks

\* Equity is a sum over what is held and priced.
Valued(holdings, last) == Held(holdings) \cap DOMAIN last
Value(holdings, last) == [s \in Valued(holdings, last) |-> holdings[s] * last[s]]

LEMMA EquityIsSum ==
    ASSUME NEW holdings, NEW last
    PROVE  Equity(holdings, last) = SumOf(Value(holdings, last), Valued(holdings, last))
  BY SumFunctionIsSum DEF Equity, Value, Valued

LEMMA EquityType ==
    ASSUME NEW holdings \in [Symbols -> Int], NEW last \in Marks
    PROVE  Equity(holdings, last) \in Int
<1> DEFINE S == Valued(holdings, last)
           v == Value(holdings, last)
<1>1. PICK T \in SUBSET Symbols : last \in [T -> Nat \ {0}]
  BY DEF Marks
<1>2. S \subseteq Symbols /\ IsFiniteSet(S)
  <2>1. S \subseteq Symbols
    BY <1>1 DEF Valued
  <2> HIDE DEF S
  <2>2. QED BY <2>1, PerformanceAssumption, FS_Subset
<1>3. \A s \in S : v[s] \in Int
  BY <1>1, <1>2 DEF Value, Valued
<1>4. Equity(holdings, last) = SumOf(v, S)
  BY EquityIsSum
<1>5. SumOf(v, S) \in Int
  <2> HIDE DEF v, S
  <2>1. \A p, q \in Int : p + q \in Int
    OBVIOUS
  <2>2. QED BY <2>1, <1>2, <1>3, SumOfType
<1>6. QED BY <1>4, <1>5

LEMMA PointType ==
    ASSUME NEW r \in Run, NEW d \in Nat, NEW nav \in Nat \ {0}, NEW inflow \in Int,
           NEW sound \in BOOLEAN
    PROVE  Point(r, d, nav, inflow, sound) \in Points
<1> DEFINE ret == IF r.prev = 0 THEN NoReturn ELSE Clamped(nav - r.prev - inflow, r.prev)
           fine == sound /\ r.sound
<1>1. r.prev \in Nat
  BY DEF Run
<1>2. \A gain, base \in Int : Clamped(gain, base) \in Int \X Int
  BY DEF Clamped
<1>3. ret \in (Int \X Int) \cup {NoReturn}
  <2>1. nav - r.prev - inflow \in Int /\ r.prev \in Int
    BY <1>1
  <2>2. Clamped(nav - r.prev - inflow, r.prev) \in Int \X Int
    BY <2>1, <1>2
  <2>3. QED BY <2>2
<1>4. fine \in BOOLEAN
  OBVIOUS
<1>5. Point(r, d, nav, inflow, sound)
        = [day |-> d, nav |-> nav, base |-> r.prev, sound |-> fine, ret |-> ret]
  BY DEF Point
<1> HIDE DEF ret, fine
<1>6. QED BY <1>1, <1>3, <1>4, <1>5 DEF Points

LEMMA DayType ==
    ASSUME NEW days \in Seq(Day), NEW d \in 1..Len(days)
    PROVE  days[d].trades \in Seq(Orders) /\ days[d].flow \in Int /\ days[d].quote \in Quotes
<1>1. days[d] \in Day
  OBVIOUS
<1>2. QED BY <1>1 DEF Day

\* What a session makes of the run: the rows that are still to come, the account
\* before and after them, the closes and the NAV then.
Still(r, days, d) == SubSeq(TradesTo(days, d), r.rows + 1, Len(TradesTo(days, d)))
Morning(r) == [holdings |-> r.holdings, cash |-> r.cash, flow |-> 0, debt |-> FALSE]
Evening(r, days, d, lotOnly) ==
    Recorded(ReplayedRows(lotOnly, Morning(r), Still(r, days, d)), lotOnly, days[d].flow)
Seen(r, days, d, lotOnly) ==
    Marked(r.last, days[d].quote, Evening(r, days, d, lotOnly).holdings)
Worth(r, days, d, lotOnly) ==
    LET equity == Equity(Evening(r, days, d, lotOnly).holdings, Seen(r, days, d, lotOnly))
    IN  IF lotOnly THEN equity ELSE Evening(r, days, d, lotOnly).cash + equity
Priced(r, days, d, lotOnly) ==
    \A s \in Held(Evening(r, days, d, lotOnly).holdings) :
       /\ s \in DOMAIN Seen(r, days, d, lotOnly)
       /\ Seen(r, days, d, lotOnly)[s] = Close(days, s, d)
Shows(r, days, d, start, lotOnly) == Worth(r, days, d, lotOnly) > 0 /\ d >= start
NewPoint(r, days, d, lotOnly) ==
    Point(r, d, Worth(r, days, d, lotOnly), Evening(r, days, d, lotOnly).flow,
          Priced(r, days, d, lotOnly) /\ ~Evening(r, days, d, lotOnly).debt)
Settled(r, days, d, start, lotOnly) ==
    LET e   == Evening(r, days, d, lotOnly)
        nav == Worth(r, days, d, lotOnly)
    IN  [holdings |-> e.holdings, cash |-> e.cash, last |-> Seen(r, days, d, lotOnly),
         rows |-> Len(TradesTo(days, d)), prev |-> IF nav > 0 THEN nav ELSE r.prev,
         sound |-> nav > 0 /\ Priced(r, days, d, lotOnly),
         points |-> IF Shows(r, days, d, start, lotOnly)
                    THEN Append(r.points, NewPoint(r, days, d, lotOnly)) ELSE r.points]

LEMMA StillType ==
    ASSUME NEW r \in Run, NEW days \in Seq(Day), NEW d \in 1..Len(days)
    PROVE  Still(r, days, d) \in Seq(Orders) /\ Len(TradesTo(days, d)) \in Nat
<1> DEFINE all == TradesTo(days, d)
<1>1. all \in Seq(Orders) /\ Len(all) \in Nat
  BY RowsType
<1> HIDE DEF all
<1>2. r.rows + 1 \in Int /\ r.rows + 1 >= 1
  BY DEF Run
<1>3. \A i \in (r.rows + 1)..Len(all) : all[i] \in Orders
  BY <1>1, <1>2
<1>4. SubSeq(all, r.rows + 1, Len(all)) \in Seq(Orders)
  BY <1>1, <1>2, <1>3, SubSeqProperties
<1>5. QED BY <1>1, <1>4 DEF Still, all

LEMMA MorningType == ASSUME NEW r \in Run PROVE Morning(r) \in Account
<1> DEFINE none == 0
           debt == FALSE
<1>1. none \in Int /\ debt \in BOOLEAN /\ r.holdings \in [Symbols -> Int] /\ r.cash \in Int
  BY DEF Run
<1>2. Morning(r) = [holdings |-> r.holdings, cash |-> r.cash, flow |-> none, debt |-> debt]
  BY DEF Morning
<1> HIDE DEF none, debt
<1>3. QED BY <1>1, <1>2 DEF Account

LEMMA EveningType ==
    ASSUME NEW r \in Run, NEW days \in Seq(Day), NEW d \in 1..Len(days), NEW lotOnly \in BOOLEAN
    PROVE  Evening(r, days, d, lotOnly) \in Account
<1> DEFINE rows == Still(r, days, d)
           traded == ReplayedRows(lotOnly, Morning(r), rows)
<1>1. rows \in Seq(Orders) /\ Len(rows) \in Nat
  BY StillType
<1>2. Morning(r) \in Account
  BY MorningType
<1> HIDE DEF rows
<1>3. traded \in Account
  <2>1. PICK a : IsWalk(a, ReplayStep(lotOnly, rows), Morning(r), Len(rows), Account)
                 /\ a[Len(rows)] = traded
    BY <1>1, <1>2, ReplayedIsWalk
  <2> HIDE DEF traded
  <2>2. QED BY <2>1, <1>1, WalkEnds
<1>4. Evening(r, days, d, lotOnly) = Recorded(traded, lotOnly, days[d].flow)
  BY DEF Evening, rows
<1> HIDE DEF traded
<1>5. QED BY <1>3, <1>4, DayType, RecordedType

LEMMA WorthType ==
    ASSUME NEW r \in Run, NEW days \in Seq(Day), NEW d \in 1..Len(days), NEW lotOnly \in BOOLEAN,
           days[d].quote # NoBar
    PROVE  /\ Seen(r, days, d, lotOnly) \in Marks
           /\ Worth(r, days, d, lotOnly) \in Int
<1> DEFINE e == Evening(r, days, d, lotOnly)
           seen == Seen(r, days, d, lotOnly)
           equity == Equity(e.holdings, seen)
<1>1. e.holdings \in [Symbols -> Int] /\ e.cash \in Int
  BY EveningType DEF Account
<1>2. seen \in Marks
  <2> HIDE DEF e
  <2>1. seen = Marked(r.last, days[d].quote, e.holdings)
    BY DEF Seen, e
  <2>2. r.last \in Marks
    BY DEF Run
  <2>3. QED BY <2>1, <2>2, <1>1, DayType, MarkedType
<1>3. Worth(r, days, d, lotOnly) = IF lotOnly THEN equity ELSE e.cash + equity
  BY DEF Worth
<1> HIDE DEF e, seen
<1>4. equity \in Int
  BY <1>1, <1>2, EquityType
<1> HIDE DEF equity
<1>5. QED BY <1>1, <1>2, <1>3, <1>4 DEF seen

LEMMA SessionIs ==
    ASSUME NEW r \in Run, NEW days \in Seq(Day), NEW d \in 1..Len(days), NEW start \in Nat,
           NEW lotOnly \in BOOLEAN, days[d].quote # NoBar
    PROVE  Session(r, days, d, start, lotOnly) = Settled(r, days, d, start, lotOnly)
<1> DEFINE e == Evening(r, days, d, lotOnly)
           seen == Seen(r, days, d, lotOnly)
           nav == Worth(r, days, d, lotOnly)
           priced == Priced(r, days, d, lotOnly)
           m == Len(TradesTo(days, d))
           now == [r EXCEPT !.holdings = e.holdings, !.cash = e.cash, !.last = seen, !.rows = m]
           fine == priced /\ ~e.debt
           point == NewPoint(r, days, d, lotOnly)
           shows == Shows(r, days, d, start, lotOnly)
<1>1. Session(r, days, d, start, lotOnly) =
          IF nav <= 0 THEN [now EXCEPT !.sound = FALSE]
          ELSE [Published(now, d, start, nav, e.flow, fine) EXCEPT !.sound = priced]
  BY DEF Session, Evening, Seen, Worth, Priced, Still, Morning
<1>2. point = Point(r, d, nav, e.flow, fine)
  BY DEF NewPoint
<1>3. nav \in Int /\ priced \in BOOLEAN
  BY WorthType DEF Priced
<1>4. shows <=> (nav > 0 /\ d >= start)
  BY DEF Shows
<1>0. d \in Nat /\ start \in Nat
  OBVIOUS
<1>5. r.prev = now.prev /\ r.points = now.points /\ r.sound = now.sound
  BY DEF Run
<1>6. Point(now, d, nav, e.flow, fine) = point
  <2> HIDE DEF now, nav, fine, e, point
  <2>1. QED BY <1>2, <1>5 DEF Point
<1> HIDE DEF e, seen, nav, priced, m, fine, point, shows
<1>7. CASE nav <= 0
  <2>0. ~(nav > 0)
    BY <1>3, <1>7
  <2>1. ~(nav > 0) /\ ~shows /\ (nav > 0 /\ priced) = FALSE
    BY <2>0, <1>4, Zenon
  <2>2. Session(r, days, d, start, lotOnly) = [now EXCEPT !.sound = FALSE]
    BY <1>1, <1>7
  <2>3. Session(r, days, d, start, lotOnly) =
          [holdings |-> e.holdings, cash |-> e.cash, last |-> seen, rows |-> m,
           prev |-> r.prev, sound |-> FALSE, points |-> r.points]
    BY <2>2 DEF Run
  <2>4. QED BY <2>1, <2>3 DEF Settled, e, seen, nav, priced, m, shows
<1>8. CASE nav > 0
  <2> DEFINE points == IF shows THEN Append(r.points, point) ELSE r.points
  <2>1. ~(nav <= 0) /\ (nav > 0 /\ priced) = priced
    BY <1>3, <1>8
  <2>2. Published(now, d, start, nav, e.flow, fine) = [now EXCEPT !.prev = nav, !.points = points]
    <3> HIDE DEF now
    <3>1. CASE d < start
      <4>1. ~shows
        BY <3>1, <1>0, <1>4
      <4>2. Published(now, d, start, nav, e.flow, fine) = [now EXCEPT !.prev = nav]
        BY <3>1 DEF Published
      <4>3. points = now.points
        BY <4>1, <1>5
      <4>4. QED BY <4>2, <4>3 DEF now, Run
    <3>2. CASE ~(d < start)
      <4>1. shows
        BY <3>2, <1>0, <1>4, <1>8
      <4>2. Published(now, d, start, nav, e.flow, fine)
              = [now EXCEPT !.prev = nav, !.points = Append(now.points, point)]
        BY <3>2, <1>6 DEF Published
      <4>3. QED BY <4>1, <4>2, <1>5
    <3>3. QED BY <3>1, <3>2
  <2> HIDE DEF points
  <2>3. Session(r, days, d, start, lotOnly) =
          [[now EXCEPT !.prev = nav, !.points = points] EXCEPT !.sound = priced]
    BY <1>1, <2>1, <2>2
  <2>4. Session(r, days, d, start, lotOnly) =
          [holdings |-> e.holdings, cash |-> e.cash, last |-> seen, rows |-> m,
           prev |-> nav, sound |-> priced, points |-> points]
    BY <2>3 DEF Run
  <2>5. QED BY <2>1, <2>4, <1>8 DEF Settled, e, seen, nav, priced, m, shows, points, point
<1>9. QED BY <1>3, <1>7, <1>8

LEMMA SessionType ==
    ASSUME NEW r \in Run, NEW days \in Seq(Day), NEW d \in 1..Len(days), NEW start \in Nat,
           NEW lotOnly \in BOOLEAN, days[d].quote # NoBar
    PROVE  Session(r, days, d, start, lotOnly) \in Run
<1> DEFINE e == Evening(r, days, d, lotOnly)
           nav == Worth(r, days, d, lotOnly)
           fine == Priced(r, days, d, lotOnly) /\ ~e.debt
           prev == IF nav > 0 THEN nav ELSE r.prev
           sound == nav > 0 /\ Priced(r, days, d, lotOnly)
           points == IF Shows(r, days, d, start, lotOnly)
                     THEN Append(r.points, NewPoint(r, days, d, lotOnly)) ELSE r.points
<1>1. e.holdings \in [Symbols -> Int] /\ e.cash \in Int /\ e.flow \in Int
  BY EveningType DEF Account
<1>2. Seen(r, days, d, lotOnly) \in Marks /\ nav \in Int /\ Len(TradesTo(days, d)) \in Nat
  BY WorthType, StillType
<1>3. r.prev \in Nat /\ r.points \in Seq(Points)
  BY DEF Run
<1>4. prev \in Nat /\ sound \in BOOLEAN
  BY <1>2, <1>3
<1>5. points \in Seq(Points)
  <2>1. CASE Shows(r, days, d, start, lotOnly)
    <3>1. nav \in Nat \ {0} /\ fine \in BOOLEAN /\ d \in Nat
      BY <2>1, <1>2 DEF Shows
    <3> HIDE DEF nav, fine, e
    <3>2. Point(r, d, nav, e.flow, fine) \in Points
      BY <3>1, <1>1, PointType
    <3>3. NewPoint(r, days, d, lotOnly) \in Points
      BY <3>2 DEF NewPoint, nav, fine, e
    <3>4. QED BY <3>3, <2>1, <1>3
  <2>2. CASE ~Shows(r, days, d, start, lotOnly)
    BY <2>2, <1>3
  <2>3. QED BY <2>1, <2>2
<1>6. Session(r, days, d, start, lotOnly) =
        [holdings |-> e.holdings, cash |-> e.cash, last |-> Seen(r, days, d, lotOnly),
         rows |-> Len(TradesTo(days, d)), prev |-> prev, sound |-> sound, points |-> points]
  BY SessionIs DEF Settled
<1> HIDE DEF e, nav, prev, sound, points
<1>7. QED BY <1>1, <1>2, <1>4, <1>5, <1>6 DEF Run

LEMMA NewRunType == NewRun \in Run
<1>1. <<>> \in Marks
  <2>1. {} \in SUBSET Symbols /\ <<>> \in [{} -> Nat \ {0}]
    OBVIOUS
  <2>2. QED BY <2>1 DEF Marks
<1>2. [s \in Symbols |-> 0] \in [Symbols -> Int] /\ <<>> \in Seq(Points)
  OBVIOUS
<1>3. QED BY <1>1, <1>2 DEF NewRun, Run

\* The days of the calendar, one after the other.
Turn(days, start, lotOnly, r, d) ==
    IF days[d].quote = NoBar THEN r ELSE Session(r, days, d, start, lotOnly)
SessionStep(days, start, lotOnly, calendar) ==
    [k \in 1..Len(calendar) |-> [r \in Run |-> Turn(days, start, lotOnly, r, calendar[k])]]

LEMMA TurnType ==
    ASSUME NEW r \in Run, NEW days \in Seq(Day), NEW d \in 1..Len(days), NEW start \in Nat,
           NEW lotOnly \in BOOLEAN
    PROVE  Turn(days, start, lotOnly, r, d) \in Run
  BY SessionType DEF Turn

LEMMA SessionsAreWalk ==
    ASSUME NEW days \in Seq(Day), NEW start \in Nat, NEW lotOnly \in BOOLEAN,
           NEW calendar \in Seq(1..Len(days))
    PROVE  \E a : /\ IsWalk(a, SessionStep(days, start, lotOnly, calendar), NewRun,
                            Len(calendar), Run)
                  /\ a[Len(calendar)] = Sessions(days, start, lotOnly, calendar)
<1> DEFINE n == Len(calendar)
           h == SessionStep(days, start, lotOnly, calendar)
           Is(g) == g = [s \in SUBSET DOMAIN calendar |->
                           IF s = {} THEN NewRun
                           ELSE LET x == Max(s) IN Turn(days, start, lotOnly, g[s \ {x}], calendar[x])]
           it == CHOOSE g : Is(g)
<1>1. n \in Nat /\ DOMAIN calendar = 1..n /\ \A k \in 1..n : calendar[k] \in 1..Len(days)
  OBVIOUS
<1>2. h \in [1..n -> [Run -> Run]]
  BY TurnType, <1>1 DEF SessionStep
<1>3. \A k \in 1..n : \A r \in Run : h[k][r] = Turn(days, start, lotOnly, r, calendar[k])
  BY DEF SessionStep
<1> HIDE DEF n, h
<1>4. PICK g \in [SUBSET (1..n) -> Run] : IsFold(g, h, NewRun, n)
  BY <1>1, <1>2, NewRunType, FoldsExist
<1>5. Is(g)
  <2>1. ASSUME NEW s \in SUBSET (1..n), s # {}
        PROVE  h[Max(s)][g[s \ {Max(s)}]]
                  = Turn(days, start, lotOnly, g[s \ {Max(s)}], calendar[Max(s)])
    <3>1. Max(s) \in 1..n /\ g[s \ {Max(s)}] \in Run
      BY <1>1, <2>1, LastIndex
    <3>2. QED BY <3>1, <1>3
  <2>2. QED BY <2>1, <1>1, <1>4 DEF IsFold
<1>6. Is(it)
  <2> HIDE DEF Is
  <2>1. QED BY <1>5
<1>7. Sessions(days, start, lotOnly, calendar) = it[1..n]
  BY <1>1 DEF Sessions, FoldLeft, MapThenFoldSet, Turn
<1>8. Unfolds(it, h, NewRun, n, Run)
  <2> HIDE DEF it
  <2>1. it[{}] = NewRun
    BY <1>1, <1>6
  <2>2. ASSUME NEW s \in SUBSET (1..n), s # {}, it[s \ {Max(s)}] \in Run
        PROVE  it[s] = h[Max(s)][it[s \ {Max(s)}]]
    <3>1. Max(s) \in 1..n
      BY <1>1, <2>2, LastIndex
    <3>2. it[s] = Turn(days, start, lotOnly, it[s \ {Max(s)}], calendar[Max(s)])
      BY <1>1, <1>6, <2>2
    <3>3. QED BY <3>1, <3>2, <2>2, <1>3
  <2>3. QED BY <2>1, <2>2, <1>1, <1>2, NewRunType DEF Unfolds
<1> HIDE DEF it
<1>9. QED BY <1>7, <1>8, FoldIsWalk DEF n, h

\* The chart's points have a day, a positive NAV and a return.
LEMMA ReplayType ==
    ASSUME NEW days \in Seq(Day), NEW start \in 1..Len(days)
    PROVE  Replay(days, start) \in Seq(Points)
<1>1. CASE TradesTo(days, Len(days)) = <<>>
  BY <1>1 DEF Replay
<1>2. CASE TradesTo(days, Len(days)) # <<>>
  <2> DEFINE first == Min({start, FirstTrade(days)})
             n == Len(days) - first + 1
             calendar == [k \in 1..n |-> first + k - 1]
             lotOnly == LotOnly(days)
             run == Sessions(days, start, lotOnly, calendar)
  <2>1. Len(days) \in Nat /\ start \in Nat
    OBVIOUS
  <2>2. first \in 1..Len(days)
    BY <1>2, <2>1, FirstTradeType, MinOfTwo
  <2>3. calendar \in Seq(1..Len(days))
    <3> HIDE DEF first
    <3>1. n \in Nat /\ \A k \in 1..n : first + k - 1 \in 1..Len(days)
      BY <2>1, <2>2
    <3> HIDE DEF n
    <3>2. QED BY <3>1
  <2>4. lotOnly \in BOOLEAN
    BY DEF LotOnly
  <2>5. Len(calendar) \in Nat
    <3> HIDE DEF calendar
    <3>1. QED BY <2>3
  <2>6. run \in Run
    <3> HIDE DEF calendar, lotOnly
    <3>1. PICK a : IsWalk(a, SessionStep(days, start, lotOnly, calendar), NewRun, Len(calendar), Run)
                   /\ a[Len(calendar)] = run
      BY <2>1, <2>3, <2>4, SessionsAreWalk
    <3> HIDE DEF run
    <3>2. QED BY <3>1, <2>5, WalkEnds
  <2>7. Replay(days, start) = run.points
    BY <1>2 DEF Replay
  <2> HIDE DEF run
  <2>8. QED BY <2>6, <2>7 DEF Run
<1>3. QED BY <1>1, <1>2

\* The maximum drawdown of a chart is the deepest fall in it, whatever was
\* traded, paid in and out, and quoted (_max_drawdown of the replayed NAVs).
THEOREM DrawdownsAreDeepest == Spec => []DrawdownIsDeepest
<1>1. HistoryOK => DrawdownIsDeepest
  <2> SUFFICES ASSUME HistoryOK, NEW start \in 1..Len(past)
               PROVE  IsDeepest(MaxDrawdown(Navs(Replay(past, start))), Navs(Replay(past, start)))
    BY DEF DrawdownIsDeepest
  <2> DEFINE points == Replay(past, start)
  <2>1. points \in Seq(Points)
    BY ReplayType DEF HistoryOK
  <2> HIDE DEF points
  <2>2. Len(points) \in Nat /\ DOMAIN points = 1..Len(points)
        /\ \A i \in 1..Len(points) : points[i].nav \in Nat \ {0}
    <3>1. \A i \in 1..Len(points) : points[i] \in Points
      BY <2>1
    <3>2. QED BY <2>1, <3>1 DEF Points
  <2>3. Navs(points) \in Seq(Nat \ {0})
    BY <2>2 DEF Navs
  <2>4. IsDeepest(MaxDrawdown(Navs(points)), Navs(points))
    BY <2>3, DrawdownIsDeepestFall
  <2>5. QED BY <2>4 DEF points
<1>2. QED BY <1>1, HistoryInvariant, PTL

-----------------------------------------------------------------------------
(* Two windows on the same days.                                           *)

\* Both runs have the same in hand; both show a point of that day or none.
SameState(x, y) ==
    /\ x.holdings = y.holdings /\ x.cash = y.cash
    /\ x.last = y.last /\ x.rows = y.rows /\ x.prev = y.prev
SamePoint(p, q) == p.day = q.day /\ p.nav = q.nav /\ p.ret = q.ret

\* Of the points of the longer window the shorter has those after the cut.
IsCut(longest, shorter, start, cut) ==
    /\ cut \in 0..Len(longest)
    /\ Len(shorter) = Len(longest) - cut
    /\ \A i \in 1..Len(longest) : longest[i].day < start <=> i <= cut
    /\ \A i \in 1..Len(shorter) : SamePoint(shorter[i], longest[cut + i])
Agree(x, y, d, start) ==
    /\ SameState(x, y)
    /\ \A i \in 1..Len(x.points) : x.points[i].day <= d
    /\ \E cut \in Nat : IsCut(x.points, y.points, start, cut)

LEMMA SameEvening ==
    ASSUME NEW x \in Run, NEW y \in Run, SameState(x, y), NEW days, NEW d, NEW lotOnly
    PROVE  /\ Evening(x, days, d, lotOnly) = Evening(y, days, d, lotOnly)
           /\ Seen(x, days, d, lotOnly) = Seen(y, days, d, lotOnly)
           /\ Worth(x, days, d, lotOnly) = Worth(y, days, d, lotOnly)
<1>1. Morning(x) = Morning(y) /\ Still(x, days, d) = Still(y, days, d) /\ x.last = y.last
  BY DEF Morning, Still, SameState
<1>2. Evening(x, days, d, lotOnly) = Evening(y, days, d, lotOnly)
  BY <1>1 DEF Evening
<1>3. Seen(x, days, d, lotOnly) = Seen(y, days, d, lotOnly)
  BY <1>1, <1>2 DEF Seen
<1>4. QED BY <1>2, <1>3 DEF Worth

\* Both windows show the day,
LEMMA BothShow ==
    ASSUME NEW longest \in Seq(Points), NEW shorter \in Seq(Points), NEW start \in Nat,
           NEW cut \in Nat, IsCut(longest, shorter, start, cut),
           NEW p \in Points, NEW q \in Points, SamePoint(q, p), p.day >= start
    PROVE  IsCut(Append(longest, p), Append(shorter, q), start, cut)
<1> DEFINE l == Append(longest, p)
           s == Append(shorter, q)
           m == Len(longest)
<1>1. m \in Nat /\ Len(l) = m + 1 /\ l[m + 1] = p /\ \A i \in 1..m : l[i] = longest[i]
  OBVIOUS
<1>2. Len(shorter) = m - cut /\ cut <= m
  BY DEF IsCut
<1>3. Len(s) = m - cut + 1 /\ s[m - cut + 1] = q /\ \A i \in 1..(m - cut) : s[i] = shorter[i]
  BY <1>2
<1>4. p.day \in Nat
  BY DEF Points
<1> HIDE DEF l, s, m
<1>5. \A i \in 1..Len(l) : l[i].day < start <=> i <= cut
  <2> SUFFICES ASSUME NEW i \in 1..Len(l) PROVE l[i].day < start <=> i <= cut
    OBVIOUS
  <2>1. CASE i = m + 1
    <3>1. ~(i <= cut)
      BY <2>1, <1>1, <1>2
    <3>2. ~(l[i].day < start)
      BY <2>1, <1>1, <1>4
    <3>3. QED BY <3>1, <3>2
  <2>2. CASE i # m + 1
    <3>1. i \in 1..m /\ l[i] = longest[i]
      BY <2>2, <1>1
    <3>2. QED BY <3>1 DEF IsCut, m
  <2>3. QED BY <2>1, <2>2
<1>6. \A i \in 1..Len(s) : SamePoint(s[i], l[cut + i])
  <2> SUFFICES ASSUME NEW i \in 1..Len(s) PROVE SamePoint(s[i], l[cut + i])
    OBVIOUS
  <2>1. CASE i = m - cut + 1
    <3>1. cut + i = m + 1
      BY <2>1, <1>1, <1>2
    <3>2. QED BY <3>1, <2>1, <1>1, <1>3
  <2>2. CASE i # m - cut + 1
    <3>1. i \in 1..(m - cut) /\ cut + i \in 1..m
      BY <2>2, <1>1, <1>2, <1>3
    <3>2. SamePoint(shorter[i], longest[cut + i])
      BY <3>1, <1>2 DEF IsCut
    <3>3. QED BY <3>1, <3>2, <1>1, <1>3
  <2>3. QED BY <2>1, <2>2
<1>7. cut \in 0..Len(l) /\ Len(s) = Len(l) - cut
  BY <1>1, <1>2, <1>3
<1>8. QED BY <1>5, <1>6, <1>7 DEF IsCut, l, s

\* or the longer one alone, on a day before the other.
LEMMA OneShows ==
    ASSUME NEW longest \in Seq(Points), NEW shorter \in Seq(Points), NEW start \in Nat,
           NEW cut \in Nat, IsCut(longest, shorter, start, cut),
           \A i \in 1..Len(longest) : longest[i].day < start,
           NEW p \in Points, p.day < start
    PROVE  IsCut(Append(longest, p), shorter, start, cut + 1)
<1> DEFINE l == Append(longest, p)
           m == Len(longest)
<1>1. m \in Nat /\ Len(l) = m + 1 /\ l[m + 1] = p /\ \A i \in 1..m : l[i] = longest[i]
  OBVIOUS
<1>2. cut = m
  <2>1. CASE m = 0
    BY <2>1 DEF IsCut
  <2>2. CASE m # 0
    <3>1. m \in 1..m
      BY <2>2, <1>1
    <3>2. m <= cut /\ cut <= m
      BY <3>1 DEF IsCut
    <3>3. QED BY <3>2, <1>1
  <2>3. QED BY <2>1, <2>2
<1>3. Len(shorter) = 0
  BY <1>1, <1>2 DEF IsCut
<1> HIDE DEF l
<1>4. \A i \in 1..Len(l) : l[i].day < start
  <2> SUFFICES ASSUME NEW i \in 1..Len(l) PROVE l[i].day < start
    OBVIOUS
  <2>1. CASE i = m + 1
    BY <2>1, <1>1
  <2>2. CASE i # m + 1
    BY <2>2, <1>1
  <2>3. QED BY <2>1, <2>2
<1>5. QED BY <1>1, <1>2, <1>3, <1>4 DEF IsCut, l

LEMMA TurnAgrees ==
    ASSUME NEW x \in Run, NEW y \in Run, NEW days \in Seq(Day), NEW d \in 1..Len(days),
           NEW start \in Nat, NEW lotOnly \in BOOLEAN, Agree(x, y, d - 1, start)
    PROVE  Agree(Turn(days, 1, lotOnly, x, d), Turn(days, start, lotOnly, y, d), d, start)
<1>0. d \in Nat /\ d >= 1 /\ start \in Nat
  OBVIOUS
<1>1. x.points \in Seq(Points) /\ y.points \in Seq(Points)
  BY DEF Run
<1>2. \A i \in 1..Len(x.points) : x.points[i].day \in Nat /\ x.points[i].day <= d - 1
  <2>1. \A i \in 1..Len(x.points) : x.points[i] \in Points
    BY <1>1
  <2>2. QED BY <2>1 DEF Agree, Points
<1>3. \A i \in 1..Len(x.points) : x.points[i].day <= d
  BY <1>0, <1>2
<1>4. PICK cut \in Nat : IsCut(x.points, y.points, start, cut)
  BY DEF Agree
<1>5. SameState(x, y)
  BY DEF Agree
<1>6. CASE days[d].quote = NoBar
  BY <1>3, <1>5, <1>6 DEF Turn, Agree
<1>7. CASE days[d].quote # NoBar
  <2> DEFINE p == NewPoint(x, days, d, lotOnly)
             q == NewPoint(y, days, d, lotOnly)
             nav == Worth(x, days, d, lotOnly)
             X == Session(x, days, d, 1, lotOnly)
             Y == Session(y, days, d, start, lotOnly)
  <2>1. /\ X.holdings = Evening(x, days, d, lotOnly).holdings
        /\ X.cash = Evening(x, days, d, lotOnly).cash
        /\ X.last = Seen(x, days, d, lotOnly)
        /\ X.rows = Len(TradesTo(days, d))
        /\ X.prev = IF nav > 0 THEN nav ELSE x.prev
        /\ X.points = IF Shows(x, days, d, 1, lotOnly) THEN Append(x.points, p) ELSE x.points
    <3>1. X = Settled(x, days, d, 1, lotOnly)
      BY <1>0, <1>7, SessionIs
    <3> HIDE DEF X
    <3>2. QED BY <3>1 DEF Settled
  <2>2. nav = Worth(y, days, d, lotOnly)
    BY <1>5, SameEvening
  <2>3. /\ Y.holdings = Evening(y, days, d, lotOnly).holdings
        /\ Y.cash = Evening(y, days, d, lotOnly).cash
        /\ Y.last = Seen(y, days, d, lotOnly)
        /\ Y.rows = Len(TradesTo(days, d))
        /\ Y.prev = IF nav > 0 THEN nav ELSE y.prev
        /\ Y.points = IF Shows(y, days, d, start, lotOnly) THEN Append(y.points, q) ELSE y.points
    <3>1. Y = Settled(y, days, d, start, lotOnly)
      BY <1>7, SessionIs
    <3> HIDE DEF Y, nav
    <3>2. QED BY <3>1, <2>2 DEF Settled
  <2> HIDE DEF p, q, nav, X, Y
  <2>4. SameState(X, Y)
    BY <2>1, <2>3, <1>5, SameEvening DEF SameState
  <2>5. nav \in Int
    BY <1>7, WorthType DEF nav
  <2>6. SamePoint(q, p) /\ p.day = d
    <3>1. x.prev = y.prev
      BY <1>5 DEF SameState
    <3>2. Evening(x, days, d, lotOnly) = Evening(y, days, d, lotOnly)
      BY <1>5, SameEvening
    <3>3. QED BY <3>1, <3>2, <2>2 DEF p, q, nav, NewPoint, Point, SamePoint
  <2>7. nav > 0 => p \in Points /\ q \in Points
    <3> SUFFICES ASSUME nav > 0 PROVE p \in Points /\ q \in Points
      OBVIOUS
    <3>1. nav \in Nat \ {0}
      BY <2>5
    <3>2. Evening(x, days, d, lotOnly).flow \in Int /\ Evening(y, days, d, lotOnly).flow \in Int
      BY EveningType DEF Account
    <3>3. /\ (Priced(x, days, d, lotOnly) /\ ~Evening(x, days, d, lotOnly).debt) \in BOOLEAN
          /\ (Priced(y, days, d, lotOnly) /\ ~Evening(y, days, d, lotOnly).debt) \in BOOLEAN
      OBVIOUS
    <3>4. p \in Points
      BY <3>1, <3>2, <3>3, <1>0, PointType DEF p, nav, NewPoint
    <3>5. Worth(y, days, d, lotOnly) \in Nat \ {0}
      BY <3>1, <2>2
    <3>6. q \in Points
      BY <3>5, <3>2, <3>3, <1>0, PointType DEF q, NewPoint
    <3>7. QED BY <3>4, <3>6
  <2>8. /\ Shows(x, days, d, 1, lotOnly) <=> nav > 0
        /\ Shows(y, days, d, start, lotOnly) <=> nav > 0 /\ d >= start
    BY <1>0, <2>2 DEF Shows, nav
  <2>9. (\A i \in 1..Len(X.points) : X.points[i].day <= d)
        /\ \E c \in Nat : IsCut(X.points, Y.points, start, c)
    <3>1. CASE ~(nav > 0)
      <4>1. X.points = x.points /\ Y.points = y.points
        BY <3>1, <2>1, <2>3, <2>8
      <4>2. QED BY <4>1, <1>3, <1>4
    <3>2. CASE nav > 0
      <4>1. X.points = Append(x.points, p)
        BY <3>2, <2>1, <2>8
      <4>2. \A i \in 1..Len(X.points) : X.points[i].day <= d
        <5> SUFFICES ASSUME NEW i \in 1..Len(X.points) PROVE X.points[i].day <= d
          OBVIOUS
        <5>1. CASE i \in 1..Len(x.points)
          <6>1. X.points[i] = x.points[i]
            BY <5>1, <4>1, <1>1
          <6>2. QED BY <6>1, <5>1, <1>3
        <5>2. CASE i = Len(x.points) + 1
          <6>1. X.points[i] = p
            BY <5>2, <4>1, <1>1
          <6>2. QED BY <6>1, <2>6, <1>0
        <5>3. Len(X.points) = Len(x.points) + 1 /\ Len(x.points) \in Nat
          BY <4>1, <1>1
        <5>4. QED BY <5>1, <5>2, <5>3
      <4>3. CASE d >= start
        <5>1. Y.points = Append(y.points, q)
          BY <3>2, <4>3, <2>3, <2>8
        <5>2. IsCut(X.points, Y.points, start, cut)
          BY <5>1, <4>1, <4>3, <3>2, <2>6, <2>7, <1>1, <1>4, BothShow
        <5>3. QED BY <5>2, <4>2
      <4>4. CASE ~(d >= start)
        <5>1. Y.points = y.points
          BY <4>4, <2>3, <2>8
        <5>2. d < start /\ p.day < start /\ \A i \in 1..Len(x.points) : x.points[i].day < start
          BY <4>4, <1>0, <1>2, <2>6
        <5>3. IsCut(X.points, Y.points, start, cut + 1)
          BY <5>1, <5>2, <4>1, <3>2, <2>7, <1>1, <1>4, OneShows
        <5>4. cut + 1 \in Nat
          OBVIOUS
        <5>5. QED BY <5>3, <5>4, <4>2
      <4>5. QED BY <4>3, <4>4
    <3>3. QED BY <3>1, <3>2
  <2>10. Agree(X, Y, d, start)
    BY <2>4, <2>9 DEF Agree
  <2>11. QED BY <2>10, <1>7 DEF Turn, X, Y
<1>8. QED BY <1>6, <1>7

\* Before the first trade, with nothing paid, a run stays as it was.
Idle(r) ==
    /\ r.holdings = [s \in Symbols |-> 0] /\ r.cash = 0
    /\ r.last = <<>> /\ r.rows = 0 /\ r.prev = 0 /\ r.points = <<>>

LEMMA IdleTurn ==
    ASSUME NEW r \in Run, Idle(r), NEW days \in Seq(Day), NEW d \in 1..Len(days),
           NEW lotOnly \in BOOLEAN, NEW start \in Nat,
           TradesTo(days, d) = <<>>, days[d].flow = 0
    PROVE  Idle(Turn(days, start, lotOnly, r, d))
<1> DEFINE zero == [s \in Symbols |-> 0]
           e == Evening(r, days, d, lotOnly)
<1>1. CASE days[d].quote = NoBar
  BY <1>1 DEF Turn
<1>2. CASE days[d].quote # NoBar
  <2>1. r.holdings = zero /\ r.cash = 0 /\ r.last = <<>> /\ r.rows = 0 /\ r.prev = 0 /\ r.points = <<>>
    BY DEF Idle
  <2>2. Still(r, days, d) = <<>> /\ Len(TradesTo(days, d)) = 0
    <3>1. Still(r, days, d) = SubSeq(<<>>, 1, 0)
      BY <2>1 DEF Still
    <3>2. QED BY <3>1
  <2>3. ReplayedRows(lotOnly, Morning(r), <<>>) = Morning(r)
    <3>1. Morning(r) \in Account
      BY MorningType
    <3>2. <<>> \in Seq(Orders) /\ Len(<<>>) = 0
      OBVIOUS
    <3>3. PICK a : IsWalk(a, ReplayStep(lotOnly, <<>>), Morning(r), Len(<<>>), Account)
                   /\ a[Len(<<>>)] = ReplayedRows(lotOnly, Morning(r), <<>>)
      BY <3>1, <3>2, ReplayedIsWalk
    <3>4. QED BY <3>2, <3>3 DEF IsWalk
  <2>4. e.holdings = zero /\ e.cash = 0
    <3>1. e = Recorded(Morning(r), lotOnly, 0)
      BY <2>2, <2>3 DEF Evening
    <3>2. Morning(r).holdings = zero /\ Morning(r).cash = 0
      BY <2>1 DEF Morning
    <3>3. Recorded(Morning(r), lotOnly, 0).holdings = Morning(r).holdings
      BY DEF Recorded, Morning
    <3>4. Recorded(Morning(r), lotOnly, 0).cash = IF lotOnly THEN Morning(r).cash ELSE Morning(r).cash + 0
      BY DEF Recorded, Morning
    <3> HIDE DEF e, zero
    <3>5. QED BY <3>1, <3>2, <3>3, <3>4
  <2>5. Held(zero) = {}
    BY DEF Held
  <2> HIDE DEF e, zero
  <2>6. Seen(r, days, d, lotOnly) = <<>>
    <3>1. DOMAIN days[d].quote \cap {} = {} /\ {} \cup DOMAIN <<>> = {}
      OBVIOUS
    <3>2. Seen(r, days, d, lotOnly)
            = [s \in {} |-> IF s \in {} THEN days[d].quote[s] ELSE <<>>[s]]
      BY <2>1, <2>4, <2>5, <3>1 DEF Seen, Marked, e
    <3>3. QED BY <3>2
  <2>7. Worth(r, days, d, lotOnly) = 0
    <3>1. Valued(zero, <<>>) = {}
      BY <2>5 DEF Valued
    <3>2. Equity(zero, <<>>) = 0
      BY <3>1, EquityIsSum, SumOfEmpty
    <3>3. Worth(r, days, d, lotOnly) = IF lotOnly THEN 0 ELSE 0 + 0
      BY <2>4, <2>6, <3>2 DEF Worth, e
    <3>4. QED BY <3>3
  <2>8. ~Shows(r, days, d, start, lotOnly)
    BY <2>7 DEF Shows
  <2>9. Session(r, days, d, start, lotOnly) = Settled(r, days, d, start, lotOnly)
    BY <1>2, SessionIs
  <2>10. Idle(Settled(r, days, d, start, lotOnly))
    <3>1. /\ Settled(r, days, d, start, lotOnly).holdings = zero
          /\ Settled(r, days, d, start, lotOnly).cash = 0
          /\ Settled(r, days, d, start, lotOnly).last = <<>>
          /\ Settled(r, days, d, start, lotOnly).rows = 0
      BY <2>2, <2>4, <2>6 DEF Settled, e
    <3>2. /\ Settled(r, days, d, start, lotOnly).prev = 0
          /\ Settled(r, days, d, start, lotOnly).points = <<>>
      BY <2>1, <2>7, <2>8 DEF Settled
    <3>3. QED BY <3>1, <3>2 DEF Idle, zero
  <2>11. QED BY <1>2, <2>9, <2>10 DEF Turn
<1>3. QED BY <1>1, <1>2

\* The two windows agree to the last day.
LEMMA RunsAgree ==
    ASSUME NEW days \in Seq(Day), TradesTo(days, Len(days)) # <<>>,
           \A i \in 1..FirstTrade(days) - 1 : days[i].flow = 0,
           NEW start \in 2..Len(days)
    PROVE  /\ Replay(days, 1) \in Seq(Points) /\ Replay(days, start) \in Seq(Points)
           /\ \E cut \in Nat : IsCut(Replay(days, 1), Replay(days, start), start, cut)
<1> DEFINE n == Len(days)
           lotOnly == LotOnly(days)
           first == Min({start, FirstTrade(days)})
           m == n - first + 1
           whole == [k \in 1..n |-> k]
           rest == [k \in 1..m |-> first + k - 1]
<1>1. n \in Nat /\ start \in Nat /\ start >= 2 /\ start <= n /\ n \in 1..n /\ lotOnly \in BOOLEAN
  BY DEF LotOnly
<1>2. FirstTrade(days) \in 1..n
  BY FirstTradeType
<1>3. first \in 1..n /\ first <= start /\ first <= FirstTrade(days)
  BY <1>1, <1>2, MinOfTwo
<1>4. ASSUME NEW d \in 1..(first - 1) PROVE TradesTo(days, d) = <<>> /\ days[d].flow = 0
  <2> HIDE DEF first
  <2>1. d \in 1..Len(days) /\ d < FirstTrade(days) /\ d \in 1..FirstTrade(days) - 1
    BY <1>1, <1>2, <1>3
  <2>2. QED BY <2>1, FirstTradeType
<1>5. Min({1, FirstTrade(days)}) = 1
  BY <1>2, MinOfTwo
<1>6. /\ Replay(days, 1) = Sessions(days, 1, lotOnly, whole).points
      /\ Replay(days, start) = Sessions(days, start, lotOnly, rest).points
  <2>1. Replay(days, 1) = Sessions(days, 1, lotOnly, [k \in 1..(n - 1 + 1) |-> 1 + k - 1]).points
    BY <1>5 DEF Replay
  <2>2. n - 1 + 1 = n /\ \A k \in 1..n : 1 + k - 1 = k
    BY <1>1
  <2>3. [k \in 1..(n - 1 + 1) |-> 1 + k - 1] = whole
    BY <2>2
  <2>4. Replay(days, start) = Sessions(days, start, lotOnly, rest).points
    BY DEF Replay
  <2>5. QED BY <2>1, <2>3, <2>4
<1> HIDE DEF first
<1>7. m \in Nat /\ m \in 0..m /\ (first - 1) \in Nat /\ (first - 1) + m = n
  BY <1>1, <1>3
<1>8. whole \in Seq(1..n) /\ Len(whole) = n /\ rest \in Seq(1..n) /\ Len(rest) = m
  <2>1. \A k \in 1..m : first + k - 1 \in 1..n
    BY <1>1, <1>3
  <2> HIDE DEF m
  <2>2. rest \in Seq(1..n) /\ Len(rest) = m
    BY <2>1, <1>7
  <2>3. whole \in Seq(1..n)
    BY <1>1
  <2>4. Len(whole) = n
    BY <1>1
  <2>5. QED BY <2>2, <2>3, <2>4
<1>9. PICK a : /\ IsWalk(a, SessionStep(days, 1, lotOnly, whole), NewRun, n, Run)
               /\ a[n] = Sessions(days, 1, lotOnly, whole)
  <2> HIDE DEF whole, lotOnly
  <2>1. 1 \in Nat /\ n = Len(whole)
    BY <1>8
  <2>2. PICK a : /\ IsWalk(a, SessionStep(days, 1, lotOnly, whole), NewRun, Len(whole), Run)
                 /\ a[Len(whole)] = Sessions(days, 1, lotOnly, whole)
    BY <1>1, <1>8, <2>1, SessionsAreWalk
  <2>3. QED BY <2>1, <2>2
<1>10. PICK b : /\ IsWalk(b, SessionStep(days, start, lotOnly, rest), NewRun, m, Run)
                /\ b[m] = Sessions(days, start, lotOnly, rest)
  <2> HIDE DEF rest, m, lotOnly
  <2>1. QED BY <1>1, <1>8, SessionsAreWalk
<1>11. \A k \in 1..n : k - 1 \in 0..n /\ a[k - 1] \in Run /\ a[k] \in Run
                       /\ a[k] = Turn(days, 1, lotOnly, a[k - 1], k)
  <2> SUFFICES ASSUME NEW k \in 1..n
               PROVE  k - 1 \in 0..n /\ a[k - 1] \in Run /\ a[k] \in Run
                      /\ a[k] = Turn(days, 1, lotOnly, a[k - 1], k)
    OBVIOUS
  <2>1. k - 1 \in 0..n /\ k \in 0..n
    BY <1>1
  <2>2. a[k - 1] \in Run /\ a[k] \in Run
    BY <2>1, <1>9 DEF IsWalk
  <2>3. a[k] = Turn(days, 1, lotOnly, a[k - 1], k)
    BY <2>2, <1>8, <1>9 DEF IsWalk, SessionStep
  <2>4. QED BY <2>1, <2>2, <2>3
<1>12. \A k \in 1..m : k - 1 \in 0..m /\ b[k - 1] \in Run /\ b[k] \in Run
                       /\ b[k] = Turn(days, start, lotOnly, b[k - 1], first + k - 1)
  <2> SUFFICES ASSUME NEW k \in 1..m
               PROVE  k - 1 \in 0..m /\ b[k - 1] \in Run /\ b[k] \in Run
                      /\ b[k] = Turn(days, start, lotOnly, b[k - 1], first + k - 1)
    OBVIOUS
  <2>1. k - 1 \in 0..m /\ k \in 0..m
    BY <1>7
  <2>2. b[k - 1] \in Run /\ b[k] \in Run
    BY <2>1, <1>10 DEF IsWalk
  <2>3. b[k] = Turn(days, start, lotOnly, b[k - 1], first + k - 1)
    BY <2>2, <1>8, <1>10 DEF IsWalk, SessionStep
  <2>4. QED BY <2>1, <2>2, <2>3
<1>13. a[0] = NewRun /\ b[0] = NewRun
  BY <1>9, <1>10 DEF IsWalk
<1> HIDE DEF whole, rest, lotOnly, n, m
<1>14. Idle(a[first - 1])
  <2> DEFINE G == {k \in 0..(first - 1) : Idle(a[k])}
  <2>1. 0 \in G
    BY <1>7, <1>13 DEF Idle, NewRun
  <2>2. ASSUME NEW k \in 1..(first - 1), k - 1 \in G PROVE k \in G
    <3>1. k \in 1..n /\ k \in 0..(first - 1)
      BY <1>1, <1>3
    <3>2. Idle(a[k])
      BY <1>1, <1>4, <1>11, <2>2, <3>1, IdleTurn DEF n
    <3>3. QED BY <3>1, <3>2
  <2>3. first - 1 \in G
    <3> HIDE DEF G
    <3>1. first - 1 \in 0..(first - 1)
      BY <1>7
    <3>2. QED BY <1>7, <2>1, <2>2, <3>1, IntervalInduction
  <2>4. QED BY <2>3
<1> DEFINE H == {k \in 0..m : Agree(a[first - 1 + k], b[k], first - 1 + k, start)}
<1>15. 0 \in H
  <2>1. first - 1 + 0 = first - 1 /\ 0 \in 0..m
    BY <1>3, <1>7
  <2>2. SameState(a[first - 1], b[0])
    BY <1>13, <1>14 DEF Idle, NewRun, SameState
  <2>3. a[first - 1].points = <<>> /\ b[0].points = <<>>
    BY <1>13, <1>14 DEF Idle, NewRun
  <2>4. IsCut(<<>>, <<>>, start, 0)
    BY DEF IsCut
  <2>5. Agree(a[first - 1], b[0], first - 1, start)
    BY <2>2, <2>3, <2>4 DEF Agree
  <2>6. QED BY <2>1, <2>5
<1>16. ASSUME NEW k \in 1..m, k - 1 \in H PROVE k \in H
  <2> DEFINE d == first - 1 + k
  <2>1. d \in 1..n /\ d = first + k - 1 /\ d - 1 = first - 1 + (k - 1) /\ k \in 0..m
    BY <1>3, <1>7
  <2>2. Agree(a[d - 1], b[k - 1], d - 1, start)
    BY <1>16, <2>1
  <2>3. /\ a[d - 1] \in Run /\ a[d] = Turn(days, 1, lotOnly, a[d - 1], d)
        /\ b[k - 1] \in Run /\ b[k] = Turn(days, start, lotOnly, b[k - 1], d)
    <3> HIDE DEF d
    <3>1. QED BY <2>1, <1>11, <1>12
  <2> HIDE DEF d
  <2>4. Agree(a[d], b[k], d, start)
    BY <1>1, <2>1, <2>2, <2>3, TurnAgrees DEF n
  <2>5. QED BY <2>1, <2>4 DEF d
<1>17. m \in H
  <2> HIDE DEF H
  <2>1. QED BY <1>7, <1>15, <1>16, IntervalInduction
<1>18. Agree(a[n], b[m], n, start)
  BY <1>7, <1>17
<1>19. a[n] \in Run /\ b[m] \in Run
  <2>1. n \in 0..n
    BY <1>1
  <2>2. QED BY <2>1, <1>7, <1>9, <1>10 DEF IsWalk
<1>20. QED BY <1>6, <1>9, <1>10, <1>18, <1>19 DEF Agree, Run

\* A shorter period shows what the longest one shows of its days, whatever was
\* traded, paid and quoted (the replay of _trades_performance_series, which
\* begins before the window).
THEOREM PeriodsAgree == Spec => []WindowsAgree
<1>1. HistoryOK => WindowsAgree
  <2> SUFFICES ASSUME HistoryOK, AtNight, AllTrades # <<>>,
                      \A i \in 1..FirstTrade(past) - 1 : past[i].flow = 0,
                      NEW start \in 2..Len(past)
               PROVE  \E cut \in 0..Len(Replay(past, 1)) :
                         /\ \A i \in DOMAIN Replay(past, 1) :
                               Replay(past, 1)[i].day < start <=> i <= cut
                         /\ Shown(Replay(past, start)) =
                               Shown(SubSeq(Replay(past, 1), cut + 1, Len(Replay(past, 1))))
    BY DEF WindowsAgree
  <2>1. past \in Seq(Day) /\ Len(past) \in Nat /\ Len(past) \in 0..Len(past)
    BY DEF HistoryOK
  <2>2. TradesTo(past, Len(past)) # <<>>
    <3>1. TradesTo(past, Len(past)) \in Seq(Orders)
      BY <2>1, RowsType
    <3>2. AllTrades = TradesTo(past, Len(past)) \o <<>>
      BY DEF AllTrades, AtNight
    <3>3. QED BY <3>1, <3>2
  <2> DEFINE l == Replay(past, 1)
             s == Replay(past, start)
  <2>3. l \in Seq(Points) /\ s \in Seq(Points) /\ \E cut \in Nat : IsCut(l, s, start, cut)
    BY <2>1, <2>2, RunsAgree
  <2>4. PICK cut \in Nat : IsCut(l, s, start, cut)
    BY <2>3
  <2> HIDE DEF l, s
  <2> DEFINE part == SubSeq(l, cut + 1, Len(l))
  <2>5. Len(l) \in Nat /\ DOMAIN l = 1..Len(l) /\ DOMAIN s = 1..Len(s)
    BY <2>3
  <2>6. cut \in 0..Len(l) /\ Len(s) = Len(l) - cut
    BY <2>4 DEF IsCut
  <2>7. part \in Seq(Points) /\ Len(part) = Len(s) /\ \A i \in 1..Len(s) : part[i] = l[cut + i]
    <3>1. cut + 1 \in Int /\ Len(l) \in Int
      BY <2>5
    <3>2. \A i \in (cut + 1)..Len(l) : l[i] \in Points
      BY <2>3, <2>5
    <3>3. /\ part \in Seq(Points)
          /\ Len(part) = IF cut + 1 <= Len(l) THEN Len(l) - (cut + 1) + 1 ELSE 0
          /\ \A i \in 1..(Len(l) - (cut + 1) + 1) : part[i] = l[cut + 1 + i - 1]
      BY <3>1, <3>2, SubSeqProperties
    <3> HIDE DEF part
    <3>4. Len(part) = Len(s)
      <4>1. CASE cut + 1 <= Len(l)
        BY <4>1, <3>3, <2>5, <2>6
      <4>2. CASE ~(cut + 1 <= Len(l))
        <5>1. Len(part) = 0
          BY <4>2, <3>3
        <5>2. cut = Len(l)
          <6> DEFINE n == Len(l)
          <6>1. n \in Nat /\ cut \in 0..n /\ ~(cut + 1 <= n)
            BY <4>2, <2>5, <2>6
          <6> HIDE DEF n
          <6>2. cut = n
            BY <6>1
          <6>3. QED BY <6>2 DEF n
        <5>3. QED BY <5>1, <5>2, <2>5, <2>6
      <4>3. QED BY <4>1, <4>2
    <3>5. ASSUME NEW i \in 1..Len(s) PROVE part[i] = l[cut + i]
      <4>1. i \in 1..(Len(l) - (cut + 1) + 1) /\ cut + 1 + i - 1 = cut + i
        BY <2>5, <2>6
      <4>2. QED BY <4>1, <3>3
    <3>6. QED BY <3>3, <3>4, <3>5
  <2> HIDE DEF part
  <2>8. DOMAIN part = DOMAIN s
    BY <2>5, <2>7
  <2>9. \A i \in DOMAIN s : s[i].day = part[i].day /\ s[i].nav = part[i].nav /\ s[i].ret = part[i].ret
    BY <2>4, <2>5, <2>7 DEF IsCut, SamePoint
  <2>10. Shown(s) = Shown(part)
    BY <2>8, <2>9 DEF Shown
  <2>11. \A i \in DOMAIN l : l[i].day < start <=> i <= cut
    BY <2>4, <2>5 DEF IsCut
  <2>12. QED BY <2>6, <2>10, <2>11 DEF l, s, part
<1>2. QED BY <1>1, HistoryInvariant, PTL

-----------------------------------------------------------------------------
(* First in, first out.                                                    *)

\* What is left of a sequence after its first t elements.
Rest(s, t) == SubSeq(s, t + 1, Len(s))

LEMMA RestIs ==
    ASSUME NEW s \in Seq(Int), NEW t \in 0..Len(s)
    PROVE  /\ Rest(s, t) \in Seq(Int) /\ Len(Rest(s, t)) = Len(s) - t
           /\ \A i \in 1..(Len(s) - t) : Rest(s, t)[i] = s[t + i]
<1> DEFINE n == Len(s)
           r == Rest(s, t)
<1>1. n \in Nat /\ t \in 0..n
  OBVIOUS
<1>2. \A i \in (t + 1)..n : s[i] \in Int
  BY <1>1
<1>3. /\ r \in Seq(Int) /\ Len(r) = IF t + 1 <= n THEN n - (t + 1) + 1 ELSE 0
      /\ \A i \in 1..(n - (t + 1) + 1) : r[i] = s[t + 1 + i - 1]
  BY <1>1, <1>2, SubSeqProperties DEF Rest
<1> HIDE DEF n, r
<1>4. Len(r) = n - t
  <2>1. CASE t + 1 <= n
    BY <2>1, <1>1, <1>3
  <2>2. CASE ~(t + 1 <= n)
    <3>1. t = n /\ Len(r) = 0
      BY <2>2, <1>1, <1>3
    <3>2. QED BY <3>1, <1>1
  <2>3. QED BY <2>1, <2>2
<1>5. ASSUME NEW i \in 1..(n - t) PROVE r[i] = s[t + i]
  <2>1. i \in 1..(n - (t + 1) + 1) /\ t + 1 + i - 1 = t + i
    BY <1>1
  <2>2. QED BY <2>1, <1>3
<1>6. QED BY <1>3, <1>4, <1>5 DEF n, r

LEMMA RestOfConcat ==
    ASSUME NEW x \in Seq(Int), NEW y \in Seq(Int), NEW t \in 0..Len(x)
    PROVE  Rest(x \o y, t) = Rest(x, t) \o y
<1> DEFINE m == Len(x)
           n == Len(y)
           z == x \o y
           r == Rest(x, t)
           a == Rest(z, t)
           b == r \o y
<1>1. m \in Nat /\ n \in Nat /\ t \in 0..m
  OBVIOUS
<1>2. z \in Seq(Int) /\ Len(z) = m + n /\ \A i \in 1..(m + n) : z[i] = IF i <= m THEN x[i] ELSE y[i - m]
  BY ConcatProperties
<1>3. r \in Seq(Int) /\ Len(r) = m - t /\ \A i \in 1..(m - t) : r[i] = x[t + i]
  BY RestIs
<1> HIDE DEF z, r
<1>4. a \in Seq(Int) /\ Len(a) = Len(z) - t /\ \A i \in 1..(Len(z) - t) : a[i] = z[t + i]
  <2>1. t \in 0..Len(z)
    BY <1>1, <1>2
  <2>2. QED BY <1>2, <2>1, RestIs
<1>5. /\ b \in Seq(Int) /\ Len(b) = Len(r) + n
      /\ \A i \in 1..(Len(r) + n) : b[i] = IF i <= Len(r) THEN r[i] ELSE y[i - Len(r)]
  BY <1>3, ConcatProperties
<1> HIDE DEF a, b, m, n
<1>6. ASSUME NEW i \in 1..(m + n - t) PROVE a[i] = b[i]
  <2>1. t + i \in 1..(m + n) /\ i \in 1..(m - t + n)
    BY <1>1
  <2>2. a[i] = z[t + i]
    <3>1. Len(z) - t = m + n - t
      BY <1>1, <1>2
    <3>2. QED BY <1>4, <3>1
  <2>3. b[i] = IF i <= m - t THEN r[i] ELSE y[i - (m - t)]
    BY <1>3, <1>5, <2>1
  <2>4. z[t + i] = IF t + i <= m THEN x[t + i] ELSE y[t + i - m]
    <3> DEFINE j == t + i
    <3>1. j \in 1..(m + n)
      BY <2>1
    <3> HIDE DEF j
    <3>2. z[j] = IF j <= m THEN x[j] ELSE y[j - m]
      BY <1>1, <1>2, <3>1
    <3>3. QED BY <1>1, <3>2 DEF j
  <2>5. CASE i <= m - t
    <3>1. i \in 1..(m - t) /\ t + i <= m
      BY <1>1, <2>5
    <3>2. r[i] = x[t + i]
      BY <1>3, <3>1
    <3>3. QED BY <2>2, <2>3, <2>4, <2>5, <3>1, <3>2
  <2>6. CASE ~(i <= m - t)
    <3>1. ~(t + i <= m) /\ t + i - m = i - (m - t)
      BY <1>1, <2>6
    <3>2. QED BY <2>2, <2>3, <2>4, <2>6, <3>1
  <2>7. QED BY <2>5, <2>6
<1>7. Len(a) = m + n - t /\ Len(b) = m + n - t
  BY <1>1, <1>2, <1>3, <1>4, <1>5
<1>8. QED BY <1>4, <1>5, <1>6, <1>7, SeqEqual DEF a, b, z, r

LEMMA RestOfRest ==
    ASSUME NEW s \in Seq(Int), NEW t \in 0..Len(s), NEW u \in 0..(Len(s) - t)
    PROVE  Rest(Rest(s, t), u) = Rest(s, t + u)
<1> DEFINE n == Len(s)
           r == Rest(s, t)
           a == Rest(r, u)
           b == Rest(s, t + u)
<1>1. n \in Nat /\ t \in 0..n /\ t + u \in 0..n /\ u \in 0..(n - t)
  OBVIOUS
<1>2. r \in Seq(Int) /\ Len(r) = n - t /\ \A i \in 1..(n - t) : r[i] = s[t + i]
  BY RestIs
<1>3. b \in Seq(Int) /\ Len(b) = n - (t + u) /\ \A i \in 1..(n - (t + u)) : b[i] = s[t + u + i]
  BY <1>1, RestIs
<1> HIDE DEF r, b
<1>4. a \in Seq(Int) /\ Len(a) = n - t - u /\ \A i \in 1..(n - t - u) : a[i] = r[u + i]
  <2>1. u \in 0..Len(r)
    BY <1>1, <1>2
  <2>2. QED BY <1>2, <2>1, RestIs
<1> HIDE DEF a, n
<1>5. ASSUME NEW i \in 1..(n - t - u) PROVE a[i] = b[i]
  <2>1. u + i \in 1..(n - t) /\ i \in 1..(n - (t + u)) /\ t + (u + i) = t + u + i
    BY <1>1
  <2>2. QED BY <1>2, <1>3, <1>4, <2>1
<1>6. Len(a) = Len(b)
  BY <1>1, <1>3, <1>4
<1>7. \A i \in 1..Len(a) : a[i] = b[i]
  BY <1>4, <1>5
<1>8. QED BY <1>3, <1>4, <1>6, <1>7, SeqEqual DEF a, b, r

LEMMA SharesType ==
    ASSUME NEW qty \in Nat, NEW cost \in Int
    PROVE  /\ Shares(qty, cost) \in Seq(Int) /\ Len(Shares(qty, cost)) = qty
           /\ \A i \in 1..qty : Shares(qty, cost)[i] = cost
<1>1. Shares(qty, cost) \in Seq(Int)
  BY DEF Shares
<1>2. Len(Shares(qty, cost)) = qty
  BY DEF Shares
<1>3. QED BY <1>1, <1>2 DEF Shares

LEMMA RestOfShares ==
    ASSUME NEW qty \in Nat, NEW cost \in Int, NEW t \in 0..qty
    PROVE  Rest(Shares(qty, cost), t) = Shares(qty - t, cost)
<1> DEFINE s == Shares(qty, cost)
           a == Rest(s, t)
           b == Shares(qty - t, cost)
<1>1. s \in Seq(Int) /\ Len(s) = qty /\ \A i \in 1..qty : s[i] = cost
  BY SharesType
<1>2. qty - t \in Nat
  OBVIOUS
<1>3. b \in Seq(Int) /\ Len(b) = qty - t /\ \A i \in 1..(qty - t) : b[i] = cost
  BY <1>2, SharesType
<1> HIDE DEF s, b
<1>4. a \in Seq(Int) /\ Len(a) = qty - t /\ \A i \in 1..(qty - t) : a[i] = s[t + i]
  BY <1>1, RestIs
<1> HIDE DEF a
<1>5. ASSUME NEW i \in 1..(qty - t) PROVE a[i] = b[i]
  <2>1. t + i \in 1..qty
    OBVIOUS
  <2>2. QED BY <1>1, <1>3, <1>4, <2>1
<1>6. Len(a) = Len(b) /\ \A i \in 1..Len(a) : a[i] = b[i]
  BY <1>3, <1>4, <1>5
<1>7. QED BY <1>3, <1>4, <1>6, SeqEqual DEF a, b, s

\* The shares of open lots, lot by lot.
Lots == [qty : Nat \ {0}, cost : Int]
Opens(lots) ==
    CHOOSE open : open = [n \in 0..Len(lots) |->
                            IF n = 0 THEN <<>>
                            ELSE open[n - 1] \o Shares(lots[n].qty, lots[n].cost)]

LEMMA LotType ==
    ASSUME NEW lots \in Seq(Lots), NEW k \in 1..Len(lots)
    PROVE  /\ lots[k].qty \in Nat /\ lots[k].qty # 0 /\ lots[k].cost \in Int
           /\ Shares(lots[k].qty, lots[k].cost) \in Seq(Int)
<1>1. lots[k] \in Lots
  OBVIOUS
<1>2. lots[k].qty \in Nat /\ lots[k].qty # 0 /\ lots[k].cost \in Int
  BY <1>1 DEF Lots
<1>3. QED BY <1>2, SharesType

LEMMA OpensAre ==
    ASSUME NEW lots \in Seq(Lots)
    PROVE  /\ Opens(lots)[0] = <<>>
           /\ \A k \in 0..Len(lots) : Opens(lots)[k] \in Seq(Int)
           /\ \A k \in 1..Len(lots) :
                 Opens(lots)[k] = Opens(lots)[k - 1] \o Shares(lots[k].qty, lots[k].cost)
           /\ Open(lots) = Opens(lots)[Len(lots)]
<1> DEFINE n == Len(lots)
           h == [k \in 1..n |-> [x \in Seq(Int) |-> x \o Shares(lots[k].qty, lots[k].cost)]]
           Is(g) == g = [k \in 0..n |->
                           IF k = 0 THEN <<>> ELSE g[k - 1] \o Shares(lots[k].qty, lots[k].cost)]
<1>1. n \in Nat /\ <<>> \in Seq(Int)
  OBVIOUS
<1>2. h \in [1..n -> [Seq(Int) -> Seq(Int)]]
  BY LotType
<1>3. \A k \in 1..n : \A x \in Seq(Int) : h[k][x] = x \o Shares(lots[k].qty, lots[k].cost)
  OBVIOUS
<1> HIDE DEF h, n
<1>4. PICK a : IsWalk(a, h, <<>>, n, Seq(Int))
  BY <1>1, <1>2, WalksExist
<1>5. a \in [0..n -> Seq(Int)] /\ a[0] = <<>> /\ \A k \in 1..n : a[k] = h[k][a[k - 1]]
  BY <1>4 DEF IsWalk
<1>6. \A k \in 1..n : a[k] = a[k - 1] \o Shares(lots[k].qty, lots[k].cost)
  <2> SUFFICES ASSUME NEW k \in 1..n
               PROVE  a[k] = a[k - 1] \o Shares(lots[k].qty, lots[k].cost)
    OBVIOUS
  <2>1. k - 1 \in 0..n
    BY <1>1
  <2>2. a[k - 1] \in Seq(Int)
    BY <1>5, <2>1
  <2>3. QED BY <1>3, <1>5, <2>2
<1>7. Is(a)
  <2>1. a = [k \in 0..n |-> a[k]]
    BY <1>5
  <2>2. \A k \in 0..n : a[k] = IF k = 0 THEN <<>>
                               ELSE a[k - 1] \o Shares(lots[k].qty, lots[k].cost)
    <3>1. \A k \in 0..n : k = 0 \/ k \in 1..n
      BY <1>1
    <3>2. QED BY <1>5, <1>6, <3>1
  <2>3. QED BY <2>1, <2>2
<1>8. Is(Opens(lots))
  <2>1. Opens(lots) = CHOOSE g : Is(g)
    BY DEF Opens, n
  <2> HIDE DEF Is
  <2>2. QED BY <1>7, <2>1
<1> DEFINE o == Opens(lots)
<1> HIDE DEF o
<1>9. o = [k \in 0..n |-> IF k = 0 THEN <<>> ELSE o[k - 1] \o Shares(lots[k].qty, lots[k].cost)]
  BY <1>8 DEF o
<1>10. o[0] = <<>>
  <2>1. 0 \in 0..n
    BY <1>1
  <2>2. QED BY <1>9, <2>1
<1>11. \A k \in 1..n : o[k] = o[k - 1] \o Shares(lots[k].qty, lots[k].cost)
  <2> SUFFICES ASSUME NEW k \in 1..n
               PROVE  o[k] = o[k - 1] \o Shares(lots[k].qty, lots[k].cost)
    OBVIOUS
  <2>1. k \in 0..n /\ k # 0
    BY <1>1
  <2>2. QED BY <1>9, <2>1
<1>12. \A k \in 0..n : o[k] \in Seq(Int)
  <2> DEFINE G == {k \in 0..n : o[k] \in Seq(Int)}
  <2>1. 0 \in G
    <3>1. 0 \in 0..n /\ o[0] \in Seq(Int)
      BY <1>1, <1>10
    <3>2. QED BY <3>1
  <2>2. \A k \in 1..n : k - 1 \in G => k \in G
    <3>1. ASSUME NEW k \in 1..n, k - 1 \in G PROVE k \in G
      <4>1. k \in 0..n /\ o[k - 1] \in Seq(Int)
        BY <1>1, <3>1
      <4>2. Shares(lots[k].qty, lots[k].cost) \in Seq(Int)
        BY LotType DEF n
      <4>3. o[k - 1] \o Shares(lots[k].qty, lots[k].cost) \in Seq(Int)
        BY <4>1, <4>2, ConcatProperties
      <4>4. QED BY <1>11, <4>1, <4>3
    <3>2. QED BY <3>1
  <2> HIDE DEF G
  <2>3. \A k \in 0..n : k \in G
    BY <1>1, <2>1, <2>2, IntervalInduction
  <2>4. QED BY <2>3 DEF G
<1>13. Open(lots) = Opens(lots)[Len(lots)]
  BY DEF Open, Opens
<1>14. QED BY <1>10, <1>11, <1>12, <1>13 DEF o, n

LEMMA OpenEmpty == Open(<<>>) = <<>>
<1>1. <<>> \in Seq(Lots) /\ Len(<<>>) = 0
  OBVIOUS
<1>2. QED BY <1>1, OpensAre

LEMMA OpenType == ASSUME NEW lots \in Seq(Lots) PROVE Open(lots) \in Seq(Int)
<1>1. Len(lots) \in 0..Len(lots)
  OBVIOUS
<1>2. QED BY <1>1, OpensAre

\* A lot appended opens its shares after the others.
LEMMA OpenAppend ==
    ASSUME NEW lots \in Seq(Lots), NEW lot \in Lots
    PROVE  Open(Append(lots, lot)) = Open(lots) \o Shares(lot.qty, lot.cost)
<1> DEFINE n == Len(lots)
           more == Append(lots, lot)
           o == Opens(lots)
           p == Opens(more)
           G == {k \in 0..n : o[k] = p[k]}
<1>1. n \in Nat /\ more \in Seq(Lots) /\ Len(more) = n + 1 /\ more[n + 1] = lot
      /\ \A k \in 1..n : more[k] = lots[k]
  BY AppendProperties
<1>2. /\ o[0] = <<>> /\ Open(lots) = o[n]
      /\ \A k \in 1..n : o[k] = o[k - 1] \o Shares(lots[k].qty, lots[k].cost)
  BY OpensAre
<1> HIDE DEF more
<1>3. /\ p[0] = <<>> /\ Open(more) = p[Len(more)]
      /\ \A k \in 1..Len(more) : p[k] = p[k - 1] \o Shares(more[k].qty, more[k].cost)
  BY <1>1, OpensAre
<1> HIDE DEF o, p, n
<1>4. 0 \in G
  BY <1>1, <1>2, <1>3
<1>5. \A k \in 1..n : k - 1 \in G => k \in G
  <2>1. ASSUME NEW k \in 1..n, k - 1 \in G PROVE k \in G
    <3>1. k \in 0..n /\ k \in 1..Len(more) /\ o[k - 1] = p[k - 1] /\ more[k] = lots[k]
      BY <1>1, <2>1
    <3>2. o[k] = o[k - 1] \o Shares(lots[k].qty, lots[k].cost)
          /\ p[k] = p[k - 1] \o Shares(more[k].qty, more[k].cost)
      BY <1>2, <1>3, <3>1
    <3>3. QED BY <3>1, <3>2
  <2>2. QED BY <2>1
<1>6. o[n] = p[n]
  <2> HIDE DEF G
  <2>1. n \in 0..n
    BY <1>1
  <2>2. n \in G
    BY <1>1, <1>4, <1>5, <2>1, IntervalInduction
  <2>3. QED BY <2>2 DEF G
<1>7. p[n + 1] = p[n] \o Shares(lot.qty, lot.cost)
  <2> DEFINE m == n + 1
  <2>1. m \in 1..Len(more) /\ m - 1 = n /\ more[m] = lot
    BY <1>1
  <2> HIDE DEF m
  <2>2. p[m] = p[m - 1] \o Shares(more[m].qty, more[m].cost)
    BY <1>3, <2>1
  <2>3. p[m] = p[n] \o Shares(lot.qty, lot.cost)
    BY <2>1, <2>2
  <2>4. QED BY <2>3 DEF m
<1>8. QED BY <1>1, <1>2, <1>3, <1>6, <1>7 DEF more

\* What the first t shares earn at a net price.
Earned(net, o, t) == SumOf([u \in 1..t |-> net - o[u]], 1..t)

LEMMA EarnedType ==
    ASSUME NEW net \in Int, NEW o \in Seq(Int), NEW t \in 0..Len(o)
    PROVE  Earned(net, o, t) \in Int
<1> DEFINE v == [u \in 1..t |-> net - o[u]]
<1>1. \A u \in 1..t : v[u] \in Int
  <2>1. \A u \in 1..t : o[u] \in Int
    OBVIOUS
  <2>2. QED BY <2>1
<1>2. IsFiniteSet(1..t) /\ 0 \in Int /\ \A p, q \in Int : p + q \in Int
  BY FS_Interval
<1> HIDE DEF v
<1>3. SumOf(v, 1..t) \in Int
  BY <1>1, <1>2, SumOfType
<1>4. QED BY <1>3 DEF Earned, v

LEMMA EarnedNone == ASSUME NEW net, NEW o PROVE Earned(net, o, 0) = 0
<1>1. 1..0 = {}
  OBVIOUS
<1>2. QED BY <1>1, SumOfEmpty DEF Earned

LEMMA EarnedNext ==
    ASSUME NEW net \in Int, NEW o \in Seq(Int), NEW t \in 1..Len(o)
    PROVE  Earned(net, o, t) = Earned(net, o, t - 1) + (net - o[t])
<1> DEFINE v == [u \in 1..t |-> net - o[u]]
           w == [u \in 1..(t - 1) |-> net - o[u]]
<1>1. \A u \in 1..t : o[u] \in Int
  OBVIOUS
<1>2. (\A u \in 1..t : v[u] \in Int) /\ v[t] = net - o[t] /\ \A u \in 1..(t - 1) : v[u] = w[u]
  BY <1>1
<1>3. IsFiniteSet(1..t) /\ IsFiniteSet(1..(t - 1)) /\ t \in 1..t /\ (1..t) \ {t} = 1..(t - 1)
  <2>1. t \in Nat /\ t >= 1
    OBVIOUS
  <2>2. t \in 1..t /\ (1..t) \ {t} = 1..(t - 1)
    BY <2>1
  <2>3. IsFiniteSet(1..t) /\ IsFiniteSet(1..(t - 1))
    BY <2>1, FS_Interval
  <2>4. QED BY <2>2, <2>3
<1> HIDE DEF v, w
<1>4. SumOf(v, 1..t) = v[t] + SumOf(v, 1..(t - 1))
  <2> DEFINE S == 1..t
  <2>1. IsFiniteSet(S) /\ t \in S /\ \A u \in S : v[u] \in Int
    BY <1>2, <1>3
  <2> HIDE DEF S
  <2>2. SumOf(v, S) = v[t] + SumOf(v, S \ {t})
    BY <2>1, SumOfAdd
  <2>3. QED BY <1>3, <2>2 DEF S
<1>5. SumOf(v, 1..(t - 1)) = SumOf(w, 1..(t - 1))
  BY <1>2, <1>3, SumOfEqual
<1>6. SumOf(w, 1..(t - 1)) \in Int
  <2>1. t - 1 \in 0..Len(o)
    OBVIOUS
  <2>2. QED BY <2>1, EarnedType DEF Earned, w
<1>7. o[t] \in Int
  BY <1>1, <1>3
<1>8. SumOf(v, 1..t) = SumOf(w, 1..(t - 1)) + (net - o[t])
  BY <1>2, <1>4, <1>5, <1>6, <1>7
<1>9. QED BY <1>8 DEF Earned, v, w

\* Shares of one cost earn its distance from the price, each.
LEMMA EarnedMore ==
    ASSUME NEW net \in Int, NEW x \in Seq(Int), NEW qty \in Nat, NEW cost \in Int, NEW k \in 0..qty
    PROVE  /\ x \o Shares(qty, cost) \in Seq(Int) /\ Len(x \o Shares(qty, cost)) = Len(x) + qty
           /\ \A t \in 0..Len(x) : Earned(net, x \o Shares(qty, cost), t) = Earned(net, x, t)
           /\ Earned(net, x \o Shares(qty, cost), Len(x) + k)
                 = Earned(net, x, Len(x)) + k * (net - cost)
<1> DEFINE y == Shares(qty, cost)
           z == x \o y
           n == Len(x)
           e == Earned(net, x, n)
           G == {j \in 0..qty : Earned(net, z, n + j) = e + j * (net - cost)}
<1>1. n \in Nat /\ y \in Seq(Int) /\ Len(y) = qty /\ \A i \in 1..qty : y[i] = cost
  BY SharesType
<1> HIDE DEF y
<1>2. /\ z \in Seq(Int) /\ Len(z) = n + qty
      /\ \A i \in 1..(n + qty) : z[i] = IF i <= n THEN x[i] ELSE y[i - n]
  BY <1>1, ConcatProperties
<1> HIDE DEF z
<1>3. ASSUME NEW t \in 0..n PROVE Earned(net, z, t) = Earned(net, x, t)
  <2>1. \A u \in 1..t : z[u] = x[u]
    <3>1. \A u \in 1..t : u \in 1..(n + qty) /\ u <= n
      BY <1>1
    <3>2. QED BY <1>2, <3>1
  <2>2. [u \in 1..t |-> net - z[u]] = [u \in 1..t |-> net - x[u]]
    BY <2>1
  <2>3. QED BY <2>2 DEF Earned
<1>4. e \in Int
  <2>1. n \in 0..Len(x)
    BY <1>1
  <2>2. QED BY <2>1, EarnedType
<1>5. Earned(net, z, n) = e
  <2>1. n \in 0..n
    BY <1>1
  <2>2. QED BY <1>3, <2>1
<1> HIDE DEF n, e
<1>6. 0 \in G
  <2>1. n + 0 = n /\ e + 0 * (net - cost) = e /\ 0 \in 0..qty
    BY <1>1, <1>4
  <2>2. QED BY <1>5, <2>1
<1>7. \A j \in 1..qty : j - 1 \in G => j \in G
  <2>1. ASSUME NEW j \in 1..qty, j - 1 \in G PROVE j \in G
    <3> DEFINE t == n + j
               d == net - cost
    <3>1. t \in 1..Len(z) /\ t - 1 = n + (j - 1) /\ t - n = j /\ ~(t <= n) /\ t \in 1..(n + qty)
      BY <1>1, <1>2
    <3> HIDE DEF t
    <3>2. z[t] = cost
      BY <1>1, <1>2, <3>1
    <3>3. Earned(net, z, t - 1) = e + (j - 1) * (net - cost)
      BY <2>1, <3>1
    <3>4. Earned(net, z, t) = Earned(net, z, t - 1) + (net - z[t])
      BY <1>2, <3>1, EarnedNext
    <3>5. d \in Int /\ (j - 1) * d \in Int /\ (j - 1) * d + d = j * d
      <4>1. d \in Int
        OBVIOUS
      <4> HIDE DEF d
      <4>2. QED BY <4>1
    <3>6. Earned(net, z, t) = e + j * d
      BY <3>2, <3>3, <3>4, <3>5, <1>4
    <3>7. j \in 0..qty
      OBVIOUS
    <3>8. QED BY <3>6, <3>7 DEF t
  <2>2. QED BY <2>1
<1>8. k \in G
  <2> HIDE DEF G
  <2>1. QED BY <1>6, <1>7, IntervalInduction
<1>9. QED BY <1>2, <1>3, <1>8 DEF n, e, z, y

\* What a share of a sale brings, and what a share of a purchase costs.
NetPrice(sale) == sale.price - sale.fee \div sale.qty
CostOf(order) == order.price + order.fee \div order.qty

LEMMA PriceType ==
    ASSUME NEW t \in Orders
    PROVE  /\ t.qty \in Nat /\ t.qty # 0 /\ NetPrice(t) \in Int /\ CostOf(t) \in Int
           /\ Lot(t) = [qty |-> t.qty, cost |-> CostOf(t)] /\ Lot(t) \in Lots
<1> DEFINE q == t.qty
           p == t.price
           f == t.fee
           d == f \div q
<1>1. q \in Nat /\ q # 0 /\ p \in Nat /\ f \in Nat /\ f % q = 0
  BY PerformanceAssumption
<1> HIDE DEF q, p, f
<1>2. d \in Int /\ f = q * d
  <2>1. d \in Int /\ f = q * d + (f % q)
    BY <1>1
  <2>2. QED BY <1>1, <2>1
<1> HIDE DEF d
<1>3. (q * p + f) \div q = p + d
  <2>1. q * p + f = q * (p + d)
    <3>1. \A x, y, z \in Int : x * y + x * z = x * (y + z)
      OBVIOUS
    <3>2. q * p + q * d = q * (p + d)
      BY <1>1, <1>2, <3>1
    <3>3. QED BY <1>2, <3>2
  <2>2. \A x \in Int : (q * x) \div q = x
    BY <1>1
  <2>3. p + d \in Int
    BY <1>1, <1>2
  <2>4. QED BY <2>1, <2>2, <2>3
<1>4. p - d \in Int /\ p + d \in Int
  BY <1>1, <1>2
<1>5. Lot(t) = [qty |-> q, cost |-> p + d]
  BY <1>3 DEF Lot, q, p, f
<1>6. QED BY <1>1, <1>4, <1>5 DEF NetPrice, CostOf, Lots, d, q, p, f

\* How far a sale has come through the lots.
Matching == [left : Nat, pnl : Int, lots : Seq(Lots)]
FirstMatch(sale) == [left |-> sale.qty, pnl |-> 0, lots |-> <<>>]
TakeAt(sale, lots) == [k \in 1..Len(lots) |-> [m \in Matching |-> Take(sale, m, lots[k])]]
Taking(m, lot) == IF m.left <= lot.qty THEN m.left ELSE lot.qty

LEMMA TakeType ==
    ASSUME NEW sale \in Orders, NEW m \in Matching, NEW lot \in Lots
    PROVE  LET take == Taking(m, lot)
           IN  /\ take \in 0..lot.qty /\ take \in 0..m.left
               /\ Take(sale, m, lot) \in Matching
               /\ Take(sale, m, lot).left = m.left - take
               /\ Take(sale, m, lot).pnl = m.pnl + take * (NetPrice(sale) - lot.cost)
               /\ take = lot.qty => Take(sale, m, lot).lots = m.lots
               /\ take # lot.qty => Take(sale, m, lot).lots =
                                       Append(m.lots, [qty |-> lot.qty - take, cost |-> lot.cost])
<1> DEFINE take == Taking(m, lot)
           gain == NetPrice(sale) - lot.cost
           less == [lot EXCEPT !.qty = @ - take]
           more == IF take = lot.qty THEN m.lots ELSE Append(m.lots, less)
<1>1. /\ m.left \in Nat /\ m.pnl \in Int /\ m.lots \in Seq(Lots)
      /\ lot.qty \in Nat /\ lot.qty # 0 /\ lot.cost \in Int
  BY DEF Matching, Lots
<1>2. take \in 0..lot.qty /\ take \in 0..m.left
  BY <1>1 DEF Taking
<1>3. Min({m.left, lot.qty}) = take
  BY <1>1, MinOfTwo DEF Taking
<1>4. Take(sale, m, lot) = [left |-> m.left - take, pnl |-> m.pnl + take * gain, lots |-> more]
  <2> HIDE DEF take
  <2>1. QED BY <1>3 DEF Take, NetPrice
<1> HIDE DEF take
<1>5. gain \in Int
  BY <1>1, PriceType
<1> HIDE DEF gain
<1>6. m.left - take \in Nat /\ m.pnl + take * gain \in Int
  <2>1. take * gain \in Int
    BY <1>2, <1>5
  <2>2. QED BY <1>1, <1>2, <2>1
<1>7. less = [qty |-> lot.qty - take, cost |-> lot.cost]
  BY DEF Lots
<1>8. take # lot.qty => less \in Lots
  BY <1>1, <1>2, <1>7 DEF Lots
<1> HIDE DEF less
<1>9. more \in Seq(Lots)
  BY <1>1, <1>8, AppendProperties
<1> DEFINE pnl == m.pnl + take * gain
           left == m.left - take
<1> HIDE DEF pnl, left
<1>10. Take(sale, m, lot) = [left |-> left, pnl |-> pnl, lots |-> more]
       /\ left \in Nat /\ pnl \in Int
  BY <1>4, <1>6 DEF pnl, left
<1>11. Take(sale, m, lot) \in Matching
  <2> HIDE DEF more
  <2>1. QED BY <1>9, <1>10 DEF Matching
<1>12. QED BY <1>2, <1>7, <1>10, <1>11 DEF take, gain, pnl, left

LEMMA MatchIsWalk ==
    ASSUME NEW sale \in Orders, NEW lots \in Seq(Lots)
    PROVE  \E a : /\ IsWalk(a, TakeAt(sale, lots), FirstMatch(sale), Len(lots), Matching)
                  /\ a[Len(lots)] = Match(sale, lots)
<1> DEFINE n == Len(lots)
           h == TakeAt(sale, lots)
           b == FirstMatch(sale)
           Is(g) == g = [s \in SUBSET DOMAIN lots |->
                           IF s = {} THEN b
                           ELSE LET x == Max(s) IN Take(sale, g[s \ {x}], lots[x])]
           it == CHOOSE g : Is(g)
<1>1. n \in Nat /\ DOMAIN lots = 1..n /\ \A k \in 1..n : lots[k] \in Lots
  OBVIOUS
<1>2. h \in [1..n -> [Matching -> Matching]]
  BY TakeType, <1>1 DEF TakeAt
<1>3. \A k \in 1..n : \A m \in Matching : h[k][m] = Take(sale, m, lots[k])
  BY DEF TakeAt
<1>4. b \in Matching
  BY PriceType DEF FirstMatch, Matching
<1>5. Match(sale, lots) = FoldLeft(LAMBDA m, lot : Take(sale, m, lot), b, lots)
  BY DEF Match, FirstMatch
<1> HIDE DEF n, h, b
<1>6. PICK g \in [SUBSET (1..n) -> Matching] : IsFold(g, h, b, n)
  BY <1>1, <1>2, <1>4, FoldsExist
<1>7. Is(g)
  <2>1. ASSUME NEW s \in SUBSET (1..n), s # {}
        PROVE  h[Max(s)][g[s \ {Max(s)}]] = Take(sale, g[s \ {Max(s)}], lots[Max(s)])
    <3>1. Max(s) \in 1..n /\ g[s \ {Max(s)}] \in Matching
      BY <1>1, <2>1, LastIndex
    <3>2. QED BY <3>1, <1>3
  <2>2. QED BY <2>1, <1>1, <1>6 DEF IsFold
<1>8. Is(it)
  <2> HIDE DEF Is
  <2>1. QED BY <1>7
<1>9. Match(sale, lots) = it[1..n]
  BY <1>1, <1>5 DEF FoldLeft, MapThenFoldSet
<1>10. Unfolds(it, h, b, n, Matching)
  <2> HIDE DEF it
  <2>1. it[{}] = b
    BY <1>1, <1>8
  <2>2. ASSUME NEW s \in SUBSET (1..n), s # {}, it[s \ {Max(s)}] \in Matching
        PROVE  it[s] = h[Max(s)][it[s \ {Max(s)}]]
    <3>1. Max(s) \in 1..n
      BY <1>1, <2>2, LastIndex
    <3>2. it[s] = Take(sale, it[s \ {Max(s)}], lots[Max(s)])
      BY <1>1, <1>8, <2>2
    <3>3. QED BY <3>1, <3>2, <2>2, <1>3
  <2>3. QED BY <2>1, <2>2, <1>1, <1>2, <1>4 DEF Unfolds
<1> HIDE DEF it
<1>11. QED BY <1>9, <1>10, FoldIsWalk DEF n, h, b

\* A sale has met what it finds of the shares o, the oldest ones.
Meets(sale, o) == IF sale.qty <= Len(o) THEN sale.qty ELSE Len(o)
Met(sale, m, o) ==
    /\ m.left = sale.qty - Meets(sale, o)
    /\ Open(m.lots) = Rest(o, Meets(sale, o))
    /\ m.pnl = Earned(NetPrice(sale), o, Meets(sale, o))

\* One lot more, whose shares come last.
LEMMA TakeStep ==
    ASSUME NEW sale \in Orders, NEW m \in Matching, NEW lot \in Lots, NEW o \in Seq(Int),
           Met(sale, m, o)
    PROVE  Met(sale, Take(sale, m, lot), o \o Shares(lot.qty, lot.cost))
<1> DEFINE n == Len(o)
           q == lot.qty
           c == lot.cost
           new == Shares(q, c)
           both == o \o new
           net == NetPrice(sale)
           t == Meets(sale, o)
           take == Taking(m, lot)
           next == Take(sale, m, lot)
<1>1. /\ n \in Nat /\ q \in Nat /\ q # 0 /\ c \in Int /\ net \in Int /\ sale.qty \in Nat
      /\ m.left \in Nat /\ m.pnl \in Int /\ m.lots \in Seq(Lots)
      /\ t = IF sale.qty <= n THEN sale.qty ELSE n
  BY PriceType DEF Lots, Matching, Meets
<1>2. /\ take = (IF m.left <= q THEN m.left ELSE q) /\ take \in 0..q
      /\ next.left = m.left - take /\ next.lots \in Seq(Lots)
      /\ next.pnl = m.pnl + take * (net - c)
      /\ take = q => next.lots = m.lots
      /\ take # q => next.lots = Append(m.lots, [qty |-> q - take, cost |-> c])
  BY TakeType DEF Taking, Matching
<1>3. m.left = sale.qty - t /\ Open(m.lots) = Rest(o, t) /\ m.pnl = Earned(net, o, t)
  BY DEF Met
<1>4. new \in Seq(Int) /\ Len(new) = q
  BY <1>1, SharesType
<1>5. /\ both \in Seq(Int) /\ Len(both) = n + q
      /\ \A u \in 0..n : Earned(net, both, u) = Earned(net, o, u)
      /\ \A k \in 0..q : Earned(net, both, n + k) = Earned(net, o, n) + k * (net - c)
  <2> DEFINE all == o \o Shares(q, c)
  <2> HIDE DEF net, q, c
  <2>1. ASSUME NEW k \in 0..q
        PROVE  /\ all \in Seq(Int) /\ Len(all) = Len(o) + q
               /\ \A u \in 0..Len(o) : Earned(net, all, u) = Earned(net, o, u)
               /\ Earned(net, all, Len(o) + k) = Earned(net, o, Len(o)) + k * (net - c)
    <3>1. q \in Nat /\ c \in Int /\ net \in Int
      BY <1>1
    <3>2. QED BY <3>1, EarnedMore, ZenonT(30)
  <2>2. 0 \in 0..q
    BY <1>1
  <2>3. all = both
    OBVIOUS
  <2> HIDE DEF all, both
  <2>4. QED BY <2>1, <2>2, <2>3
<1>6. \A u \in 0..n : Rest(both, u) = Rest(o, u) \o new
  BY <1>4, RestOfConcat
<1>7. take # q => Open(next.lots) = Open(m.lots) \o Shares(q - take, c)
  <2> SUFFICES ASSUME take # q PROVE Open(next.lots) = Open(m.lots) \o Shares(q - take, c)
    OBVIOUS
  <2> DEFINE rest == [qty |-> q - take, cost |-> c]
  <2>1. rest \in Lots /\ rest.qty = q - take /\ rest.cost = c
    <3>1. take \in 0..q /\ q \in Nat /\ c \in Int
      BY <1>1, <1>2
    <3> HIDE DEF take, q, c
    <3>2. q - take \in Nat \ {0}
      BY <3>1
    <3>3. QED BY <3>1, <3>2 DEF Lots
  <2> HIDE DEF rest
  <2>2. next.lots = Append(m.lots, rest)
    BY <1>2 DEF rest
  <2>3. QED BY <1>1, <2>1, <2>2, OpenAppend
<1>8. Meets(sale, both) = IF sale.qty <= n + q THEN sale.qty ELSE n + q
  BY <1>5 DEF Meets
<1> DEFINE left == m.left
           asked == sale.qty
           met == Meets(sale, both)
<1>a. /\ n \in Nat /\ q \in Nat /\ q # 0 /\ asked \in Nat /\ left \in Nat
      /\ t = (IF asked <= n THEN asked ELSE n) /\ take = (IF left <= q THEN left ELSE q)
      /\ left = asked - t /\ met = (IF asked <= n + q THEN asked ELSE n + q)
      /\ next.left = left - take
  BY <1>1, <1>2, <1>3, <1>8
<1> HIDE DEF take, next, both, new, t, net, q, c, n, left, asked, met
<1>9. CASE m.left = 0
  <2>1. take = 0 /\ take # q /\ t = asked /\ met = t /\ t \in 0..n /\ next.left = asked - t
    BY <1>a, <1>9 DEF left
  <2>2. Meets(sale, both) = t /\ next.left = sale.qty - t
    BY <2>1 DEF met, asked
  <2>3. Open(next.lots) = Rest(both, t)
    <3>1. q - take = q
      BY <1>1, <2>1
    <3>2. QED BY <1>3, <1>6, <1>7, <2>1, <3>1 DEF new
  <2>4. next.pnl = Earned(net, both, t)
    <3>1. 0 * (net - c) = 0
      BY <1>1
    <3>2. next.pnl = m.pnl
      <4>1. next.pnl = m.pnl + 0 * (net - c)
        BY <1>2, <2>1
      <4>2. QED BY <1>1, <3>1, <4>1
    <3>3. QED BY <1>3, <1>5, <2>1, <3>2
  <2>5. QED BY <2>2, <2>3, <2>4 DEF Met, next, both, new, net, q, c
<1>10. CASE m.left # 0
  <2>1. t = n /\ t \in 0..n /\ met = n + take /\ next.left = asked - (n + take)
    BY <1>a, <1>10 DEF left
  <2>2. Meets(sale, both) = n + take /\ next.left = sale.qty - (n + take)
    BY <2>1 DEF met, asked
  <2>3. next.pnl = Earned(net, both, n + take)
    BY <1>2, <1>3, <1>5, <2>1
  <2>4. Rest(o, n) = <<>>
    <3>1. Rest(o, n) \in Seq(Int) /\ Len(Rest(o, n)) = n - n
      BY <2>1, RestIs DEF n
    <3>2. QED BY <1>1, <3>1, EmptySeq
  <2>5. Rest(both, n) = new
    <3>1. Rest(both, n) = <<>> \o new
      BY <1>6, <2>1, <2>4
    <3>2. QED BY <1>4, <3>1, ConcatEmptySeq
  <2>6. Rest(both, n + take) = Shares(q - take, c)
    <3>1. n \in 0..Len(both) /\ take \in 0..(Len(both) - n)
      BY <1>1, <1>2, <1>5
    <3>2. Rest(both, n + take) = Rest(new, take)
      BY <1>5, <2>5, <3>1, RestOfRest
    <3>3. QED BY <1>1, <1>2, <3>2, RestOfShares DEF new
  <2>7. Open(next.lots) = Shares(q - take, c)
    <3>1. Open(m.lots) = <<>>
      BY <1>3, <2>1, <2>4
    <3>2. q - take \in Nat
      BY <1>a
    <3>3. Shares(q - take, c) \in Seq(Int) /\ Len(Shares(q - take, c)) = q - take
      BY <1>1, <3>2, SharesType
    <3>4. CASE take = q
      <4>1. Len(Shares(q - take, c)) = 0
        BY <1>1, <3>3, <3>4
      <4>2. Shares(q - take, c) = <<>>
        BY <3>3, <4>1, EmptySeq
      <4>3. QED BY <1>2, <3>1, <3>4, <4>2
    <3>5. CASE take # q
      BY <1>7, <3>1, <3>3, <3>5, ConcatEmptySeq
    <3>6. QED BY <3>4, <3>5
  <2>8. QED BY <2>2, <2>3, <2>6, <2>7 DEF Met, next, both, new, net, q, c
<1>11. QED BY <1>9, <1>10

\* A sale meets the oldest open shares, at their cost, and leaves the others.
LEMMA MatchTakesOldest ==
    ASSUME NEW sale \in Orders, NEW lots \in Seq(Lots)
    PROVE  Match(sale, lots) \in Matching /\ Met(sale, Match(sale, lots), Open(lots))
<1> DEFINE n == Len(lots)
           o == Opens(lots)
<1>1. n \in Nat /\ \A k \in 1..n : lots[k] \in Lots
  OBVIOUS
<1>2. PICK a : /\ IsWalk(a, TakeAt(sale, lots), FirstMatch(sale), n, Matching)
               /\ a[n] = Match(sale, lots)
  BY MatchIsWalk
<1>3. /\ a \in [0..n -> Matching] /\ a[0] = FirstMatch(sale)
      /\ \A k \in 1..n : a[k] = Take(sale, a[k - 1], lots[k])
  <2>1. a \in [0..n -> Matching] /\ a[0] = FirstMatch(sale)
    BY <1>2 DEF IsWalk
  <2>2. ASSUME NEW k \in 1..n PROVE a[k] = Take(sale, a[k - 1], lots[k])
    <3>1. k - 1 \in 0..n
      BY <1>1
    <3>2. a[k] = TakeAt(sale, lots)[k][a[k - 1]] /\ a[k - 1] \in Matching
      BY <1>2, <2>1, <3>1 DEF IsWalk
    <3>3. QED BY <3>2 DEF TakeAt
  <2>3. QED BY <2>1, <2>2
<1>4. /\ o[0] = <<>> /\ Open(lots) = o[n]
      /\ \A k \in 0..n : o[k] \in Seq(Int)
      /\ \A k \in 1..n : o[k] = o[k - 1] \o Shares(lots[k].qty, lots[k].cost)
  BY OpensAre
<1> HIDE DEF n, o
<1> DEFINE G == {k \in 0..n : Met(sale, a[k], o[k])}
<1>5. 0 \in G
  <2> DEFINE b == FirstMatch(sale)
  <2>1. sale.qty \in Nat /\ sale.qty # 0
    BY PriceType
  <2>2. <<>> \in Seq(Int) /\ Len(<<>>) = 0
    OBVIOUS
  <2>3. Meets(sale, <<>>) = 0
    BY <2>1, <2>2 DEF Meets
  <2>4. b.left = sale.qty /\ b.pnl = 0 /\ b.lots = <<>>
    BY DEF FirstMatch
  <2>5. Rest(<<>>, 0) = <<>>
    <3>1. 0 \in 0..Len(<<>>)
      BY <2>2
    <3>2. Rest(<<>>, 0) \in Seq(Int) /\ Len(Rest(<<>>, 0)) = Len(<<>>) - 0
      BY <2>2, <3>1, RestIs
    <3>3. QED BY <2>2, <3>2, EmptySeq
  <2> HIDE DEF b
  <2>6. Met(sale, b, <<>>)
    BY <2>1, <2>3, <2>4, <2>5, OpenEmpty, EarnedNone DEF Met
  <2>7. 0 \in 0..n
    BY <1>1
  <2>8. QED BY <1>3, <1>4, <2>6, <2>7 DEF b
<1>6. \A k \in 1..n : k - 1 \in G => k \in G
  <2>1. ASSUME NEW k \in 1..n, k - 1 \in G PROVE k \in G
    <3>1. k \in 0..n /\ k - 1 \in 0..n
      BY <1>1
    <3>2. Met(sale, a[k - 1], o[k - 1]) /\ a[k - 1] \in Matching /\ o[k - 1] \in Seq(Int)
      BY <1>3, <1>4, <2>1, <3>1
    <3>3. Met(sale, Take(sale, a[k - 1], lots[k]), o[k - 1] \o Shares(lots[k].qty, lots[k].cost))
      BY <1>1, <3>2, TakeStep
    <3>4. QED BY <1>3, <1>4, <3>1, <3>3
  <2>2. QED BY <2>1
<1>7. n \in G
  <2>1. n \in 0..n
    BY <1>1
  <2> HIDE DEF G
  <2>2. QED BY <1>1, <1>5, <1>6, <2>1, IntervalInduction
<1>8. a[n] \in Matching
  BY <1>1, <1>3
<1>9. QED BY <1>2, <1>4, <1>7, <1>8 DEF n

\* The shares bought so far, row by row.
LEMMA BoughtAre ==
    ASSUME NEW rows \in Seq(Orders), NEW s
    PROVE  /\ Bought(rows, s)[0] = <<>>
           /\ \A k \in 0..Len(rows) : Bought(rows, s)[k] \in Seq(Int)
           /\ \A k \in 1..Len(rows) :
                 Bought(rows, s)[k] =
                    IF rows[k].symbol = s /\ rows[k].side = "BUY"
                    THEN Bought(rows, s)[k - 1] \o Shares(rows[k].qty, CostOf(rows[k]))
                    ELSE Bought(rows, s)[k - 1]
<1> DEFINE n == Len(rows)
           Buys(k) == rows[k].symbol = s /\ rows[k].side = "BUY"
           more(k) == Shares(rows[k].qty, rows[k].price + rows[k].fee \div rows[k].qty)
           h == [k \in 1..n |-> [x \in Seq(Int) |-> IF Buys(k) THEN x \o more(k) ELSE x]]
           Is(g) == g = [k \in 0..n |-> IF k = 0 THEN <<>>
                                        ELSE IF Buys(k) THEN g[k - 1] \o more(k) ELSE g[k - 1]]
           o == Bought(rows, s)
<1>1. n \in Nat /\ <<>> \in Seq(Int)
  OBVIOUS
<1>2. \A k \in 1..n : more(k) \in Seq(Int)
  <2> SUFFICES ASSUME NEW k \in 1..n PROVE more(k) \in Seq(Int)
    OBVIOUS
  <2>1. rows[k] \in Orders
    OBVIOUS
  <2>2. rows[k].qty \in Nat /\ CostOf(rows[k]) \in Int
    BY <2>1, PriceType
  <2>3. QED BY <2>2, SharesType DEF CostOf
<1>3. o = CHOOSE g : Is(g)
  BY DEF Bought
<1> HIDE DEF n, more, o
<1>4. h \in [1..n -> [Seq(Int) -> Seq(Int)]]
  <2>1. \A k \in 1..n : \A x \in Seq(Int) : x \o more(k) \in Seq(Int)
    BY <1>2, ConcatProperties
  <2>2. QED BY <2>1
<1>5. \A k \in 1..n : \A x \in Seq(Int) : h[k][x] = IF Buys(k) THEN x \o more(k) ELSE x
  OBVIOUS
<1> HIDE DEF h, Buys
<1>6. PICK a : IsWalk(a, h, <<>>, n, Seq(Int))
  BY <1>1, <1>4, WalksExist
<1>7. a \in [0..n -> Seq(Int)] /\ a[0] = <<>> /\ \A k \in 1..n : a[k] = h[k][a[k - 1]]
  BY <1>6 DEF IsWalk
<1>8. \A k \in 1..n : a[k] = IF Buys(k) THEN a[k - 1] \o more(k) ELSE a[k - 1]
  <2> SUFFICES ASSUME NEW k \in 1..n
               PROVE  a[k] = IF Buys(k) THEN a[k - 1] \o more(k) ELSE a[k - 1]
    OBVIOUS
  <2>1. k - 1 \in 0..n
    BY <1>1
  <2>2. a[k - 1] \in Seq(Int)
    BY <1>7, <2>1
  <2>3. QED BY <1>5, <1>7, <2>2
<1>9. Is(a)
  <2>1. a = [k \in 0..n |-> a[k]]
    BY <1>7
  <2>2. \A k \in 0..n : k = 0 \/ k \in 1..n
    BY <1>1
  <2>3. QED BY <1>7, <1>8, <2>1, <2>2
<1>10. o = [k \in 0..n |-> IF k = 0 THEN <<>>
                           ELSE IF Buys(k) THEN o[k - 1] \o more(k) ELSE o[k - 1]]
  <2>1. Is(o)
    <3> HIDE DEF Is
    <3>1. QED BY <1>3, <1>9
  <2>2. QED BY <2>1
<1>11. o[0] = <<>>
  <2>1. 0 \in 0..n
    BY <1>1
  <2>2. QED BY <1>10, <2>1
<1>12. \A k \in 1..n : o[k] = IF Buys(k) THEN o[k - 1] \o more(k) ELSE o[k - 1]
  <2> SUFFICES ASSUME NEW k \in 1..n
               PROVE  o[k] = IF Buys(k) THEN o[k - 1] \o more(k) ELSE o[k - 1]
    OBVIOUS
  <2>1. k \in 0..n /\ k # 0
    BY <1>1
  <2>2. QED BY <1>10, <2>1
<1>13. \A k \in 0..n : o[k] \in Seq(Int)
  <2> DEFINE G == {k \in 0..n : o[k] \in Seq(Int)}
  <2>1. 0 \in G
    <3>1. 0 \in 0..n /\ o[0] \in Seq(Int)
      BY <1>1, <1>11
    <3>2. QED BY <3>1
  <2>2. \A k \in 1..n : k - 1 \in G => k \in G
    <3>1. ASSUME NEW k \in 1..n, k - 1 \in G PROVE k \in G
      <4>1. k \in 0..n /\ o[k - 1] \in Seq(Int) /\ more(k) \in Seq(Int)
        BY <1>1, <1>2, <3>1
      <4>2. o[k - 1] \o more(k) \in Seq(Int)
        BY <4>1, ConcatProperties
      <4>3. QED BY <1>12, <4>1, <4>2
    <3>2. QED BY <3>1
  <2> HIDE DEF G
  <2>3. \A k \in 0..n : k \in G
    BY <1>1, <2>1, <2>2, IntervalInduction
  <2>4. QED BY <2>3 DEF G
<1>14. QED BY <1>11, <1>12, <1>13 DEF o, n, Buys, more, CostOf

\* How many are held, row by row.
LEMMA PositionsAre ==
    ASSUME NEW rows \in Seq(Orders), NEW s
    PROVE  /\ Position(rows, s)[0] = 0
           /\ \A k \in 0..Len(rows) : Position(rows, s)[k] \in Nat
           /\ \A k \in 1..Len(rows) :
                 Position(rows, s)[k] =
                    IF rows[k].symbol # s THEN Position(rows, s)[k - 1]
                    ELSE IF rows[k].side = "BUY" THEN Position(rows, s)[k - 1] + rows[k].qty
                    ELSE IF rows[k].qty <= Position(rows, s)[k - 1]
                         THEN Position(rows, s)[k - 1] - rows[k].qty ELSE 0
<1> DEFINE n == Len(rows)
           After(k, x) == IF rows[k].symbol # s THEN x
                          ELSE IF rows[k].side = "BUY" THEN x + rows[k].qty
                          ELSE Max({x - rows[k].qty, 0})
           h == [k \in 1..n |-> [x \in Nat |-> After(k, x)]]
           Is(g) == g = [k \in 0..n |-> IF k = 0 THEN 0 ELSE After(k, g[k - 1])]
           o == Position(rows, s)
<1>1. n \in Nat /\ \A k \in 1..n : rows[k].qty \in Nat
  <2>1. n \in Nat /\ \A k \in 1..n : rows[k] \in Orders
    OBVIOUS
  <2>2. QED BY <2>1, PriceType
<1>2. ASSUME NEW k \in 1..n, NEW x \in Nat
      PROVE  /\ After(k, x) \in Nat
             /\ After(k, x) = IF rows[k].symbol # s THEN x
                              ELSE IF rows[k].side = "BUY" THEN x + rows[k].qty
                              ELSE IF rows[k].qty <= x THEN x - rows[k].qty ELSE 0
  <2> DEFINE q == rows[k].qty
  <2>1. q \in Nat
    BY <1>1
  <2>2. Max({x - q, 0}) = IF q <= x THEN x - q ELSE 0
    <3> HIDE DEF q
    <3>1. x - q \in Int /\ 0 \in Int
      BY <2>1
    <3>2. Max({x - q, 0}) = IF x - q >= 0 THEN x - q ELSE 0
      BY <3>1, MaxOfTwo
    <3>3. QED BY <2>1, <3>2
  <2>3. QED BY <2>1, <2>2
<1>3. o = CHOOSE g : Is(g)
  BY DEF Position
<1> HIDE DEF n, o, After
<1>4. h \in [1..n -> [Nat -> Nat]]
  BY <1>2
<1>5. \A k \in 1..n : \A x \in Nat : h[k][x] = After(k, x)
  OBVIOUS
<1> HIDE DEF h
<1>6. PICK a : IsWalk(a, h, 0, n, Nat)
  <2>1. 0 \in Nat
    OBVIOUS
  <2>2. QED BY <1>1, <1>4, <2>1, WalksExist
<1>7. a \in [0..n -> Nat] /\ a[0] = 0 /\ \A k \in 1..n : a[k] = h[k][a[k - 1]]
  BY <1>6 DEF IsWalk
<1>8. \A k \in 1..n : a[k] = After(k, a[k - 1])
  <2> SUFFICES ASSUME NEW k \in 1..n PROVE a[k] = After(k, a[k - 1])
    OBVIOUS
  <2>1. k - 1 \in 0..n
    BY <1>1
  <2>2. a[k - 1] \in Nat
    BY <1>7, <2>1
  <2>3. QED BY <1>5, <1>7, <2>2
<1>9. Is(a)
  <2>1. a = [k \in 0..n |-> a[k]]
    BY <1>7
  <2>2. \A k \in 0..n : k = 0 \/ k \in 1..n
    BY <1>1
  <2>3. QED BY <1>7, <1>8, <2>1, <2>2
<1>10. o = [k \in 0..n |-> IF k = 0 THEN 0 ELSE After(k, o[k - 1])]
  <2>1. Is(o)
    <3> HIDE DEF Is
    <3>1. QED BY <1>3, <1>9
  <2>2. QED BY <2>1
<1>11. o[0] = 0
  <2>1. 0 \in 0..n
    BY <1>1
  <2>2. QED BY <1>10, <2>1
<1>12. \A k \in 1..n : o[k] = After(k, o[k - 1])
  <2> SUFFICES ASSUME NEW k \in 1..n PROVE o[k] = After(k, o[k - 1])
    OBVIOUS
  <2>1. k \in 0..n /\ k # 0
    BY <1>1
  <2>2. QED BY <1>10, <2>1
<1>13. \A k \in 0..n : o[k] \in Nat
  <2> DEFINE G == {k \in 0..n : o[k] \in Nat}
  <2>1. 0 \in G
    BY <1>1, <1>11
  <2>2. \A k \in 1..n : k - 1 \in G => k \in G
    <3>1. ASSUME NEW k \in 1..n, k - 1 \in G PROVE k \in G
      <4>1. k \in 0..n /\ o[k - 1] \in Nat
        BY <1>1, <3>1
      <4>2. QED BY <1>2, <1>12, <4>1
    <3>2. QED BY <3>1
  <2> HIDE DEF G
  <2>3. \A k \in 0..n : k \in G
    BY <1>1, <2>1, <2>2, IntervalInduction
  <2>4. QED BY <2>3 DEF G
<1>14. \A k \in 1..n : o[k] = IF rows[k].symbol # s THEN o[k - 1]
                              ELSE IF rows[k].side = "BUY" THEN o[k - 1] + rows[k].qty
                              ELSE IF rows[k].qty <= o[k - 1] THEN o[k - 1] - rows[k].qty ELSE 0
  <2> SUFFICES ASSUME NEW k \in 1..n
               PROVE  o[k] = IF rows[k].symbol # s THEN o[k - 1]
                             ELSE IF rows[k].side = "BUY" THEN o[k - 1] + rows[k].qty
                             ELSE IF rows[k].qty <= o[k - 1] THEN o[k - 1] - rows[k].qty ELSE 0
    OBVIOUS
  <2>1. k - 1 \in 0..n
    BY <1>1
  <2>2. o[k - 1] \in Nat
    BY <1>13, <2>1
  <2>3. QED BY <1>2, <1>12, <2>2
<1>15. QED BY <1>11, <1>13, <1>14 DEF o, n

\* Each sale counts once.
LEMMA SalesAre ==
    ASSUME NEW rows \in Seq(Orders)
    PROVE  /\ SalesTo(rows, 0) = 0
           /\ \A k \in 0..Len(rows) : SalesTo(rows, k) \in Nat
           /\ \A k \in 1..Len(rows) :
                 SalesTo(rows, k) = IF rows[k].side = "SELL" THEN SalesTo(rows, k - 1) + 1
                                    ELSE SalesTo(rows, k - 1)
<1> DEFINE S(k) == {i \in 1..k : rows[i].side = "SELL"}
<1>1. \A k \in Nat : IsFiniteSet(S(k)) /\ Cardinality(S(k)) \in Nat
  <2> SUFFICES ASSUME NEW k \in Nat PROVE IsFiniteSet(S(k)) /\ Cardinality(S(k)) \in Nat
    OBVIOUS
  <2>1. IsFiniteSet(1..k) /\ S(k) \subseteq 1..k
    BY FS_Interval
  <2> HIDE DEF S
  <2>2. QED BY <2>1, FS_Subset, FS_CardinalityType
<1>2. Cardinality(S(0)) = 0
  <2>1. S(0) = {}
    OBVIOUS
  <2>2. QED BY <2>1, FS_EmptySet
<1>3. ASSUME NEW k \in 1..Len(rows)
      PROVE  Cardinality(S(k)) = IF rows[k].side = "SELL" THEN Cardinality(S(k - 1)) + 1
                                 ELSE Cardinality(S(k - 1))
  <2>1. k - 1 \in Nat /\ k \in 1..k /\ k \notin 1..(k - 1) /\ 1..k = (1..(k - 1)) \cup {k}
    OBVIOUS
  <2>2. CASE rows[k].side = "SELL"
    <3>1. S(k) = S(k - 1) \cup {k} /\ k \notin S(k - 1)
      BY <2>1, <2>2
    <3> DEFINE old == S(k - 1)
               all == S(k)
    <3>2. IsFiniteSet(old) /\ all = old \cup {k} /\ k \notin old
      <4> HIDE DEF S
      <4>1. QED BY <1>1, <2>1, <3>1
    <3> HIDE DEF old, all
    <3>3. Cardinality(all) = Cardinality(old) + 1
      BY <3>2, FS_AddElement
    <3>4. QED BY <2>2, <3>3 DEF old, all
  <2>3. CASE rows[k].side # "SELL"
    <3>1. S(k) = S(k - 1)
      BY <2>1, <2>3
    <3>2. QED BY <2>3, <3>1
  <2>4. QED BY <2>2, <2>3
<1>4. \A k : SalesTo(rows, k) = Cardinality(S(k))
  BY DEF SalesTo
<1> HIDE DEF S
<1>5. \A k \in 0..Len(rows) : k \in Nat
  OBVIOUS
<1>6. QED BY <1>1, <1>2, <1>3, <1>4, <1>5

\* The books: open lots and the profits of the sales.
Book == [lots : [Symbols -> Seq(Lots)], sales : Seq(Int)]
NewBook == [lots |-> [s \in Symbols |-> <<>>], sales |-> <<>>]
BookAt(rows) == [k \in 1..Len(rows) |-> [x \in Book |-> Booked(x, rows[k])]]

LEMMA BookedType ==
    ASSUME NEW x \in Book, NEW row \in Orders
    PROVE  LET own   == x.lots[row.symbol]
               match == Match(row, own)
           IN  /\ own \in Seq(Lots)
               /\ Booked(x, row) \in Book
               /\ \A u \in Symbols \ {row.symbol} : Booked(x, row).lots[u] = x.lots[u]
               /\ row.side = "BUY" =>
                     /\ Booked(x, row).lots[row.symbol] = Append(own, Lot(row))
                     /\ Booked(x, row).sales = x.sales
               /\ row.side = "SELL" =>
                     /\ Booked(x, row).lots[row.symbol] = match.lots
                     /\ Booked(x, row).sales = Append(x.sales, match.pnl)
<1> DEFINE s == row.symbol
           own == x.lots[s]
           match == Match(row, own)
           bought == [x.lots EXCEPT ![s] = Append(own, Lot(row))]
           kept == [x.lots EXCEPT ![s] = match.lots]
           sales == Append(x.sales, match.pnl)
<1>1. s \in Symbols /\ row.side \in {"BUY", "SELL"}
  BY OrderType
<1>2. x.lots \in [Symbols -> Seq(Lots)] /\ x.sales \in Seq(Int) /\ x = [lots |-> x.lots, sales |-> x.sales]
  BY DEF Book
<1> HIDE DEF s
<1>3. own \in Seq(Lots)
  BY <1>1, <1>2
<1> HIDE DEF own
<1>4. match \in Matching
  BY <1>3, MatchTakesOldest
<1> HIDE DEF match
<1>5. match.lots \in Seq(Lots) /\ match.pnl \in Int
  BY <1>4 DEF Matching
<1>6. Append(own, Lot(row)) \in Seq(Lots)
  BY <1>3, PriceType, AppendProperties
<1>7. CASE row.side = "BUY"
  <2>1. Booked(x, row) = [lots |-> bought, sales |-> x.sales]
    <3>1. Booked(x, row) = [x EXCEPT !.lots[s] = Append(own, Lot(row))]
      BY <1>7 DEF Booked, s, own, match
    <3>2. QED BY <1>2, <3>1
  <2>2. /\ bought \in [Symbols -> Seq(Lots)] /\ bought[s] = Append(own, Lot(row))
        /\ \A u \in Symbols \ {s} : bought[u] = x.lots[u]
    BY <1>1, <1>2, <1>6
  <2> HIDE DEF bought
  <2>3. QED BY <1>2, <1>3, <1>7, <2>1, <2>2 DEF Book, s, own
<1>8. CASE row.side = "SELL"
  <2>1. Booked(x, row) = [lots |-> kept, sales |-> sales]
    BY <1>8 DEF Booked, s, own, match
  <2>2. /\ kept \in [Symbols -> Seq(Lots)] /\ kept[s] = match.lots
        /\ \A u \in Symbols \ {s} : kept[u] = x.lots[u]
    BY <1>1, <1>2, <1>5
  <2>3. sales \in Seq(Int)
    BY <1>2, <1>5, AppendProperties
  <2> HIDE DEF kept, sales
  <2>4. QED BY <1>3, <1>8, <2>1, <2>2, <2>3 DEF Book, s, own, match, sales
<1>9. QED BY <1>1, <1>7, <1>8

LEMMA FifoIsWalk ==
    ASSUME NEW rows \in Seq(Orders)
    PROVE  \E a : /\ IsWalk(a, BookAt(rows), NewBook, Len(rows), Book)
                  /\ a[Len(rows)] = Fifo(rows)
<1> DEFINE n == Len(rows)
           h == BookAt(rows)
           b == NewBook
           Is(g) == g = [s \in SUBSET DOMAIN rows |->
                           IF s = {} THEN b
                           ELSE LET x == Max(s) IN Booked(g[s \ {x}], rows[x])]
           it == CHOOSE g : Is(g)
<1>1. n \in Nat /\ DOMAIN rows = 1..n /\ \A k \in 1..n : rows[k] \in Orders
  OBVIOUS
<1>2. h \in [1..n -> [Book -> Book]]
  BY BookedType, <1>1 DEF BookAt
<1>3. \A k \in 1..n : \A x \in Book : h[k][x] = Booked(x, rows[k])
  BY DEF BookAt
<1>4. b \in Book
  BY DEF NewBook, Book
<1>5. Fifo(rows) = FoldLeft(Booked, b, rows)
  BY DEF Fifo, NewBook
<1> HIDE DEF n, h, b
<1>6. PICK g \in [SUBSET (1..n) -> Book] : IsFold(g, h, b, n)
  BY <1>1, <1>2, <1>4, FoldsExist
<1>7. Is(g)
  <2>1. ASSUME NEW s \in SUBSET (1..n), s # {}
        PROVE  h[Max(s)][g[s \ {Max(s)}]] = Booked(g[s \ {Max(s)}], rows[Max(s)])
    <3>1. Max(s) \in 1..n /\ g[s \ {Max(s)}] \in Book
      BY <1>1, <2>1, LastIndex
    <3>2. QED BY <3>1, <1>3
  <2>2. QED BY <2>1, <1>1, <1>6 DEF IsFold
<1>8. Is(it)
  <2> HIDE DEF Is
  <2>1. QED BY <1>7
<1>9. Fifo(rows) = it[1..n]
  BY <1>1, <1>5 DEF FoldLeft, MapThenFoldSet
<1>10. Unfolds(it, h, b, n, Book)
  <2> HIDE DEF it
  <2>1. it[{}] = b
    BY <1>1, <1>8
  <2>2. ASSUME NEW s \in SUBSET (1..n), s # {}, it[s \ {Max(s)}] \in Book
        PROVE  it[s] = h[Max(s)][it[s \ {Max(s)}]]
    <3>1. Max(s) \in 1..n
      BY <1>1, <2>2, LastIndex
    <3>2. it[s] = Booked(it[s \ {Max(s)}], rows[Max(s)])
      BY <1>1, <1>8, <2>2
    <3>3. QED BY <3>1, <3>2, <2>2, <1>3
  <2>3. QED BY <2>1, <2>2, <1>1, <1>2, <1>4 DEF Unfolds
<1> HIDE DEF it
<1>11. QED BY <1>9, <1>10, FoldIsWalk DEF n, h, b

\* The open lots of a symbol hold the shares bought last, as many as are held.
Holds(rows, k, s, lots) ==
    /\ Position(rows, s)[k] <= Len(Bought(rows, s)[k])
    /\ Open(lots) = Rest(Bought(rows, s)[k], Sold(rows, s, k))

LEMMA PurchaseHolds ==
    ASSUME NEW rows \in Seq(Orders), NEW k \in 1..Len(rows), rows[k].side = "BUY",
           NEW lots \in Seq(Lots), Holds(rows, k - 1, rows[k].symbol, lots)
    PROVE  Holds(rows, k, rows[k].symbol, Append(lots, Lot(rows[k])))
<1> DEFINE row == rows[k]
           s == row.symbol
           q == row.qty
           new == Shares(q, CostOf(row))
           b == Bought(rows, s)[k - 1]
           p == Position(rows, s)[k - 1]
           c == Bought(rows, s)[k]
           r == Position(rows, s)[k]
           o == Append(lots, Lot(row))
<1>1. row \in Orders /\ k - 1 \in 0..Len(rows)
  OBVIOUS
<1>2. q \in Nat /\ CostOf(row) \in Int /\ Lot(row) \in Lots /\ Lot(row).qty = q
      /\ Lot(row).cost = CostOf(row)
  BY <1>1, PriceType
<1>3. b \in Seq(Int) /\ p \in Nat /\ c = b \o new /\ r = p + q
  <2>1. b \in Seq(Int) /\ c = b \o new
    BY <1>1, BoughtAre
  <2>2. p \in Nat /\ r = p + q
    BY <1>1, PositionsAre
  <2>3. QED BY <2>1, <2>2
<1>4. p <= Len(b) /\ Open(lots) = Rest(b, Len(b) - p)
  BY DEF Holds, Sold
<1>5. new \in Seq(Int) /\ Len(new) = q
  BY <1>2, SharesType
<1>6. Open(o) = Open(lots) \o new
  BY <1>2, OpenAppend
<1> SUFFICES r <= Len(c) /\ Open(o) = Rest(c, Len(c) - r)
  BY DEF Holds, Sold
<1> HIDE DEF row, s, q, new, b, p, c, r, o
<1>7. Len(c) = Len(b) + q
  BY <1>3, <1>5, ConcatProperties
<1>8. Len(b) \in Nat /\ Len(c) - r = Len(b) - p /\ r <= Len(c) /\ Len(b) - p \in 0..Len(b)
  <2>1. Len(b) \in Nat
    BY <1>3
  <2>2. QED BY <1>2, <1>3, <1>4, <1>7, <2>1
<1>9. Rest(c, Len(b) - p) = Rest(b, Len(b) - p) \o new
  BY <1>3, <1>5, <1>8, RestOfConcat
<1>10. QED BY <1>4, <1>6, <1>8, <1>9

LEMMA SaleHolds ==
    ASSUME NEW rows \in Seq(Orders), NEW k \in 1..Len(rows), rows[k].side = "SELL",
           NEW lots \in Seq(Lots), Holds(rows, k - 1, rows[k].symbol, lots)
    PROVE  /\ Holds(rows, k, rows[k].symbol, Match(rows[k], lots).lots)
           /\ Match(rows[k], lots).pnl = Profit(rows, k)
<1> DEFINE row == rows[k]
           s == row.symbol
           q == row.qty
           net == NetPrice(row)
           b == Bought(rows, s)[k - 1]
           p == Position(rows, s)[k - 1]
           c == Bought(rows, s)[k]
           r == Position(rows, s)[k]
           m == Match(row, lots)
           o == Rest(b, Len(b) - p)
           t == Meets(row, o)
           found == SubSeq(c, (Len(b) - p) + 1, Len(c) - r)
<1>1. row \in Orders /\ k - 1 \in 0..Len(rows)
  OBVIOUS
<1>2. q \in Nat /\ net \in Int
  BY <1>1, PriceType
<1>3. b \in Seq(Int) /\ p \in Nat /\ c = b /\ r = IF q <= p THEN p - q ELSE 0
  <2>1. b \in Seq(Int) /\ c = b
    BY <1>1, BoughtAre
  <2>2. p \in Nat /\ r = IF q <= p THEN p - q ELSE 0
    BY <1>1, PositionsAre
  <2>3. QED BY <2>1, <2>2
<1>4. p <= Len(b) /\ Open(lots) = o
  BY DEF Holds, Sold
<1>5. m.lots \in Seq(Lots) /\ Open(m.lots) = Rest(o, t) /\ m.pnl = Earned(net, o, t)
  BY <1>1, <1>4, MatchTakesOldest DEF Met, Matching
<1>6. Profit(rows, k) = SumFunction([u \in DOMAIN found |-> net - found[u]])
  BY DEF Profit, Sold, NetPrice
<1> SUFFICES /\ r <= Len(c) /\ Open(m.lots) = Rest(c, Len(c) - r)
             /\ m.pnl = SumFunction([u \in DOMAIN found |-> net - found[u]])
  BY <1>6 DEF Holds, Sold
<1>7. t = IF q <= Len(o) THEN q ELSE Len(o)
  BY DEF Meets
<1> DEFINE n == Len(b)
           x == n - p
<1>8. n \in Nat /\ x \in 0..n
  <2>1. n \in Nat
    BY <1>3
  <2>2. p \in Nat /\ p <= n
    BY <1>3, <1>4
  <2> HIDE DEF n, p
  <2>3. QED BY <2>1, <2>2
<1>9. o = Rest(b, x) /\ found = SubSeq(c, x + 1, Len(c) - r)
  OBVIOUS
<1>10. Len(b) = n
  OBVIOUS
<1> HIDE DEF row, s, q, net, b, p, c, r, m, o, t, found, n
<1>11. o \in Seq(Int) /\ Len(o) = n - x /\ \A u \in 1..(n - x) : o[u] = b[x + u]
  BY <1>3, <1>8, <1>9, <1>10, RestIs
<1>12. t \in 0..p /\ r = p - t /\ n - x = p
  <2>1. n - x = p
    BY <1>3, <1>8
  <2>2. QED BY <1>2, <1>3, <1>7, <1>11, <2>1
<1>13. Len(c) - r = x + t /\ r <= Len(c) /\ x + t \in 0..n /\ t \in 0..(n - x)
  BY <1>3, <1>8, <1>10, <1>12
<1>14. Rest(o, t) = Rest(c, Len(c) - r)
  BY <1>3, <1>8, <1>9, <1>10, <1>13, RestOfRest
<1>15. Len(found) = t /\ DOMAIN found = 1..t /\ \A u \in 1..t : found[u] = o[u]
  <2> HIDE DEF x
  <2>1. \A i \in (x + 1)..(x + t) : b[i] \in Int
    <3>1. \A i \in (x + 1)..(x + t) : i \in 1..n
      BY <1>8, <1>12, <1>13
    <3>2. QED BY <1>3, <1>10, <3>1
  <2> DEFINE first == x + 1
             last == x + t
  <2>2. found = SubSeq(b, first, last) /\ first \in Int /\ last \in Int
    <3>1. found = SubSeq(b, first, last)
      BY <1>3, <1>9, <1>13
    <3>2. x \in Int /\ t \in Int
      BY <1>8, <1>12, <1>3
    <3>3. QED BY <3>1, <3>2
  <2>3. \A i \in first..last : b[i] \in Int
    BY <2>1
  <2> HIDE DEF first, last
  <2>4. /\ found \in Seq(Int)
        /\ Len(found) = IF first <= last THEN last - first + 1 ELSE 0
        /\ \A i \in 1..(last - first + 1) : found[i] = b[first + i - 1]
    BY <1>3, <2>3, <2>2, SubSeqProperties
  <2>5. /\ last - first + 1 = t /\ (first <= last <=> t # 0)
        /\ \A u \in 1..t : first + u - 1 = x + u /\ u \in 1..(n - x)
    BY <1>8, <1>12, <1>13 DEF first, last
  <2>6. Len(found) = t
    BY <1>12, <2>4, <2>5
  <2>7. ASSUME NEW u \in 1..t PROVE found[u] = o[u]
    <3>1. found[u] = b[first + u - 1]
      BY <2>4, <2>5
    <3>2. QED BY <1>11, <2>5, <3>1
  <2>8. DOMAIN found = 1..t
    BY <2>4, <2>6
  <2>9. QED BY <2>6, <2>7, <2>8
<1>16. SumFunction([u \in DOMAIN found |-> net - found[u]]) = Earned(net, o, t)
  <2>1. [u \in DOMAIN found |-> net - found[u]] = [u \in 1..t |-> net - o[u]]
    BY <1>15
  <2>2. DOMAIN [u \in 1..t |-> net - o[u]] = 1..t
    OBVIOUS
  <2>3. QED BY <2>1, <2>2, SumFunctionIsSum DEF Earned
<1>17. QED BY <1>5, <1>13, <1>14, <1>16

\* After the first k rows.
BooksFit(rows, k, x) ==
    /\ \A s \in Symbols : Holds(rows, k, s, x.lots[s])
    /\ Len(x.sales) = SalesTo(rows, k)
    /\ \A i \in 1..k : rows[i].side = "SELL" =>
          SalesTo(rows, i) \in 1..Len(x.sales) /\ x.sales[SalesTo(rows, i)] = Profit(rows, i)

LEMMA BookedFits ==
    ASSUME NEW rows \in Seq(Orders), NEW k \in 1..Len(rows), NEW x \in Book,
           BooksFit(rows, k - 1, x)
    PROVE  BooksFit(rows, k, Booked(x, rows[k]))
<1> DEFINE row == rows[k]
           own == x.lots[row.symbol]
           m == Match(row, own)
           y == Booked(x, row)
           l == Len(x.sales)
<1>1. row \in Orders /\ k - 1 \in 0..Len(rows)
  OBVIOUS
<1>2. row.symbol \in Symbols /\ row.side \in {"BUY", "SELL"}
  BY <1>1, OrderType
<1>3. /\ own \in Seq(Lots)
      /\ \A s \in Symbols \ {row.symbol} : y.lots[s] = x.lots[s]
      /\ row.side = "BUY" =>
            y.lots[row.symbol] = Append(own, Lot(row)) /\ y.sales = x.sales
      /\ row.side = "SELL" =>
            y.lots[row.symbol] = m.lots /\ y.sales = Append(x.sales, m.pnl)
  BY <1>1, BookedType
<1>4. Holds(rows, k - 1, row.symbol, own)
  BY <1>2 DEF BooksFit
<1>5. row.side = "SELL" =>
         Holds(rows, k, row.symbol, m.lots) /\ m.pnl = Profit(rows, k)
  BY <1>3, <1>4, SaleHolds
<1>6. row.side = "BUY" => Holds(rows, k, row.symbol, Append(own, Lot(row)))
  BY <1>3, <1>4, PurchaseHolds
<1> HIDE DEF own, m, y
<1>7. ASSUME NEW s \in Symbols PROVE Holds(rows, k, s, y.lots[s])
  <2>1. CASE s = row.symbol
    BY <1>2, <1>3, <1>5, <1>6, <2>1
  <2>2. CASE s # row.symbol
    <3>1. Bought(rows, s)[k] = Bought(rows, s)[k - 1]
      BY <2>2, BoughtAre
    <3>2. Position(rows, s)[k] = Position(rows, s)[k - 1]
      BY <2>2, PositionsAre
    <3>3. y.lots[s] = x.lots[s] /\ Holds(rows, k - 1, s, x.lots[s])
      BY <1>3, <2>2 DEF BooksFit
    <3>4. QED BY <3>1, <3>2, <3>3 DEF Holds, Sold
  <2>3. QED BY <2>1, <2>2
<1>8. /\ l \in Nat /\ l = SalesTo(rows, k - 1) /\ x.sales \in Seq(Int)
      /\ \A i \in 1..(k - 1) : rows[i].side = "SELL" =>
            SalesTo(rows, i) \in 1..l /\ x.sales[SalesTo(rows, i)] = Profit(rows, i)
  BY DEF BooksFit, Book
<1>9. SalesTo(rows, k) = IF row.side = "SELL" THEN l + 1 ELSE l
  BY <1>8, SalesAre
<1> HIDE DEF l
<1>10. \A i \in 1..k : i = k \/ i \in 1..(k - 1)
  OBVIOUS
<1>11. Len(x.sales) = l
  BY DEF l
<1>12. CASE row.side = "BUY"
  <2>1. Len(y.sales) = SalesTo(rows, k) /\ y.sales = x.sales
    BY <1>3, <1>9, <1>11, <1>12
  <2>2. \A i \in 1..k : rows[i].side = "SELL" => i \in 1..(k - 1)
    BY <1>10, <1>12
  <2>3. QED BY <1>7, <1>8, <1>11, <2>1, <2>2 DEF BooksFit, y
<1>13. CASE row.side = "SELL"
  <2>1. m.pnl = Profit(rows, k) /\ y.sales = Append(x.sales, m.pnl)
    BY <1>3, <1>5, <1>13
  <2>2. /\ Len(y.sales) = l + 1 /\ y.sales[l + 1] = m.pnl
        /\ \A j \in 1..l : y.sales[j] = x.sales[j]
    <3>1. m.pnl \in Int
      BY <1>1, <1>3, MatchTakesOldest DEF m, Matching
    <3>2. QED BY <1>8, <1>11, <2>1, <3>1, AppendProperties
  <2>3. SalesTo(rows, k) = l + 1 /\ l + 1 \in 1..(l + 1) /\ \A j \in 1..l : j \in 1..(l + 1)
    BY <1>8, <1>9, <1>13
  <2>4. ASSUME NEW i \in 1..k, rows[i].side = "SELL"
        PROVE  SalesTo(rows, i) \in 1..Len(y.sales) /\ y.sales[SalesTo(rows, i)] = Profit(rows, i)
    <3>1. CASE i = k
      BY <2>1, <2>2, <2>3, <3>1
    <3>2. CASE i \in 1..(k - 1)
      BY <1>8, <2>2, <2>3, <2>4, <3>2
    <3>3. QED BY <1>10, <3>1, <3>2
  <2>5. QED BY <1>7, <2>2, <2>3, <2>4 DEF BooksFit, y
<1>14. QED BY <1>2, <1>12, <1>13

\* The books fit after all rows.
LEMMA FifoFits ==
    ASSUME NEW rows \in Seq(Orders)
    PROVE  BooksFit(rows, Len(rows), Fifo(rows))
<1> DEFINE n == Len(rows)
<1>1. n \in Nat /\ \A k \in 1..n : rows[k] \in Orders
  OBVIOUS
<1>2. PICK a : IsWalk(a, BookAt(rows), NewBook, n, Book) /\ a[n] = Fifo(rows)
  BY FifoIsWalk
<1>3. /\ a \in [0..n -> Book] /\ a[0] = NewBook
      /\ \A k \in 1..n : a[k] = Booked(a[k - 1], rows[k])
  <2>1. a \in [0..n -> Book] /\ a[0] = NewBook
    BY <1>2 DEF IsWalk
  <2>2. ASSUME NEW k \in 1..n PROVE a[k] = Booked(a[k - 1], rows[k])
    <3>1. k - 1 \in 0..n
      BY <1>1
    <3>2. a[k] = BookAt(rows)[k][a[k - 1]] /\ a[k - 1] \in Book
      BY <1>2, <2>1, <3>1 DEF IsWalk
    <3>3. QED BY <3>2 DEF BookAt
  <2>3. QED BY <2>1, <2>2
<1> DEFINE G == {k \in 0..n : BooksFit(rows, k, a[k])}
<1>4. 0 \in G
  <2>1. ASSUME NEW s \in Symbols PROVE Holds(rows, 0, s, <<>>)
    <3>1. Bought(rows, s)[0] = <<>> /\ Position(rows, s)[0] = 0
      BY BoughtAre, PositionsAre
    <3>2. <<>> \in Seq(Int) /\ Len(<<>>) = 0 /\ 0 - 0 = 0 /\ 0 <= 0 /\ 0 \in 0..0
      OBVIOUS
    <3>3. Rest(<<>>, 0) = <<>>
      <4>1. Rest(<<>>, 0) \in Seq(Int) /\ Len(Rest(<<>>, 0)) = Len(<<>>) - 0
        BY <3>2, RestIs
      <4>2. QED BY <3>2, <4>1, EmptySeq
    <3>4. QED BY <3>1, <3>2, <3>3, OpenEmpty DEF Holds, Sold
  <2>2. /\ \A s \in Symbols : NewBook.lots[s] = <<>>
        /\ NewBook.sales = <<>> /\ Len(NewBook.sales) = 0
    BY DEF NewBook
  <2>3. SalesTo(rows, 0) = 0 /\ 1..0 = {} /\ 0 \in 0..n
    BY <1>1, SalesAre
  <2>4. BooksFit(rows, 0, NewBook)
    BY <2>1, <2>2, <2>3 DEF BooksFit
  <2>5. QED BY <1>3, <2>3, <2>4
<1>5. \A k \in 1..n : k - 1 \in G => k \in G
  <2>1. ASSUME NEW k \in 1..n, k - 1 \in G PROVE k \in G
    <3>1. k \in 0..n /\ BooksFit(rows, k - 1, a[k - 1]) /\ a[k - 1] \in Book
      BY <1>1, <1>3, <2>1
    <3>2. BooksFit(rows, k, Booked(a[k - 1], rows[k]))
      BY <3>1, BookedFits
    <3>3. QED BY <1>3, <3>1, <3>2
  <2>2. QED BY <2>1
<1>6. n \in G
  <2>1. n \in 0..n
    BY <1>1
  <2> HIDE DEF G, n
  <2>2. QED BY <1>1, <1>4, <1>5, <2>1, IntervalInduction
<1>7. QED BY <1>2, <1>6

\* Realized P&L and win rate match each sale with the shares bought first, at
\* their cost with their part of the commissions, and what is not sold stays in
\* the lots (_fifo_process_trades, _calculate_win_rate), for every list of trades.
THEOREM SalesMeetOldest == Spec => []FirstInFirstOut
<1>1. HistoryOK => FirstInFirstOut
  <2> SUFFICES ASSUME HistoryOK PROVE FirstInFirstOut
    OBVIOUS
  <2> DEFINE rows == AllTrades
             n == Len(rows)
             book == Fifo(rows)
  <2>1. rows \in Seq(Orders)
    <3>1. past \in Seq(Day) /\ trades \in Seq(Orders) /\ Len(past) \in 0..Len(past)
      BY DEF HistoryOK
    <3>2. TradesTo(past, Len(past)) \in Seq(Orders)
      BY <3>1, RowsType
    <3>3. QED BY <3>1, <3>2, ConcatProperties DEF AllTrades
  <2> HIDE DEF rows
  <2>2. BooksFit(rows, n, book)
    BY <2>1, FifoFits
  <2>3. Len(book.sales) = SalesTo(rows, n)
    BY <2>2 DEF BooksFit
  <2>4. \A k \in DOMAIN rows :
           rows[k].side = "SELL" => book.sales[SalesTo(rows, k)] = Profit(rows, k)
    <3>1. DOMAIN rows = 1..n
      BY <2>1
    <3>2. QED BY <2>2, <3>1 DEF BooksFit
  <2>5. ASSUME NEW s \in Symbols
        PROVE  Open(book.lots[s]) =
                  SubSeq(Bought(rows, s)[n], Sold(rows, s, n) + 1, Len(Bought(rows, s)[n]))
    BY <2>2 DEF BooksFit, Holds, Rest
  <2>6. QED BY <2>3, <2>4, <2>5 DEF FirstInFirstOut, rows
<1>2. QED BY <1>1, HistoryInvariant, PTL

-----------------------------------------------------------------------------
(* Returns.                                                                *)

\* A day adds its trades to the rows of the days before.
LEMMA RowsNext ==
    ASSUME NEW days \in Seq(Day), NEW d \in 1..Len(days)
    PROVE  TradesTo(days, d) = TradesTo(days, d - 1) \o days[d].trades
<1> DEFINE c == d - 1
<1>1. c \in Nat /\ c \in 0..Len(days) /\ d \in 0..Len(days) /\ d \in Nat /\ d \in 1..d
  OBVIOUS
<1>2. PICK a : IsWalk(a, RowsStep(days, d), <<>>, d, Seq(Orders)) /\ a[d] = TradesTo(days, d)
  BY <1>1, RowsAreWalk
<1>3. PICK b : IsWalk(b, RowsStep(days, c), <<>>, c, Seq(Orders)) /\ b[c] = TradesTo(days, c)
  BY <1>1, RowsAreWalk
<1> DEFINE G == {k \in 0..c : a[k] = b[k]}
<1>4. 0 \in G
  <2>1. a[0] = <<>> /\ b[0] = <<>> /\ 0 \in 0..c
    BY <1>1, <1>2, <1>3 DEF IsWalk
  <2>2. QED BY <2>1
<1>5. ASSUME NEW k \in 1..d PROVE a[k] = a[k - 1] \o days[k].trades
  <2>1. k - 1 \in 0..d
    BY <1>1
  <2>2. a[k - 1] \in Seq(Orders) /\ a[k] = RowsStep(days, d)[k][a[k - 1]]
    BY <1>2, <2>1 DEF IsWalk
  <2>3. QED BY <2>2 DEF RowsStep
<1>6. ASSUME NEW k \in 1..c PROVE b[k] = b[k - 1] \o days[k].trades
  <2> HIDE DEF c
  <2>1. k - 1 \in 0..c
    BY <1>1
  <2>2. b[k - 1] \in Seq(Orders) /\ b[k] = RowsStep(days, c)[k][b[k - 1]]
    BY <1>3, <2>1 DEF IsWalk
  <2>3. QED BY <2>2 DEF RowsStep
<1>7. ASSUME NEW k \in 1..c, k - 1 \in G PROVE k \in G
  <2>1. k \in 1..d /\ k \in 0..c /\ a[k - 1] = b[k - 1]
    BY <1>7
  <2>2. QED BY <2>1, <1>5, <1>6
<1>8. a[c] = b[c]
  <2>1. c \in 0..c
    BY <1>1
  <2> HIDE DEF G, c
  <2>2. c \in G
    BY <1>1, <1>4, <1>7, <2>1, IntervalInduction
  <2>3. QED BY <2>2 DEF G
<1>9. a[d] = a[c] \o days[d].trades
  BY <1>1, <1>5
<1>10. QED BY <1>2, <1>3, <1>8, <1>9

\* So the rows of fewer days come first in those of more.
ComesFirst(old, all) ==
    Len(old) <= Len(all) /\ \A k \in 1..Len(old) : all[k] = old[k]

LEMMA RowsGrow ==
    ASSUME NEW days \in Seq(Day), NEW d \in 0..Len(days), NEW e \in 0..d
    PROVE  ComesFirst(TradesTo(days, e), TradesTo(days, d))
<1> DEFINE n == Len(days)
           rows(k) == TradesTo(days, k)
           G == {k \in 0..n : \A i \in 0..k : ComesFirst(rows(i), rows(k))}
<1>1. n \in Nat /\ \A k \in 0..n : rows(k) \in Seq(Orders) /\ Len(rows(k)) \in Nat
  <2>1. \A k \in 0..n : rows(k) \in Seq(Orders)
    BY RowsType
  <2> HIDE DEF rows
  <2>2. QED BY <2>1
<1>2. \A k \in 1..n : rows(k) = rows(k - 1) \o days[k].trades
  BY RowsNext
<1> HIDE DEF rows
<1>3. ASSUME NEW k \in 0..n PROVE ComesFirst(rows(k), rows(k))
  BY <1>1 DEF ComesFirst
<1>4. 0 \in G
  <2>1. 0 \in 0..n /\ \A i \in 0..0 : i = 0
    BY <1>1
  <2>2. QED BY <1>3, <2>1
<1>5. ASSUME NEW k \in 1..n, k - 1 \in G PROVE k \in G
  <2>1. k - 1 \in 0..n /\ k \in 0..n /\ days[k].trades \in Seq(Orders)
    BY <1>1, DayType
  <2>2. /\ Len(rows(k)) = Len(rows(k - 1)) + Len(days[k].trades)
        /\ \A i \in 1..Len(rows(k - 1)) : rows(k)[i] = rows(k - 1)[i]
    <3> DEFINE x == rows(k - 1)
               y == days[k].trades
    <3>1. x \in Seq(Orders) /\ y \in Seq(Orders) /\ Len(x) \in Nat /\ Len(y) \in Nat
      BY <1>1, <2>1
    <3> HIDE DEF x, y
    <3>2. /\ Len(x \o y) = Len(x) + Len(y)
          /\ \A i \in 1..(Len(x) + Len(y)) : (x \o y)[i] = IF i <= Len(x) THEN x[i] ELSE y[i - Len(x)]
      BY <3>1, ConcatProperties
    <3>3. \A i \in 1..Len(x) : i \in 1..(Len(x) + Len(y)) /\ i <= Len(x)
      BY <3>1
    <3>4. QED BY <1>2, <3>2, <3>3 DEF x, y
  <2>3. ComesFirst(rows(k - 1), rows(k))
    <3> DEFINE l == Len(days[k].trades)
               m == Len(rows(k - 1))
               n1 == Len(rows(k))
    <3>1. l \in Nat /\ m \in Nat /\ n1 = m + l
      BY <1>1, <2>1, <2>2
    <3> HIDE DEF l, m, n1
    <3>2. m <= n1
      BY <3>1
    <3>3. QED BY <2>2, <3>2 DEF ComesFirst, m, n1
  <2>4. ASSUME NEW i \in 0..k PROVE ComesFirst(rows(i), rows(k))
    <3>1. CASE i = k
      BY <1>3, <2>1, <3>1
    <3>2. CASE i # k
      <4>1. i \in 0..(k - 1) /\ i \in 0..n
        BY <3>2, <2>1
      <4>2. ComesFirst(rows(i), rows(k - 1))
        BY <1>5, <4>1
      <4>3. Len(rows(i)) \in Nat /\ Len(rows(k - 1)) \in Nat /\ Len(rows(k)) \in Nat
        BY <1>1, <2>1, <4>1
      <4>4. QED BY <2>3, <4>2, <4>3 DEF ComesFirst
    <3>3. QED BY <3>1, <3>2
  <2>5. QED BY <2>1, <2>4
<1>6. d \in G
  <2> HIDE DEF G
  <2>1. QED BY <1>1, <1>4, <1>5, IntervalInduction
<1>7. QED BY <1>6 DEF rows

\* With lots only, all rows are purchases.
LEMMA LotsAreBought ==
    ASSUME NEW days \in Seq(Day), LotOnly(days), NEW d \in 0..Len(days)
    PROVE  \A k \in 1..Len(TradesTo(days, d)) : TradesTo(days, d)[k].side = "BUY"
<1> DEFINE n == Len(days)
           rows(k) == TradesTo(days, k)
           Buys(s) == \A k \in 1..Len(s) : s[k].side = "BUY"
           G == {k \in 0..n : Buys(rows(k))}
<1>1. n \in Nat /\ \A k \in 0..n : rows(k) \in Seq(Orders)
  BY RowsType
<1>2. \A k \in 1..n : rows(k) = rows(k - 1) \o days[k].trades
  BY RowsNext
<1>3. rows(0) = <<>>
  <2>1. 0 \in 0..Len(days) /\ \A i \in 1..0 : days[i].trades = <<>>
    BY <1>1
  <2>2. QED BY <2>1, NoTradesNoRows
<1>4. \A k \in 1..n : Buys(days[k].trades)
  BY DEF LotOnly
<1> HIDE DEF rows
<1>5. 0 \in G
  <2>1. 0 \in 0..n /\ Len(<<>>) = 0 /\ 1..0 = {}
    BY <1>1
  <2>2. QED BY <1>3, <2>1
<1>6. ASSUME NEW k \in 1..n, k - 1 \in G PROVE k \in G
  <2> DEFINE x == rows(k - 1)
             y == days[k].trades
  <2>0. k - 1 \in 0..n /\ k \in 0..n
    BY <1>1
  <2>7. x \in Seq(Orders) /\ rows(k) = x \o y
    BY <1>1, <1>2, <2>0
  <2>8. y \in Seq(Orders)
    BY DayType
  <2>1. /\ x \in Seq(Orders) /\ y \in Seq(Orders)
        /\ Buys(x) /\ Buys(y) /\ rows(k) = x \o y
    BY <1>4, <1>6, <2>7, <2>8
  <2> HIDE DEF x, y
  <2>2. /\ Len(x) \in Nat /\ Len(y) \in Nat /\ Len(x \o y) = Len(x) + Len(y)
        /\ \A i \in 1..(Len(x) + Len(y)) : (x \o y)[i] = IF i <= Len(x) THEN x[i] ELSE y[i - Len(x)]
    BY <2>1, ConcatProperties
  <2>3. ASSUME NEW i \in 1..(Len(x) + Len(y)) PROVE (x \o y)[i].side = "BUY"
    <3>1. CASE i <= Len(x)
      <4>1. i \in 1..Len(x) /\ (x \o y)[i] = x[i]
        BY <2>2, <3>1
      <4>2. QED BY <2>1, <4>1
    <3>2. CASE ~(i <= Len(x))
      <4>1. i - Len(x) \in 1..Len(y) /\ (x \o y)[i] = y[i - Len(x)]
        BY <2>2, <3>2
      <4>2. QED BY <2>1, <4>1
    <3>3. QED BY <3>1, <3>2
  <2>4. Buys(x \o y)
    BY <2>2, <2>3
  <2>5. QED BY <2>0, <2>1, <2>4
<1>7. d \in G
  <2> HIDE DEF G
  <2>1. QED BY <1>1, <1>5, <1>6, IntervalInduction
<1>8. QED BY <1>7 DEF rows


\* What shares are worth at the closes c, what prices earn on a row by then, and
\* what an account is worth without what was paid in.
Closes == [Symbols -> Nat]
Valuation(h, c) == SumOf([s \in Symbols |-> h[s] * c[s]], Symbols)
RowGain(c, t) == Signed(t) * (c[t.symbol] - t.price) - t.fee
Own(lotOnly, c, x) == Valuation(x.holdings, c) + (IF lotOnly THEN 0 ELSE x.cash) - x.flow

LEMMA ValuationType ==
    ASSUME NEW h \in [Symbols -> Int], NEW c \in Closes PROVE Valuation(h, c) \in Int
<1> DEFINE v == [s \in Symbols |-> h[s] * c[s]]
<1>1. \A s \in Symbols : v[s] \in Int
  BY DEF Closes
<1>2. IsFiniteSet(Symbols)
  BY PerformanceAssumption
<1>3. 0 \in Int /\ \A p, q \in Int : p + q \in Int
  OBVIOUS
<1> HIDE DEF v
<1>4. SumOf(v, Symbols) \in Int
  BY <1>1, <1>2, <1>3, SumOfType
<1>5. QED BY <1>4 DEF Valuation, v

LEMMA ValuationMoves ==
    ASSUME NEW h \in [Symbols -> Int], NEW c \in Closes, NEW a \in Symbols, NEW q \in Int
    PROVE  Valuation([h EXCEPT ![a] = @ + q], c) = Valuation(h, c) + q * c[a]
<1> DEFINE v == [s \in Symbols |-> h[s] * c[s]]
           g == [h EXCEPT ![a] = @ + q]
           w == [s \in Symbols |-> g[s] * c[s]]
<1>1. g \in [Symbols -> Int] /\ g[a] = h[a] + q /\ \A s \in Symbols \ {a} : g[s] = h[s]
  OBVIOUS
<1> HIDE DEF g
<1>2. \A s \in Symbols : h[s] \in Int /\ g[s] \in Int /\ c[s] \in Int
  BY <1>1 DEF Closes
<1>3. \A s \in Symbols : v[s] = h[s] * c[s] /\ w[s] = g[s] * c[s] /\ v[s] \in Int /\ w[s] \in Int
  BY <1>2
<1>4. \A s \in Symbols \ {a} : v[s] = w[s]
  BY <1>1
<1>5. w[a] = v[a] + q * c[a]
  <2>1. \A x, y, z \in Int : (x + y) * z = x * z + y * z
    OBVIOUS
  <2>2. (h[a] + q) * c[a] = h[a] * c[a] + q * c[a]
    BY <1>2, <2>1
  <2>3. QED BY <1>1, <2>2
<1>6. v[a] \in Int /\ w[a] \in Int /\ q * c[a] \in Int
  BY <1>2, <1>3
<1> DEFINE m == q * c[a]
<1> HIDE DEF v, w, m
<1>7. SumOf(w, Symbols) = SumOf(v, Symbols) + (w[a] - v[a])
  <2>1. IsFiniteSet(Symbols) /\ (\A s \in Symbols : v[s] \in Int /\ w[s] \in Int)
    BY <1>3, PerformanceAssumption
  <2>2. QED BY <1>4, <2>1, SumOfOneChanged
<1>8. w[a] - v[a] = m
  BY <1>5, <1>6 DEF m
<1>9. QED BY <1>7, <1>8 DEF Valuation, v, w, g, m

LEMMA RowGainType ==
    ASSUME NEW c \in Closes, NEW t \in Orders
    PROVE  Signed(t) \in Int /\ RowGain(c, t) \in Int
<1>1. t.symbol \in Symbols /\ t.qty \in Nat /\ t.price \in Nat /\ t.fee \in Nat
  BY OrderType
<1>2. Signed(t) \in Int /\ c[t.symbol] \in Int
  BY <1>1 DEF Signed, Closes
<1>3. \A p, q, r, f \in Int : p * (q - r) - f \in Int
  OBVIOUS
<1>4. QED BY <1>1, <1>2, <1>3 DEF RowGain

\* A row changes the shares by what it trades, and what the account is worth by
\* what prices earn on it.
RowMoves(lotOnly, c, x, t, y) ==
    /\ y.holdings = [x.holdings EXCEPT ![t.symbol] = @ + Signed(t)]
    /\ ~y.debt => ~x.debt /\ Own(lotOnly, c, y) = Own(lotOnly, c, x) + RowGain(c, t)

LEMMA ReplayedOwn ==
    ASSUME NEW lotOnly \in BOOLEAN, NEW c \in Closes, NEW x \in Account, NEW t \in Orders,
           lotOnly => t.side = "BUY"
    PROVE  RowMoves(lotOnly, c, x, t, Replayed(lotOnly, x, t))
<1> DEFINE y == Replayed(lotOnly, x, t)
           cash == x.cash
           paid == ApplyTradeCash(cash, t)
           m == t.qty * t.price
           fee == t.fee
           g == Signed(t)
           worth == g * c[t.symbol]
           gain == RowGain(c, t)
           before == Valuation(x.holdings, c)
           after == Valuation(y.holdings, c)
<1>1. /\ t.symbol \in Symbols /\ t.side \in {"BUY", "SELL"} /\ t.qty \in Nat /\ t.price \in Nat
      /\ fee \in Nat /\ m \in Nat
  BY OrderType
<1>2. x.holdings \in [Symbols -> Int] /\ x.cash \in Int /\ x.flow \in Int /\ x.debt \in BOOLEAN
  BY DEF Account
<1>3. /\ y.cash = IF lotOnly THEN x.cash ELSE paid.cash
      /\ y.flow = x.flow + IF lotOnly THEN m + fee ELSE paid.implicit
      /\ y.debt = (x.debt \/ (~lotOnly /\ t.side = "BUY" /\ x.cash < 0))
      /\ y.holdings = [x.holdings EXCEPT ![t.symbol] = IF t.side = "BUY" THEN @ + t.qty ELSE @ - t.qty]
  BY DEF Replayed, Account
<1>4. g = (IF t.side = "BUY" THEN t.qty ELSE 0 - t.qty) /\ g \in Int
  BY <1>1 DEF Signed
<1>5. y.holdings = [x.holdings EXCEPT ![t.symbol] = @ + g]
  <2>1. \A p \in Int : p - t.qty = p + (0 - t.qty)
    BY <1>1
  <2> HIDE DEF y, g
  <2>2. x.holdings[t.symbol] \in Int
    BY <1>1, <1>2
  <2>3. CASE t.side = "BUY"
    BY <1>3, <1>4, <2>3
  <2>4. CASE t.side # "BUY"
    BY <1>3, <1>4, <2>1, <2>2, <2>4
  <2>5. QED BY <2>3, <2>4
<1>6. c[t.symbol] \in Int /\ worth \in Int
  <2>1. c[t.symbol] \in Int
    BY <1>1 DEF Closes
  <2> HIDE DEF g
  <2>2. QED BY <1>4, <2>1
<1>7. gain = IF t.side = "BUY" THEN worth - m - fee ELSE worth + m - fee
  <2> DEFINE k == c[t.symbol]
             q == t.qty
             p == t.price
  <2>1. k \in Int /\ q \in Int /\ p \in Int
    BY <1>1, <1>6
  <2>2. gain = g * (k - p) - fee
    BY DEF RowGain
  <2> HIDE DEF k, q, p, g, fee, gain
  <2>3. \A u, v, w \in Int : u * (v - w) = u * v - u * w
    OBVIOUS
  <2>4. g * (k - p) = g * k - g * p
    BY <1>4, <2>1, <2>3
  <2>5. (0 - q) * p = 0 - q * p
    BY <2>1
  <2>6. g * p = IF t.side = "BUY" THEN q * p ELSE 0 - q * p
    BY <1>4, <2>5 DEF q
  <2> DEFINE gk == g * k
             qp == q * p
             gp == g * p
  <2>7. gk \in Int /\ qp \in Int /\ gp \in Int /\ fee \in Int
    BY <1>1, <1>4, <2>1
  <2> HIDE DEF gk, qp, gp
  <2>8. gain = gk - gp - fee /\ gp = IF t.side = "BUY" THEN qp ELSE 0 - qp
    BY <2>2, <2>4, <2>6 DEF gk, gp, qp
  <2>9. gain = IF t.side = "BUY" THEN gk - qp - fee ELSE gk + qp - fee
    BY <2>7, <2>8
  <2>10. QED BY <2>9 DEF gk, qp, q, p, k
<1>8. before \in Int /\ after = before + worth
  <2> HIDE DEF y, g
  <2>1. QED BY <1>1, <1>2, <1>4, <1>5, ValuationType, ValuationMoves
<1>9. /\ Own(lotOnly, c, x) = before + (IF lotOnly THEN 0 ELSE x.cash) - x.flow
      /\ Own(lotOnly, c, y) = after + (IF lotOnly THEN 0 ELSE y.cash) - y.flow
  BY DEF Own
<1>10. paid = CASE t.side = "SELL"                      -> [cash |-> cash + m - fee, implicit |-> 0]
                [] t.side = "BUY" /\ cash >= m + fee  -> [cash |-> cash - (m + fee), implicit |-> 0]
                [] t.side = "BUY" /\ cash < m + fee   -> [cash |-> 0, implicit |-> m + fee - Max({cash, 0})]
  BY DEF ApplyTradeCash
<1>11. Max({cash, 0}) = IF cash >= 0 THEN cash ELSE 0
  BY <1>2, MaxOfTwo
<1> HIDE DEF y, cash, paid, m, fee, g, worth, gain, before, after
<1>12. ASSUME ~y.debt PROVE ~x.debt /\ Own(lotOnly, c, y) = Own(lotOnly, c, x) + gain
  <2>1. ~x.debt /\ (~lotOnly /\ t.side = "BUY" => ~(x.cash < 0))
    BY <1>2, <1>3, <1>12
  <2>2. CASE lotOnly
    <3>1. y.cash = cash /\ y.flow = x.flow + (m + fee)
      BY <2>2, <1>3 DEF cash
    <3>2. gain = worth - m - fee
      BY <2>2, <1>7
    <3>3. Own(lotOnly, c, x) = before - x.flow /\ Own(lotOnly, c, y) = after - y.flow
      <4>1. before \in Int /\ after \in Int /\ x.flow \in Int /\ y.flow \in Int
        BY <3>1, <1>1, <1>2, <1>6, <1>8
      <4>2. /\ Own(lotOnly, c, x) = before + 0 - x.flow
            /\ Own(lotOnly, c, y) = after + 0 - y.flow
        BY <2>2, <1>9
      <4>3. QED BY <4>1, <4>2
    <3>4. QED BY <3>1, <3>2, <3>3, <1>1, <1>2, <1>6, <1>8, <2>1
  <2>3. CASE ~lotOnly /\ t.side = "SELL"
    <3>1. y.cash = cash + m - fee /\ y.flow = x.flow + 0
      BY <2>3, <1>3, <1>10
    <3>2. gain = worth + m - fee
      BY <2>3, <1>7
    <3>3. QED BY <2>3, <3>1, <3>2, <1>1, <1>2, <1>6, <1>8, <1>9, <2>1 DEF cash
  <2>4. CASE ~lotOnly /\ t.side = "BUY" /\ cash >= m + fee
    <3>0. ~(cash < m + fee)
      BY <2>4, <1>1, <1>2 DEF cash
    <3>1. y.cash = cash - (m + fee) /\ y.flow = x.flow + 0
      <4>1. paid.cash = cash - (m + fee) /\ paid.implicit = 0
        BY <2>4, <3>0, <1>10
      <4>2. QED BY <2>4, <4>1, <1>3
    <3>2. gain = worth - m - fee
      BY <2>4, <1>7
    <3>3. QED BY <2>4, <3>1, <3>2, <1>1, <1>2, <1>6, <1>8, <1>9, <2>1 DEF cash
  <2>5. CASE ~lotOnly /\ t.side = "BUY" /\ ~(cash >= m + fee)
    <3>1. cash < m + fee /\ cash >= 0
      BY <2>1, <2>5, <1>1, <1>2 DEF cash
    <3>2. paid.cash = 0 /\ paid.implicit = m + fee - cash
      BY <2>5, <3>1, <1>10, <1>11
    <3>3. y.cash = 0 /\ y.flow = x.flow + (m + fee - cash)
      BY <2>5, <3>2, <1>3
    <3>4. gain = worth - m - fee
      BY <2>5, <1>7
    <3>5. QED BY <2>5, <3>3, <3>4, <1>1, <1>2, <1>6, <1>8, <1>9, <2>1 DEF cash
  <2>6. QED BY <1>1, <2>2, <2>3, <2>4, <2>5
<1>13. QED BY <1>5, <1>12 DEF RowMoves, y, g, gain

\* What prices earn on each of the rows, and what they change of the shares of s.
RowGains(c, rows) == [k \in 1..Len(rows) |-> RowGain(c, rows[k])]
RowShares(rows, s) == [k \in 1..Len(rows) |-> IF rows[k].symbol = s THEN Signed(rows[k]) ELSE 0]

LEMMA NetIsSum ==
    ASSUME NEW rows \in Seq(Orders), NEW s \in Symbols
    PROVE  /\ Net(rows, s) = SumOf(RowShares(rows, s), 1..Len(rows))
           /\ Net(rows, s) \in Int
           /\ \A k \in 1..Len(rows) : RowShares(rows, s)[k] \in Int
<1> DEFINE n == Len(rows)
           v == RowShares(rows, s)
<1>1. DOMAIN rows = 1..n /\ n \in Nat /\ \A k \in 1..n : rows[k] \in Orders
  OBVIOUS
<1>2. \A k \in 1..n : Signed(rows[k]) \in Int
  <2>1. \A t \in Orders : Signed(t) \in Int
    BY OrderType DEF Signed
  <2>2. QED BY <1>1, <2>1
<1>3. \A k \in 1..n : v[k] \in Int
  BY <1>2 DEF RowShares
<1>4. Net(rows, s) = SumFunction(v) /\ DOMAIN v = 1..n
  BY <1>1 DEF Net, RowShares
<1> HIDE DEF v
<1>5. Net(rows, s) = SumOf(v, 1..n)
  BY <1>4, SumFunctionIsSum
<1>6. SumOf(v, 1..n) \in Int
  <2>1. IsFiniteSet(1..n) /\ 0 \in Int /\ \A p, q \in Int : p + q \in Int
    BY <1>1, FS_Interval
  <2>2. QED BY <1>3, <2>1, SumOfType
<1>7. QED BY <1>3, <1>5, <1>6 DEF v

LEMMA ReplayedRowsOwn ==
    ASSUME NEW lotOnly \in BOOLEAN, NEW c \in Closes, NEW b \in Account, NEW rows \in Seq(Orders),
           lotOnly => \A k \in 1..Len(rows) : rows[k].side = "BUY"
    PROVE  LET y == ReplayedRows(lotOnly, b, rows)
           IN  /\ y \in Account
               /\ \A s \in Symbols : y.holdings[s] = b.holdings[s] + Net(rows, s)
               /\ ~y.debt => Own(lotOnly, c, y) = Own(lotOnly, c, b)
                                + SumOf(RowGains(c, rows), 1..Len(rows))
<1> DEFINE n == Len(rows)
           gains == RowGains(c, rows)
           Fits(x, k) ==
              /\ \A s \in Symbols : x.holdings[s] = b.holdings[s] + SumOf(RowShares(rows, s), 1..k)
              /\ ~x.debt => Own(lotOnly, c, x) = Own(lotOnly, c, b) + SumOf(gains, 1..k)
<1>1. n \in Nat /\ \A k \in 1..n : rows[k] \in Orders
  OBVIOUS
<1>2. PICK a : IsWalk(a, ReplayStep(lotOnly, rows), b, n, Account)
               /\ a[n] = ReplayedRows(lotOnly, b, rows)
  BY ReplayedIsWalk
<1>3. /\ \A k \in 0..n : a[k] \in Account
      /\ a[0] = b
      /\ \A k \in 1..n : a[k] = Replayed(lotOnly, a[k - 1], rows[k])
  <2>1. (\A k \in 0..n : a[k] \in Account) /\ a[0] = b
    BY <1>2 DEF IsWalk
  <2>2. ASSUME NEW k \in 1..n PROVE a[k] = Replayed(lotOnly, a[k - 1], rows[k])
    <3>1. k - 1 \in 0..n
      BY <1>1
    <3>2. a[k] = ReplayStep(lotOnly, rows)[k][a[k - 1]] /\ a[k - 1] \in Account
      BY <1>2, <2>1, <3>1 DEF IsWalk
    <3>3. QED BY <3>2 DEF ReplayStep
  <2>3. QED BY <2>1, <2>2
<1>4. \A x \in Account : Own(lotOnly, c, x) \in Int /\ \A s \in Symbols : x.holdings[s] \in Int
  <2> SUFFICES ASSUME NEW x \in Account
               PROVE  Own(lotOnly, c, x) \in Int /\ \A s \in Symbols : x.holdings[s] \in Int
    OBVIOUS
  <2>1. x.holdings \in [Symbols -> Int] /\ x.cash \in Int /\ x.flow \in Int
    BY DEF Account
  <2>2. Valuation(x.holdings, c) \in Int
    BY <2>1, ValuationType
  <2>3. QED BY <2>1, <2>2 DEF Own
<1>5. \A k \in 1..n : gains[k] = RowGain(c, rows[k]) /\ gains[k] \in Int
  BY <1>1, RowGainType DEF RowGains
<1> DEFINE G == {k \in 0..n : Fits(a[k], k)}
<1> HIDE DEF gains
<1>6. 0 \in G
  <2>1. 1..0 = {} /\ 0 \in 0..n
    BY <1>1
  <2>2. \A v : SumOf(v, 1..0) = 0
    BY <2>1, SumOfEmpty
  <2>3. /\ \A s \in Symbols : b.holdings[s] + 0 = b.holdings[s]
        /\ Own(lotOnly, c, b) + 0 = Own(lotOnly, c, b)
    BY <1>4
  <2>4. Fits(b, 0)
    BY <2>2, <2>3
  <2>5. QED BY <1>3, <2>1, <2>4
<1>7. ASSUME NEW k \in 1..n, k - 1 \in G PROVE k \in G
  <2> DEFINE x == a[k - 1]
             t == rows[k]
             y == a[k]
  <2>1. k - 1 \in 0..n /\ k \in 0..n /\ k \in Nat /\ k # 0 /\ t \in Orders /\ t.symbol \in Symbols
        /\ \A j \in 1..k : j \in 1..n
    BY <1>1, OrderType
  <2>2. x \in Account /\ y = Replayed(lotOnly, x, t) /\ Fits(x, k - 1) /\ (lotOnly => t.side = "BUY")
    BY <1>3, <1>7, <2>1
  <2> HIDE DEF x, t, y
  <2>3. /\ y.holdings = [x.holdings EXCEPT ![t.symbol] = @ + Signed(t)]
        /\ ~y.debt => ~x.debt /\ Own(lotOnly, c, y) = Own(lotOnly, c, x) + RowGain(c, t)
    <3>1. RowMoves(lotOnly, c, x, t, y)
      BY <2>1, <2>2, ReplayedOwn
    <3>2. QED BY <3>1 DEF RowMoves
  <2>4. ASSUME NEW s \in Symbols
        PROVE  y.holdings[s] = b.holdings[s] + SumOf(RowShares(rows, s), 1..k)
    <3> DEFINE v == RowShares(rows, s)
    <3>1. (\A j \in 1..k : v[j] \in Int) /\ v[k] \in Int
      BY <2>1, NetIsSum
    <3>2. v[k] = IF t.symbol = s THEN Signed(t) ELSE 0
      BY DEF RowShares, t
    <3> HIDE DEF v
    <3>3. /\ SumOf(v, 1..(k - 1)) \in Int
          /\ SumOf(v, 1..k) = SumOf(v, 1..(k - 1)) + v[k]
      BY <2>1, <3>1, SumToNext
    <3>4. x.holdings[s] = b.holdings[s] + SumOf(v, 1..(k - 1))
      BY <2>2 DEF v
    <3>5. b.holdings[s] \in Int /\ x.holdings[s] \in Int
      BY <1>4, <2>2
    <3>6. y.holdings[s] = x.holdings[s] + v[k]
      <4>1. x.holdings \in [Symbols -> Int]
        BY <2>2 DEF Account
      <4>2. CASE t.symbol = s
        BY <2>3, <3>2, <4>1, <4>2
      <4>3. CASE t.symbol # s
        <5>1. y.holdings[s] = x.holdings[s]
          BY <2>3, <4>1, <4>3
        <5>2. QED BY <3>2, <3>5, <4>3, <5>1
      <4>4. QED BY <4>2, <4>3
    <3>7. y.holdings[s] = b.holdings[s] + SumOf(v, 1..k)
      BY <3>1, <3>3, <3>4, <3>5, <3>6
    <3>8. QED BY <3>7 DEF v
  <2>5. ASSUME ~y.debt PROVE Own(lotOnly, c, y) = Own(lotOnly, c, b) + SumOf(gains, 1..k)
    <3>1. (\A j \in 1..k : gains[j] \in Int) /\ gains[k] = RowGain(c, t) /\ gains[k] \in Int
      BY <1>5, <2>1 DEF t
    <3>2. /\ SumOf(gains, 1..(k - 1)) \in Int
          /\ SumOf(gains, 1..k) = SumOf(gains, 1..(k - 1)) + gains[k]
      BY <2>1, <3>1, SumToNext
    <3>3. Own(lotOnly, c, x) = Own(lotOnly, c, b) + SumOf(gains, 1..(k - 1))
      BY <2>2, <2>3, <2>5
    <3>4. Own(lotOnly, c, y) = Own(lotOnly, c, x) + gains[k]
      BY <2>3, <2>5, <3>1
    <3>5. Own(lotOnly, c, b) \in Int
      BY <1>4
    <3>6. QED BY <3>1, <3>2, <3>3, <3>4, <3>5
  <2>6. Fits(y, k)
    BY <2>4, <2>5
  <2>7. QED BY <2>1, <2>6 DEF y
<1>8. n \in G
  <2>1. n \in 0..n
    BY <1>1
  <2> HIDE DEF G, n
  <2>2. QED BY <1>1, <1>6, <1>7, <2>1, IntervalInduction
<1>9. Fits(a[n], n) /\ a[n] \in Account
  <2>1. n \in 0..n
    BY <1>1
  <2>2. QED BY <1>3, <1>8, <2>1
<1>10. \A s \in Symbols : Net(rows, s) = SumOf(RowShares(rows, s), 1..n)
  BY NetIsSum
<1>11. QED BY <1>2, <1>9, <1>10 DEF gains

\* The shares after all rows are those after the first ones and what the others change.
After(old, all) == SubSeq(all, Len(old) + 1, Len(all))

LEMMA AfterIs ==
    ASSUME NEW old \in Seq(Orders), NEW all \in Seq(Orders), ComesFirst(old, all)
    PROVE  /\ After(old, all) \in Seq(Orders)
           /\ Len(old) + Len(After(old, all)) = Len(all)
           /\ \A k \in 1..Len(After(old, all)) : After(old, all)[k] = all[Len(old) + k]
<1> DEFINE m == Len(old)
           n == Len(all)
           new == After(old, all)
           first == m + 1
<1>1. m \in Nat /\ n \in Nat /\ m <= n /\ first \in Int /\ \A k \in first..n : all[k] \in Orders
  <2>1. m \in Nat /\ n \in Nat /\ m <= n
    BY DEF ComesFirst
  <2>2. first \in Int /\ \A k \in first..n : k \in 1..n
    BY <2>1
  <2>3. \A k \in 1..n : all[k] \in Orders
    OBVIOUS
  <2> HIDE DEF n, m, first
  <2>4. QED BY <2>1, <2>2, <2>3
<1>2. new = SubSeq(all, first, n)
  BY DEF After
<1> HIDE DEF new, first, n, m
<1>3. /\ new \in Seq(Orders) /\ Len(new) = IF first <= n THEN n - first + 1 ELSE 0
      /\ \A k \in 1..(n - first + 1) : new[k] = all[first + k - 1]
  BY <1>1, <1>2, SubSeqProperties
<1>4. Len(new) = n - m
  <2>1. CASE first <= n
    BY <2>1, <1>1, <1>3 DEF first
  <2>2. CASE ~(first <= n)
    <3>1. m = n /\ Len(new) = 0
      BY <2>2, <1>1, <1>3 DEF first
    <3>2. QED BY <3>1, <1>1
  <2>3. QED BY <2>1, <2>2
<1>5. ASSUME NEW k \in 1..Len(new) PROVE new[k] = all[m + k]
  <2>1. k \in 1..(n - first + 1) /\ first + k - 1 = m + k
    BY <1>1, <1>4 DEF first
  <2>2. QED BY <1>3, <2>1
<1>6. m + Len(new) = n
  BY <1>1, <1>4
<1>7. QED BY <1>3, <1>5, <1>6 DEF new, m, n

LEMMA NetOfParts ==
    ASSUME NEW old \in Seq(Orders), NEW all \in Seq(Orders), ComesFirst(old, all), NEW s \in Symbols
    PROVE  Net(all, s) = Net(old, s) + Net(After(old, all), s)
<1> DEFINE m == Len(old)
           new == After(old, all)
           n == Len(new)
           v == RowShares(all, s)
           u == RowShares(old, s)
           w == RowShares(new, s)
<1>1. /\ new \in Seq(Orders) /\ m + n = Len(all)
      /\ \A k \in 1..n : new[k] = all[m + k]
  BY AfterIs
<1> HIDE DEF new
<1>2. m \in Nat /\ n \in Nat
  BY <1>1
<1>3. /\ Net(all, s) = SumOf(v, 1..(m + n)) /\ \A k \in 1..(m + n) : v[k] \in Int
      /\ Net(old, s) = SumOf(u, 1..m)
      /\ Net(new, s) = SumOf(w, 1..n)
  BY <1>1, NetIsSum
<1>4. \A k \in 1..m : u[k] = v[k]
  <2>1. \A k \in 1..m : k \in 1..Len(all) /\ all[k] = old[k]
    BY <1>1, <1>2 DEF ComesFirst
  <2>2. QED BY <2>1 DEF RowShares
<1>5. \A k \in 1..n : w[k] = v[m + k]
  <2>1. \A k \in 1..n : m + k \in 1..Len(all)
    BY <1>1, <1>2
  <2>2. QED BY <1>1, <2>1 DEF RowShares
<1> HIDE DEF v, u, w, m, n
<1>6. SumOf(v, 1..(m + n)) = SumOf(v, 1..m) + SumOf(w, 1..n)
  BY <1>2, <1>3, <1>5, SumOfTwoParts
<1>7. SumOf(v, 1..m) = SumOf(u, 1..m)
  <2>1. IsFiniteSet(1..m)
    BY <1>2, FS_Interval
  <2>2. QED BY <1>4, <2>1, SumOfEqual
<1>8. QED BY <1>3, <1>6, <1>7 DEF new

\* Closes are numbers.
ClosesOf(days, d) == [s \in Symbols |-> Close(days, s, d)]

LEMMA ClosesType ==
    ASSUME NEW days \in Seq(Day), NEW d \in 0..Len(days)
    PROVE  ClosesOf(days, d) \in Closes
<1>1. ASSUME NEW s \in Symbols PROVE Close(days, s, d) \in Nat
  <2> DEFINE bars == {i \in 1..d : days[i].quote # NoBar /\ s \in DOMAIN days[i].quote}
  <2>1. CASE bars = {}
    BY <2>1 DEF Close
  <2>2. CASE bars # {}
    <3>1. IsFiniteSet(bars) /\ bars \subseteq Int
      <4>1. IsFiniteSet(1..d) /\ bars \subseteq 1..d /\ bars \subseteq Int
        BY FS_Interval
      <4> HIDE DEF bars
      <4>2. QED BY <4>1, FS_Subset
    <3>2. Max(bars) \in bars
      <4> HIDE DEF bars
      <4>1. QED BY <2>2, <3>1, MaxIsElement
    <3>3. PICK i \in bars : i = Max(bars)
      BY <3>2
    <3>4. i \in 1..Len(days) /\ days[i].quote # NoBar /\ s \in DOMAIN days[i].quote
      OBVIOUS
    <3>5. days[i].quote[s] \in Nat
      BY <3>4, DayType, QuoteType
    <3>6. Close(days, s, d) = days[i].quote[s]
      BY <2>2, <3>3 DEF Close
    <3>7. QED BY <3>5, <3>6
  <2>3. QED BY <2>1, <2>2
<1>2. QED BY <1>1 DEF ClosesOf, Closes

\* With the last closes for marks the equity is what all shares are worth.
LEMMA EquityIsValuation ==
    ASSUME NEW h \in [Symbols -> Int], NEW last, NEW c \in Closes,
           \A s \in Held(h) : s \in DOMAIN last /\ last[s] = c[s]
    PROVE  Equity(h, last) = Valuation(h, c)
<1> DEFINE T == Held(h)
           v == [s \in Symbols |-> h[s] * c[s]]
           w == Value(h, last)
<1>1. Valued(h, last) = T
  BY DEF Valued
<1>2. T \in SUBSET Symbols /\ \A s \in Symbols \ T : h[s] = 0
  BY DEF Held
<1>3. Equity(h, last) = SumOf(w, T)
  BY <1>1, EquityIsSum
<1>4. \A s \in T : w[s] = v[s]
  <2>1. \A s \in T : w[s] = h[s] * last[s]
    BY <1>1 DEF Value
  <2>2. QED BY <1>2, <2>1
<1>5. \A s \in Symbols : h[s] \in Int /\ c[s] \in Int
  BY DEF Closes
<1>6. (\A s \in Symbols : v[s] \in Int) /\ \A s \in Symbols \ T : v[s] = 0
  <2>1. \A s \in Symbols : v[s] \in Int
    BY <1>5
  <2>2. \A s \in Symbols \ T : 0 * c[s] = 0
    BY <1>5
  <2>3. QED BY <1>2, <2>1, <2>2
<1> HIDE DEF T, v, w
<1>7. IsFiniteSet(Symbols) /\ IsFiniteSet(T)
  BY <1>2, PerformanceAssumption, FS_Subset
<1>8. SumOf(w, T) = SumOf(v, T)
  BY <1>4, <1>7, SumOfEqual
<1>9. SumOf(v, Symbols) = SumOf(v, T)
  BY <1>2, <1>6, <1>7, SumOfZeros
<1>10. QED BY <1>3, <1>8, <1>9 DEF Valuation, v

\* What prices earn: on what was held, and on the rows since.
LEMMA GainIs ==
    ASSUME NEW days \in Seq(Day), NEW d \in 0..Len(days), NEW p \in 0..d,
           NEW h \in [Symbols -> Int], \A s \in Symbols : h[s] = Net(TradesTo(days, p), s)
    PROVE  LET new == After(TradesTo(days, p), TradesTo(days, d))
           IN  Gain(days, p, d) = Valuation(h, ClosesOf(days, d)) - Valuation(h, ClosesOf(days, p))
                                  + SumOf(RowGains(ClosesOf(days, d), new), 1..Len(new))
<1> DEFINE old == TradesTo(days, p)
           all == TradesTo(days, d)
           new == After(old, all)
           n == Len(new)
           c == ClosesOf(days, d)
           b == ClosesOf(days, p)
           u == [s \in Symbols |-> Net(old, s) * (Close(days, s, d) - Close(days, s, p))]
           v == [s \in Symbols |-> h[s] * c[s]]
           w == [s \in Symbols |-> h[s] * b[s]]
           g == [k \in DOMAIN new |-> Signed(new[k]) * (Close(days, new[k].symbol, d) - new[k].price)
                                      - new[k].fee]
<1>1. p \in 0..Len(days)
  OBVIOUS
<1>2. c \in Closes /\ b \in Closes
  BY <1>1, ClosesType
<1>3. new \in Seq(Orders)
  <2>1. old \in Seq(Orders) /\ all \in Seq(Orders) /\ ComesFirst(old, all)
    BY <1>1, RowsType, RowsGrow
  <2> HIDE DEF old, all
  <2>2. QED BY <2>1, AfterIs
<1>4. Gain(days, p, d) = SumFunction(u) + SumFunction(g)
  BY DEF Gain, After
<1>5. \A s \in Symbols : c[s] = Close(days, s, d) /\ b[s] = Close(days, s, p)
  BY DEF ClosesOf
<1> HIDE DEF old, all, new, c, b
<1>6. g = RowGains(c, new)
  <2>1. DOMAIN new = 1..n /\ \A k \in 1..n : new[k] \in Orders
    BY <1>3
  <2>2. \A k \in 1..n : new[k].symbol \in Symbols
    BY <2>1, OrderType
  <2>3. \A k \in 1..n : g[k] = RowGain(c, new[k])
    BY <1>5, <2>1, <2>2 DEF RowGain
  <2>4. QED BY <2>1, <2>3 DEF RowGains
<1>7. SumFunction(g) = SumOf(g, 1..n)
  <2>1. DOMAIN g = 1..n
    BY <1>3
  <2> HIDE DEF g
  <2>2. QED BY <2>1, SumFunctionIsSum
<1>8. SumFunction(u) = SumOf(u, Symbols)
  <2>1. DOMAIN u = Symbols
    OBVIOUS
  <2> HIDE DEF u
  <2>2. QED BY <2>1, SumFunctionIsSum
<1>9. \A s \in Symbols : v[s] \in Int /\ w[s] \in Int /\ u[s] = v[s] - w[s]
  <2> SUFFICES ASSUME NEW s \in Symbols PROVE v[s] \in Int /\ w[s] \in Int /\ u[s] = v[s] - w[s]
    OBVIOUS
  <2>1. h[s] \in Int /\ c[s] \in Int /\ b[s] \in Int
    BY <1>2 DEF Closes
  <2>2. u[s] = h[s] * (c[s] - b[s])
    BY <1>5 DEF old
  <2>3. \A x, y, z \in Int : x * y \in Int /\ x * (y - z) = x * y - x * z
    OBVIOUS
  <2>4. QED BY <2>1, <2>2, <2>3
<1> HIDE DEF u, v, w, g
<1>10. SumOf(u, Symbols) = SumOf(v, Symbols) - SumOf(w, Symbols)
  <2>1. IsFiniteSet(Symbols)
    BY PerformanceAssumption
  <2>2. QED BY <1>9, <2>1, SumOfDifferences
<1>11. SumOf(v, Symbols) = Valuation(h, c) /\ SumOf(w, Symbols) = Valuation(h, b)
  BY DEF Valuation, v, w
<1>12. Gain(days, p, d) = Valuation(h, c) - Valuation(h, b) + SumOf(RowGains(c, new), 1..n)
  BY <1>4, <1>6, <1>7, <1>8, <1>10, <1>11
<1>13. QED BY <1>12 DEF new, c, b, old, all

\* What is in hand after the days to e.
InHand(r, days, e) ==
    /\ r.rows = Len(TradesTo(days, e))
    /\ \A s \in Symbols : r.holdings[s] = Net(TradesTo(days, e), s)
CashOf(lotOnly, x) == IF lotOnly THEN 0 ELSE x.cash
Since(days, e, d) == After(TradesTo(days, e), TradesTo(days, d))
Earnings(days, e, d) ==
    SumOf(RowGains(ClosesOf(days, d), Since(days, e, d)), 1..Len(Since(days, e, d)))

LEMMA SinceType ==
    ASSUME NEW days \in Seq(Day), NEW d \in 0..Len(days), NEW e \in 0..d
    PROVE  /\ Since(days, e, d) \in Seq(Orders)
           /\ ComesFirst(TradesTo(days, e), TradesTo(days, d))
           /\ TradesTo(days, e) \in Seq(Orders) /\ TradesTo(days, d) \in Seq(Orders)
           /\ \A k \in 1..Len(Since(days, e, d)) :
                 LotOnly(days) => Since(days, e, d)[k].side = "BUY"
           /\ Earnings(days, e, d) \in Int
<1> DEFINE old == TradesTo(days, e)
           all == TradesTo(days, d)
           new == After(old, all)
           n == Len(new)
           v == RowGains(ClosesOf(days, d), new)
<1>1. e \in 0..Len(days)
  OBVIOUS
<1>2. old \in Seq(Orders) /\ all \in Seq(Orders) /\ ComesFirst(old, all)
  BY <1>1, RowsType, RowsGrow
<1>3. LotOnly(days) => \A k \in 1..Len(all) : all[k].side = "BUY"
  BY LotsAreBought
<1> HIDE DEF old, all
<1>4. /\ new \in Seq(Orders) /\ Len(old) + n = Len(all)
      /\ \A k \in 1..n : new[k] = all[Len(old) + k]
  BY <1>2, AfterIs
<1> HIDE DEF new
<1>5. \A k \in 1..n : Len(old) + k \in 1..Len(all)
  <2>1. Len(old) \in Nat /\ n \in Nat
    BY <1>2, <1>4
  <2>2. QED BY <1>4, <2>1
<1>6. \A k \in 1..n : LotOnly(days) => new[k].side = "BUY"
  BY <1>3, <1>4, <1>5
<1>7. n \in Nat /\ \A k \in 1..n : v[k] \in Int
  <2>1. n \in Nat /\ \A k \in 1..n : new[k] \in Orders
    BY <1>4
  <2>2. QED BY <2>1, ClosesType, RowGainType DEF RowGains
<1>8. SumOf(v, 1..n) \in Int
  <2>1. IsFiniteSet(1..n) /\ 0 \in Int /\ \A p, q \in Int : p + q \in Int
    BY <1>7, FS_Interval
  <2> HIDE DEF v
  <2>2. QED BY <1>7, <2>1, SumOfType
<1>9. QED BY <1>2, <1>4, <1>6, <1>8 DEF Since, Earnings, new, old, all

\* A session changes what the account is worth, but for what flows in, by what
\* prices earn on its rows.
LEMMA EveningOwn ==
    ASSUME NEW r \in Run, NEW days \in Seq(Day), NEW d \in 1..Len(days), NEW e \in 0..d,
           InHand(r, days, e), ~(LotOnly(days) /\ HasFlows(days))
    PROVE  LET z == Evening(r, days, d, LotOnly(days))
               c == ClosesOf(days, d)
           IN  /\ \A s \in Symbols : z.holdings[s] = Net(TradesTo(days, d), s)
               /\ ~z.debt => Valuation(z.holdings, c) + CashOf(LotOnly(days), z) - z.flow
                                = Valuation(r.holdings, c) + CashOf(LotOnly(days), r)
                                  + Earnings(days, e, d)
<1> DEFINE lotOnly == LotOnly(days)
           c == ClosesOf(days, d)
           rows == Since(days, e, d)
           b == Morning(r)
           y == ReplayedRows(lotOnly, b, rows)
           z == Evening(r, days, d, lotOnly)
           amount == days[d].flow
           gains == Earnings(days, e, d)
<1>1. d \in 0..Len(days) /\ lotOnly \in BOOLEAN /\ c \in Closes /\ amount \in Int
  <2>1. d \in 0..Len(days)
    OBVIOUS
  <2>2. QED BY <2>1, ClosesType, DayType DEF LotOnly
<1>2. /\ rows \in Seq(Orders) /\ gains \in Int
      /\ (lotOnly => \A k \in 1..Len(rows) : rows[k].side = "BUY")
      /\ ComesFirst(TradesTo(days, e), TradesTo(days, d))
      /\ TradesTo(days, e) \in Seq(Orders) /\ TradesTo(days, d) \in Seq(Orders)
  BY <1>1, SinceType
<1>3. Still(r, days, d) = rows
  BY DEF Still, Since, After, InHand
<1>4. b \in Account
  BY MorningType
<1>5. b.holdings = r.holdings /\ b.cash = r.cash /\ b.flow = 0
  BY DEF Morning
<1>6. z = Recorded(y, lotOnly, amount)
  BY <1>3 DEF Evening
<1>7. lotOnly => amount = 0
  BY DEF HasFlows
<1>8. gains = SumOf(RowGains(c, rows), 1..Len(rows))
  BY DEF Earnings
<1> HIDE DEF lotOnly, c, rows, b, z, amount, gains
<1>9. /\ y \in Account
      /\ \A s \in Symbols : y.holdings[s] = b.holdings[s] + Net(rows, s)
      /\ ~y.debt => Own(lotOnly, c, y) = Own(lotOnly, c, b) + gains
  BY <1>1, <1>2, <1>4, <1>8, ReplayedRowsOwn
<1> HIDE DEF y
<1>10. /\ z.holdings = y.holdings /\ z.debt = y.debt
       /\ z.cash = IF lotOnly THEN y.cash ELSE y.cash + amount
       /\ z.flow = y.flow + amount
  <2>1. y \in Account
    BY <1>9
  <2>2. QED BY <1>6, <2>1 DEF Recorded, Account
<1>11. \A s \in Symbols : z.holdings[s] = Net(TradesTo(days, d), s)
  <2> SUFFICES ASSUME NEW s \in Symbols PROVE z.holdings[s] = Net(TradesTo(days, d), s)
    OBVIOUS
  <2>1. z.holdings[s] = r.holdings[s] + Net(rows, s)
    BY <1>5, <1>9, <1>10
  <2>2. r.holdings[s] = Net(TradesTo(days, e), s)
    BY DEF InHand
  <2>3. Net(TradesTo(days, d), s) = Net(TradesTo(days, e), s) + Net(rows, s)
    BY <1>2, NetOfParts DEF rows, Since
  <2>4. QED BY <2>1, <2>2, <2>3
<1>12. ASSUME ~z.debt
       PROVE  Valuation(z.holdings, c) + CashOf(lotOnly, z) - z.flow
                 = Valuation(r.holdings, c) + CashOf(lotOnly, r) + gains
  <2> DEFINE after == Valuation(y.holdings, c)
             before == Valuation(b.holdings, c)
  <2>1. /\ y.holdings \in [Symbols -> Int] /\ y.cash \in Int /\ y.flow \in Int
        /\ b.holdings \in [Symbols -> Int] /\ b.cash \in Int
    BY <1>4, <1>9 DEF Account
  <2>2. after \in Int /\ before \in Int
    BY <1>1, <2>1, ValuationType
  <2>3. Own(lotOnly, c, y) = Own(lotOnly, c, b) + gains
    BY <1>9, <1>10, <1>12
  <2>4. /\ Own(lotOnly, c, y) = after + CashOf(lotOnly, y) - y.flow
        /\ Own(lotOnly, c, b) = before + CashOf(lotOnly, b) - 0
    BY <1>5 DEF Own, CashOf
  <2>5. /\ Valuation(z.holdings, c) = after /\ Valuation(r.holdings, c) = before
        /\ CashOf(lotOnly, r) = CashOf(lotOnly, b)
    BY <1>5, <1>10 DEF CashOf
  <2> DEFINE yc == CashOf(lotOnly, y)
             zc == CashOf(lotOnly, z)
             bc == CashOf(lotOnly, b)
  <2>6. yc \in Int /\ bc \in Int /\ zc = yc + amount
    <3>1. CASE lotOnly
      BY <3>1, <1>7, <1>1 DEF CashOf
    <3>2. CASE ~lotOnly
      BY <3>2, <1>10, <2>1 DEF CashOf
    <3>3. QED BY <3>1, <3>2
  <2> HIDE DEF after, before, yc, zc, bc
  <2>7. after + yc - y.flow = before + bc - 0 + gains
    BY <2>3, <2>4 DEF yc, bc
  <2>8. after + zc - z.flow = before + bc + gains
    BY <1>1, <1>2, <1>10, <2>1, <2>2, <2>6, <2>7
  <2>9. QED BY <2>5, <2>8 DEF zc, bc
<1>13. QED BY <1>11, <1>12 DEF lotOnly, c, z, gains

\* A run whose last session was sound shows it, with its NAV.
WorthOf(r, days, e, lotOnly) == Valuation(r.holdings, ClosesOf(days, e)) + CashOf(lotOnly, r)
ShowsLast(r, days, e, lotOnly) ==
    r.sound /\ r.prev # 0 =>
       /\ r.points # <<>>
       /\ r.points[Len(r.points)].day = e
       /\ r.prev = WorthOf(r, days, e, lotOnly)

\* A session that is sound, after a sound one, returns what prices earned.
LEMMA SessionEarns ==
    ASSUME NEW r \in Run, NEW days \in Seq(Day), NEW d \in 1..Len(days), NEW e \in 0..d,
           InHand(r, days, e), ~(LotOnly(days) /\ HasFlows(days)),
           days[d].quote # NoBar, Priced(r, days, d, LotOnly(days))
    PROVE  LET z == Evening(r, days, d, LotOnly(days))
               nav == Worth(r, days, d, LotOnly(days))
           IN  /\ nav = Valuation(z.holdings, ClosesOf(days, d)) + CashOf(LotOnly(days), z)
               /\ ~z.debt /\ r.prev = WorthOf(r, days, e, LotOnly(days)) =>
                     nav - r.prev - z.flow = Gain(days, e, d)
<1> DEFINE lotOnly == LotOnly(days)
           c == ClosesOf(days, d)
           b == ClosesOf(days, e)
           z == Evening(r, days, d, lotOnly)
           seen == Seen(r, days, d, lotOnly)
           nav == Worth(r, days, d, lotOnly)
           gains == Earnings(days, e, d)
           h == r.holdings
           worth == Valuation(z.holdings, c)
           now == Valuation(h, c)
           then == Valuation(h, b)
<1>1. /\ d \in 0..Len(days) /\ e \in 0..Len(days) /\ lotOnly \in BOOLEAN
  BY DEF LotOnly
<1>2. c \in Closes /\ b \in Closes /\ gains \in Int
  BY <1>1, ClosesType, SinceType
<1>3. z \in Account /\ h \in [Symbols -> Int] /\ r.cash \in Int
  BY <1>1, EveningType DEF Run
<1>4. z.holdings \in [Symbols -> Int] /\ z.cash \in Int /\ z.flow \in Int
  BY <1>3 DEF Account
<1>5. Equity(z.holdings, seen) = worth
  <2>1. \A s \in Held(z.holdings) : s \in DOMAIN seen /\ seen[s] = c[s]
    <3>1. \A s \in Held(z.holdings) : s \in Symbols
      BY DEF Held
    <3>2. \A s \in Symbols : c[s] = Close(days, s, d)
      BY DEF ClosesOf
    <3>3. QED BY <3>1, <3>2 DEF Priced
  <2> HIDE DEF seen, c, z
  <2>2. QED BY <1>2, <1>4, <2>1, EquityIsValuation
<1>6. nav = IF lotOnly THEN Equity(z.holdings, seen) ELSE z.cash + Equity(z.holdings, seen)
  BY DEF Worth
<1>7. ~z.debt => worth + CashOf(lotOnly, z) - z.flow = now + CashOf(lotOnly, r) + gains
  BY EveningOwn
<1>8. Gain(days, e, d) = now - then + gains
  <2>1. \A s \in Symbols : h[s] = Net(TradesTo(days, e), s)
    BY DEF InHand
  <2>2. QED BY <1>1, <1>3, <2>1, GainIs DEF Earnings, Since
<1>9. WorthOf(r, days, e, lotOnly) = then + CashOf(lotOnly, r)
  BY DEF WorthOf
<1> DEFINE zc == CashOf(lotOnly, z)
           rc == CashOf(lotOnly, r)
<1>10. zc \in Int /\ rc \in Int
  BY <1>3, <1>4 DEF CashOf
<1>11. worth \in Int /\ now \in Int /\ then \in Int
  <2> HIDE DEF c, b, z, h
  <2>1. QED BY <1>2, <1>3, <1>4, ValuationType
<1> HIDE DEF z, seen, nav, gains, worth, now, then
<1>12. nav = worth + zc
  <2>1. CASE lotOnly
    BY <2>1, <1>5, <1>6, <1>11 DEF CashOf
  <2>2. CASE ~lotOnly
    BY <2>2, <1>4, <1>5, <1>6, <1>11 DEF CashOf
  <2>3. QED BY <2>1, <2>2
<1> HIDE DEF zc, rc
<1>13. ASSUME ~z.debt, r.prev = WorthOf(r, days, e, lotOnly)
       PROVE  nav - r.prev - z.flow = Gain(days, e, d)
  <2>1. worth + zc - z.flow = now + rc + gains
    BY <1>7, <1>13 DEF zc, rc
  <2>2. r.prev = then + rc
    BY <1>9, <1>13 DEF rc
  <2> DEFINE f == z.flow
             q == r.prev
  <2>3. /\ nav = worth + zc /\ q = then + rc /\ worth + zc - f = now + rc + gains
        /\ worth \in Int /\ zc \in Int /\ then \in Int /\ rc \in Int
        /\ now \in Int /\ gains \in Int /\ f \in Int
    BY <2>1, <2>2, <1>2, <1>4, <1>10, <1>11, <1>12
  <2> HIDE DEF f, q
  <2>4. nav - q - f = now - then + gains
    <3> HIDE DEF nav, worth, zc, then, rc, now, gains
    <3>1. nav - f = now + rc + gains
      BY <2>3
    <3>2. nav \in Int /\ q \in Int
      BY <2>3
    <3>3. QED BY <2>3, <3>1, <3>2
  <2>5. QED BY <2>4, <1>8 DEF f, q
<1>14. QED BY <1>12, <1>13 DEF nav, z, worth, zc

\* Point i has no return, is not sound, or returns what prices earned since the
\* point before it.
Earns(days, points, i) ==
    points[i].ret # NoReturn /\ points[i].sound =>
       i > 1 /\ points[i].ret = Clamped(Gain(days, points[i - 1].day, points[i].day), points[i].base)

\* So far the run fits the history: e is the day of its last session.
Stands(r, days, d) ==
    /\ \E e \in 0..d : InHand(r, days, e) /\ ShowsLast(r, days, e, LotOnly(days))
    /\ \A i \in 1..Len(r.points) : Earns(days, r.points, i)

LastEarns(days, points, d) ==
    points[Len(points)].day = d /\ Earns(days, points, Len(points))

LEMMA PointEarns ==
    ASSUME NEW r \in Run, NEW days \in Seq(Day), NEW d \in 1..Len(days), NEW e \in 0..d,
           InHand(r, days, e), ShowsLast(r, days, e, LotOnly(days)),
           ~(LotOnly(days) /\ HasFlows(days)), days[d].quote # NoBar,
           NEW points, points = Append(r.points, NewPoint(r, days, d, LotOnly(days)))
    PROVE  LastEarns(days, points, d)
<1> DEFINE lotOnly == LotOnly(days)
           m == Len(r.points)
           p == NewPoint(r, days, d, lotOnly)
           z == Evening(r, days, d, lotOnly)
           nav == Worth(r, days, d, lotOnly)
           priced == Priced(r, days, d, lotOnly)
<1>1. /\ p.day = d /\ p.base = r.prev /\ p.sound = (priced /\ ~z.debt /\ r.sound)
      /\ p.ret = IF r.prev = 0 THEN NoReturn ELSE Clamped(nav - r.prev - z.flow, r.prev)
  BY DEF NewPoint, Point
<1>2. r.points \in Seq(Points) /\ m \in Nat
  BY DEF Run
<1>3. points = Append(r.points, p)
  OBVIOUS
<1> HIDE DEF m, p, z, nav, priced, lotOnly
<1>4. Len(points) = m + 1 /\ points[m + 1] = p /\ \A i \in 1..m : points[i] = r.points[i]
  BY <1>2, <1>3 DEF m
<1>5. ASSUME p.ret # NoReturn, p.sound
      PROVE  m + 1 > 1 /\ p.ret = Clamped(Gain(days, points[m].day, p.day), p.base)
  <2>1. r.prev # 0 /\ priced /\ ~z.debt /\ r.sound
    BY <1>1, <1>5
  <2>2. r.points # <<>> /\ r.points[m].day = e /\ r.prev = WorthOf(r, days, e, lotOnly)
    BY <2>1 DEF ShowsLast, lotOnly, m
  <2>3. m \in 1..m
    <3>1. m # 0
      BY <1>2, <2>2 DEF m
    <3>2. QED BY <1>2, <3>1
  <2>4. points[m].day = e /\ m + 1 > 1
    BY <1>2, <1>4, <2>2, <2>3
  <2>5. nav - r.prev - z.flow = Gain(days, e, d)
    BY <2>1, <2>2, SessionEarns DEF priced, nav, z, lotOnly
  <2>6. QED BY <1>1, <2>1, <2>4, <2>5
<1>6. (m + 1) - 1 = m
  BY <1>2
<1>7. QED BY <1>1, <1>4, <1>5, <1>6 DEF Earns, LastEarns

LEMMA TurnStands ==
    ASSUME NEW r \in Run, NEW days \in Seq(Day), NEW d \in 1..Len(days),
           ~(LotOnly(days) /\ HasFlows(days)), Stands(r, days, d - 1)
    PROVE  Stands(Turn(days, 1, LotOnly(days), r, d), days, d)
<1> DEFINE lotOnly == LotOnly(days)
<1>1. d \in 0..d /\ d \in Nat /\ d >= 1 /\ 1 \in Nat /\ lotOnly \in BOOLEAN
      /\ \A e \in 0..(d - 1) : e \in 0..d
  BY DEF LotOnly
<1>2. PICK e \in 0..(d - 1) : InHand(r, days, e) /\ ShowsLast(r, days, e, lotOnly)
  BY DEF Stands
<1>3. e \in 0..d
  BY <1>1
<1>4. \A i \in 1..Len(r.points) : Earns(days, r.points, i)
  BY DEF Stands
<1>5. CASE days[d].quote = NoBar
  BY <1>2, <1>3, <1>4, <1>5 DEF Turn, Stands
<1>6. CASE days[d].quote # NoBar
  <2> DEFINE z == Evening(r, days, d, lotOnly)
             nav == Worth(r, days, d, lotOnly)
             priced == Priced(r, days, d, lotOnly)
             p == NewPoint(r, days, d, lotOnly)
             R == Session(r, days, d, 1, lotOnly)
             m == Len(r.points)
  <2>1. /\ R.holdings = z.holdings /\ R.cash = z.cash
        /\ R.rows = Len(TradesTo(days, d))
        /\ R.prev = IF nav > 0 THEN nav ELSE r.prev
        /\ R.sound = (nav > 0 /\ priced)
        /\ R.points = IF nav > 0 THEN Append(r.points, p) ELSE r.points
    <3>1. R = Settled(r, days, d, 1, lotOnly)
      BY <1>1, <1>6, SessionIs
    <3> HIDE DEF R
    <3>2. Shows(r, days, d, 1, lotOnly) <=> nav > 0
      BY <1>1 DEF Shows
    <3>3. QED BY <3>1, <3>2 DEF Settled
  <2>2. /\ \A s \in Symbols : z.holdings[s] = Net(TradesTo(days, d), s)
        /\ priced => nav = Valuation(z.holdings, ClosesOf(days, d)) + CashOf(lotOnly, z)
    BY <1>2, <1>3, <1>6, EveningOwn, SessionEarns
  <2>3. r.points \in Seq(Points) /\ m \in Nat
    BY DEF Run
  <2> DEFINE points == Append(r.points, p)
  <2>4. points[Len(points)].day = d /\ Earns(days, points, Len(points))
    <3> HIDE DEF p
    <3>1. points = Append(r.points, NewPoint(r, days, d, LotOnly(days)))
      BY DEF p
    <3> HIDE DEF points
    <3>2. LastEarns(days, points, d)
      BY <1>2, <1>3, <1>6, <3>1, PointEarns
    <3>3. QED BY <3>2 DEF LastEarns
  <2> HIDE DEF z, nav, priced, p, R, m
  <2>5. Len(points) = m + 1 /\ points # <<>> /\ \A i \in 1..m : points[i] = r.points[i]
    <3>1. Len(points) = m + 1 /\ \A i \in 1..m : points[i] = r.points[i]
      BY <2>3 DEF m
    <3> HIDE DEF points
    <3>2. Len(points) # 0
      BY <2>3, <3>1
    <3>3. QED BY <3>1, <3>2
  <2> HIDE DEF points
  <2>6. InHand(R, days, d)
    BY <2>1, <2>2 DEF InHand
  <2>7. ShowsLast(R, days, d, lotOnly)
    <3> SUFFICES ASSUME R.sound
                 PROVE  /\ R.points # <<>> /\ R.points[Len(R.points)].day = d
                        /\ R.prev = WorthOf(R, days, d, lotOnly)
      BY DEF ShowsLast
    <3>1. nav > 0 /\ priced
      BY <2>1
    <3>2. R.points = points /\ R.prev = nav
      BY <2>1, <3>1 DEF points
    <3>3. WorthOf(R, days, d, lotOnly) = Valuation(z.holdings, ClosesOf(days, d)) + CashOf(lotOnly, z)
      BY <2>1 DEF WorthOf, CashOf
    <3>4. QED BY <2>2, <2>4, <2>5, <3>1, <3>2, <3>3
  <2>8. \A i \in 1..Len(R.points) : Earns(days, R.points, i)
    <3>1. CASE nav > 0
      <4>1. R.points = points
        BY <2>1, <3>1 DEF points
      <4>2. ASSUME NEW i \in 1..Len(points) PROVE Earns(days, points, i)
        <5>1. CASE i = m + 1
          BY <5>1, <2>4, <2>5
        <5>2. CASE i # m + 1
          <6>1. i \in 1..m /\ points[i] = r.points[i] /\ Earns(days, r.points, i)
            BY <5>2, <1>4, <2>3, <2>5 DEF m
          <6>2. i > 1 => points[i - 1] = r.points[i - 1]
            BY <2>3, <2>5, <6>1
          <6>3. QED BY <6>1, <6>2 DEF Earns
        <5>3. QED BY <5>1, <5>2
      <4>3. QED BY <4>1, <4>2
    <3>2. CASE ~(nav > 0)
      BY <1>4, <2>1, <3>2
    <3>3. QED BY <3>1, <3>2
  <2>9. Stands(R, days, d)
    BY <1>1, <2>6, <2>7, <2>8 DEF Stands
  <2>10. QED BY <1>6, <2>9 DEF Turn, R
<1>7. QED BY <1>5, <1>6

LEMMA RunStands ==
    ASSUME NEW days \in Seq(Day), TradesTo(days, Len(days)) # <<>>,
           ~(LotOnly(days) /\ HasFlows(days))
    PROVE  /\ Replay(days, 1) \in Seq(Points)
           /\ \A i \in 1..Len(Replay(days, 1)) : Earns(days, Replay(days, 1), i)
<1> DEFINE n == Len(days)
           lotOnly == LotOnly(days)
           whole == [k \in 1..n |-> k]
<1>1. n \in Nat /\ lotOnly \in BOOLEAN /\ FirstTrade(days) \in 1..n /\ 1 \in Nat
  BY FirstTradeType DEF LotOnly
<1>2. Replay(days, 1) = Sessions(days, 1, lotOnly, whole).points
  <2>1. Min({1, FirstTrade(days)}) = 1
    BY <1>1, MinOfTwo
  <2>2. Replay(days, 1) = Sessions(days, 1, lotOnly, [k \in 1..(n - 1 + 1) |-> 1 + k - 1]).points
    BY <2>1 DEF Replay
  <2>3. n - 1 + 1 = n /\ \A k \in 1..n : 1 + k - 1 = k
    BY <1>1
  <2>4. [k \in 1..(n - 1 + 1) |-> 1 + k - 1] = whole
    BY <2>3
  <2>5. QED BY <2>2, <2>4
<1>3. whole \in Seq(1..n) /\ Len(whole) = n
  <2>1. whole \in Seq(1..n)
    BY <1>1
  <2>2. Len(whole) = n
    BY <1>1
  <2>3. QED BY <2>1, <2>2
<1>4. PICK a : /\ IsWalk(a, SessionStep(days, 1, lotOnly, whole), NewRun, n, Run)
               /\ a[n] = Sessions(days, 1, lotOnly, whole)
  <2> HIDE DEF whole, lotOnly
  <2>1. n = Len(whole)
    BY <1>3
  <2>2. PICK a : /\ IsWalk(a, SessionStep(days, 1, lotOnly, whole), NewRun, Len(whole), Run)
                 /\ a[Len(whole)] = Sessions(days, 1, lotOnly, whole)
    BY <1>1, <1>3, SessionsAreWalk
  <2>3. QED BY <2>1, <2>2
<1>5. (\A k \in 0..n : a[k] \in Run) /\ a[0] = NewRun
  BY <1>4 DEF IsWalk
<1>6. \A k \in 1..n : k - 1 \in 0..n /\ a[k] = Turn(days, 1, lotOnly, a[k - 1], k)
  <2> SUFFICES ASSUME NEW k \in 1..n
               PROVE  k - 1 \in 0..n /\ a[k] = Turn(days, 1, lotOnly, a[k - 1], k)
    OBVIOUS
  <2>1. k - 1 \in 0..n
    BY <1>1
  <2>2. a[k - 1] \in Run
    BY <1>5, <2>1
  <2>3. QED BY <2>1, <2>2, <1>3, <1>4 DEF IsWalk, SessionStep
<1> DEFINE G == {k \in 0..n : Stands(a[k], days, k)}
<1>7. 0 \in G
  <2>1. 0 \in 0..n /\ 0 \in 0..0 /\ 0 \in 0..Len(days) /\ \A i \in 1..0 : days[i].trades = <<>>
    BY <1>1
  <2>2. TradesTo(days, 0) = <<>>
    BY <2>1, NoTradesNoRows
  <2>3. \A s \in Symbols : Net(<<>>, s) = 0
    <3> SUFFICES ASSUME NEW s \in Symbols PROVE Net(<<>>, s) = 0
      OBVIOUS
    <3>1. <<>> \in Seq(Orders) /\ Len(<<>>) = 0 /\ 1..0 = {}
      OBVIOUS
    <3>2. Net(<<>>, s) = SumOf(RowShares(<<>>, s), 1..Len(<<>>))
      BY <3>1, NetIsSum
    <3>3. QED BY <3>1, <3>2, SumOfEmpty
  <2>4. /\ NewRun.rows = 0 /\ NewRun.prev = 0 /\ NewRun.points = <<>>
        /\ \A s \in Symbols : NewRun.holdings[s] = 0
    BY DEF NewRun
  <2>5. InHand(NewRun, days, 0)
    BY <2>2, <2>3, <2>4 DEF InHand
  <2>6. Stands(NewRun, days, 0)
    BY <2>1, <2>4, <2>5 DEF Stands, ShowsLast
  <2>7. QED BY <2>1, <2>6, <1>5
<1>8. \A k \in 1..n : k - 1 \in G => k \in G
  <2>1. ASSUME NEW k \in 1..n, k - 1 \in G PROVE k \in G
    <3>1. k \in 0..n /\ a[k - 1] \in Run /\ Stands(a[k - 1], days, k - 1)
      BY <1>1, <1>5, <1>6, <2>1
    <3>2. Stands(a[k], days, k)
      BY <1>6, <3>1, TurnStands
    <3>3. QED BY <3>1, <3>2
  <2>2. QED BY <2>1
<1>9. n \in G
  <2>1. n \in 0..n
    BY <1>1
  <2> HIDE DEF G, n
  <2>2. QED BY <1>1, <1>7, <1>8, <2>1, IntervalInduction
<1>10. Stands(a[n], days, n) /\ a[n] \in Run
  BY <1>5, <1>9
<1>11. QED BY <1>2, <1>4, <1>10 DEF Stands, Run

\* A day's return in the chart is what prices earned since the point before it,
\* whatever was traded, paid and quoted: while all that is held has a price and
\* no debt is written off (the flow-adjusted returns of _trades_performance_series).
THEOREM ChartShowsGains == Spec => []ReturnsAreGains
<1>1. HistoryOK => ReturnsAreGains
  <2> SUFFICES ASSUME HistoryOK, ~(LotOnly(past) /\ HasFlows(past)),
                      NEW i \in DOMAIN Replay(past, 1),
                      Replay(past, 1)[i].ret # NoReturn, Replay(past, 1)[i].sound
               PROVE  Replay(past, 1)[i].ret =
                         Clamped(Gain(past, Replay(past, 1)[i - 1].day, Replay(past, 1)[i].day),
                                 Replay(past, 1)[i].base)
    BY DEF ReturnsAreGains
  <2> DEFINE points == Replay(past, 1)
  <2>1. past \in Seq(Day)
    BY DEF HistoryOK
  <2>2. CASE TradesTo(past, Len(past)) = <<>>
    <3>1. DOMAIN points = {}
      BY <2>2 DEF Replay
    <3>2. QED BY <3>1
  <2>3. CASE TradesTo(past, Len(past)) # <<>>
    <3>1. points \in Seq(Points) /\ \A j \in 1..Len(points) : Earns(past, points, j)
      BY <2>1, <2>3, RunStands
    <3> HIDE DEF points
    <3>2. i \in 1..Len(points)
      BY <3>1 DEF points
    <3>3. QED BY <3>1, <3>2 DEF Earns, points
  <2>4. QED BY <2>2, <2>3
<1>2. QED BY <1>1, HistoryInvariant, PTL

=============================================================================
