-------------------------- MODULE AggregatorProofs --------------------------
(***************************************************************************)
(* Proofs about the aggregator and about the maintenance job that rewrites *)
(* its tables, for every calendar of regular months and years, every set   *)
(* of registers and every retention.                                       *)
(***************************************************************************)
EXTENDS Backfill, SumTheorems

-----------------------------------------------------------------------------
\* The calendar.

\* Division by the length of a period.
LEMMA DivideBy ==
  ASSUME NEW a \in Nat, NEW n \in Nat \ {0}
  PROVE  /\ a \div n \in Nat
         /\ (a \div n) * n <= a /\ a < (a \div n) * n + n
  OBVIOUS

\* Multiplication by the length of a period.
LEMMA TimesMonotone ==
  ASSUME NEW a \in Int, NEW b \in Int, NEW n \in Nat
  PROVE  /\ a * n \in Int /\ (a + 1) * n = a * n + n
         /\ a \in Nat => a * n \in Nat
         /\ a <= b => a * n <= b * n
  OBVIOUS

\* A month ends where the next one begins, and no later than any later one.
LEMMA MonthOrder ==
  ASSUME NEW m \in Nat, NEW n \in Nat
  PROVE  /\ MonthFirst(m) \in Int /\ MonthLast(m) \in Nat
         /\ MonthFirst(m) <= MonthLast(m) /\ MonthFirst(m + 1) = MonthLast(m) + 1
         /\ m <= n => MonthFirst(m) <= MonthFirst(n) /\ MonthLast(m) <= MonthLast(n)
         /\ m < n => MonthLast(m) < MonthFirst(n)
<1>1. DaysPerMonth \in Nat \ {0}
  BY AggregatorAssumption
<1>2. /\ m * DaysPerMonth \in Nat /\ (m - 1) * DaysPerMonth \in Int
      /\ m * DaysPerMonth = (m - 1) * DaysPerMonth + DaysPerMonth
  BY <1>1, TimesMonotone
<1>3. m <= n => m * DaysPerMonth <= n * DaysPerMonth /\ (m - 1) * DaysPerMonth <= (n - 1) * DaysPerMonth
  BY <1>1, TimesMonotone
<1>4. m < n => m * DaysPerMonth <= (n - 1) * DaysPerMonth
  BY <1>1, TimesMonotone
<1>5. (m + 1) - 1 = m
  OBVIOUS
<1>6. n * DaysPerMonth \in Nat /\ (n - 1) * DaysPerMonth \in Int
  BY <1>1, TimesMonotone
<1> QED
  BY <1>1, <1>2, <1>3, <1>4, <1>5, <1>6 DEF MonthFirst, MonthLast

\* A day lies in its month.
LEMMA MonthHolds ==
  ASSUME NEW d \in Nat \ {0}
  PROVE  /\ MonthOf(d) \in Nat \ {0}
         /\ MonthFirst(MonthOf(d)) <= d /\ d <= MonthLast(MonthOf(d))
<1> DEFINE q == (d - 1) \div DaysPerMonth
<1>1. DaysPerMonth \in Nat \ {0} /\ d - 1 \in Nat
  BY AggregatorAssumption
<1>2. q \in Nat /\ q * DaysPerMonth <= d - 1 /\ d - 1 < q * DaysPerMonth + DaysPerMonth
  BY <1>1, DivideBy
<1> HIDE DEF q
<1>3. q * DaysPerMonth \in Nat /\ (q + 1) * DaysPerMonth = q * DaysPerMonth + DaysPerMonth
  BY <1>1, <1>2, TimesMonotone
<1>4. MonthOf(d) = q + 1
  BY DEF MonthOf, q
<1>5. MonthFirst(q + 1) = q * DaysPerMonth + 1 /\ MonthLast(q + 1) = q * DaysPerMonth + DaysPerMonth
  BY <1>2, <1>3 DEF MonthFirst, MonthLast
<1> QED
  BY <1>1, <1>2, <1>3, <1>4, <1>5

\* It lies in no other month.
LEMMA MonthOfIn ==
  ASSUME NEW d \in Nat \ {0}, NEW m \in Nat, MonthFirst(m) <= d, d <= MonthLast(m)
  PROVE  MonthOf(d) = m
<1>1. MonthOf(d) \in Nat /\ MonthFirst(MonthOf(d)) <= d /\ d <= MonthLast(MonthOf(d))
  BY MonthHolds
<1>2. /\ MonthOf(d) < m => MonthLast(MonthOf(d)) < MonthFirst(m)
      /\ MonthFirst(m) \in Int /\ MonthLast(m) \in Int
  BY <1>1, MonthOrder
<1>3. /\ m < MonthOf(d) => MonthLast(m) < MonthFirst(MonthOf(d))
      /\ MonthFirst(MonthOf(d)) \in Int /\ MonthLast(MonthOf(d)) \in Int
  BY <1>1, MonthOrder
<1> QED
  BY <1>1, <1>2, <1>3

\* The months follow the days.
LEMMA MonthOfOrder ==
  ASSUME NEW d \in Nat \ {0}, NEW e \in Nat \ {0}, d <= e
  PROVE  MonthOf(d) <= MonthOf(e)
<1>1. /\ MonthOf(d) \in Nat /\ MonthFirst(MonthOf(d)) <= d
      /\ MonthOf(e) \in Nat /\ e <= MonthLast(MonthOf(e))
  BY MonthHolds
<1>2. /\ MonthOf(e) < MonthOf(d) => MonthLast(MonthOf(e)) < MonthFirst(MonthOf(d))
      /\ MonthLast(MonthOf(e)) \in Int
  BY <1>1, MonthOrder
<1>3. MonthFirst(MonthOf(d)) \in Int
  BY <1>1, MonthOrder
<1> QED
  BY <1>1, <1>2, <1>3

\* The same for years, which are made of months.
LEMMA YearOrder ==
  ASSUME NEW y \in Nat, NEW z \in Nat
  PROVE  /\ YearFirst(y + 1) \in Nat \ {0} /\ YearLast(y) \in Nat
         /\ YearFirst(y + 1) = YearLast(y) + 1
         /\ y # 0 => YearFirst(y) <= YearLast(y) /\ YearFirst(y) \in Nat \ {0}
         /\ y <= z => YearLast(y) <= YearLast(z)
         /\ y # 0 /\ y <= z => YearFirst(y) <= YearFirst(z)
         /\ y < z => YearLast(y) < YearFirst(z)
<1>1. MonthsPerYear \in Nat \ {0}
  BY AggregatorAssumption
<1> DEFINE p(x) == x * MonthsPerYear
<1>2. ASSUME NEW x \in Nat
      PROVE  /\ p(x) \in Nat /\ p(x + 1) = p(x) + MonthsPerYear
             /\ YearFirst(x + 1) = MonthFirst(p(x) + 1) /\ YearLast(x) = MonthLast(p(x))
  <2>1. (x + 1) - 1 = x
    OBVIOUS
  <2> QED BY <1>1, <2>1, TimesMonotone DEF YearFirst, YearLast
<1>3. ASSUME NEW w \in Nat, NEW x \in Nat, w <= x PROVE p(w) <= p(x)
  BY <1>1, <1>3, TimesMonotone
<1> HIDE DEF p
<1>4. ASSUME NEW x \in Nat
      PROVE  /\ YearFirst(x + 1) = YearLast(x) + 1 /\ YearLast(x) \in Nat
             /\ YearFirst(x + 1) <= YearLast(x + 1)
  <2>1. MonthFirst(p(x) + 1) = MonthLast(p(x)) + 1 /\ MonthLast(p(x)) \in Nat
    BY <1>2, MonthOrder
  <2>2. p(x) < p(x + 1) /\ p(x + 1) \in Nat
    BY <1>1, <1>2
  <2>3. MonthLast(p(x)) <= MonthLast(p(x + 1)) /\ MonthLast(p(x)) < MonthFirst(p(x + 1))
    BY <1>2, <2>2, MonthOrder
  <2>4. MonthFirst(p(x + 1)) <= MonthLast(p(x + 1)) /\ MonthFirst(p(x + 1)) \in Int /\ MonthLast(p(x + 1)) \in Nat
    BY <2>2, MonthOrder
  <2>5. YearLast(x + 1) = MonthLast(p(x + 1))
    BY <1>2
  <2> QED BY <1>2, <2>1, <2>3, <2>4, <2>5
<1>5. ASSUME NEW w \in Nat, NEW x \in Nat, w <= x PROVE YearLast(w) <= YearLast(x)
  <2>1. p(w) \in Nat /\ p(x) \in Nat /\ p(w) <= p(x)
    BY <1>2, <1>3, <1>5
  <2> QED BY <1>2, <2>1, MonthOrder
<1>6. ASSUME NEW x \in Nat, x # 0
      PROVE  /\ x - 1 \in Nat /\ YearFirst(x) = YearLast(x - 1) + 1 /\ YearLast(x - 1) \in Nat
             /\ YearFirst(x) <= YearLast(x)
  <2>1. x - 1 \in Nat /\ (x - 1) + 1 = x
    BY <1>6
  <2> QED BY <1>4, <2>1
<1>7. y <= z => YearLast(y) <= YearLast(z)
  BY <1>5
<1>8. y # 0 /\ y <= z => YearFirst(y) <= YearFirst(z)
  <2>1. SUFFICES ASSUME y # 0, y <= z PROVE YearFirst(y) <= YearFirst(z)
    OBVIOUS
  <2>2. z # 0 /\ y - 1 <= z - 1
    BY <2>1
  <2>3. /\ YearFirst(y) = YearLast(y - 1) + 1 /\ YearLast(y - 1) \in Nat /\ y - 1 \in Nat
        /\ YearFirst(z) = YearLast(z - 1) + 1 /\ YearLast(z - 1) \in Nat /\ z - 1 \in Nat
    BY <1>6, <2>1, <2>2
  <2>4. YearLast(y - 1) <= YearLast(z - 1)
    BY <1>5, <2>2, <2>3
  <2> QED BY <2>3, <2>4
<1>9. y < z => YearLast(y) < YearFirst(z)
  <2>1. SUFFICES ASSUME y < z PROVE YearLast(y) < YearFirst(z)
    OBVIOUS
  <2>2. z # 0 /\ y <= z - 1 /\ z - 1 \in Nat
    BY <2>1
  <2>3. YearFirst(z) = YearLast(z - 1) + 1 /\ YearLast(z - 1) \in Nat
    BY <1>6, <2>2
  <2>4. YearLast(y) <= YearLast(z - 1) /\ YearLast(y) \in Nat
    BY <1>4, <1>5, <2>2
  <2> QED BY <2>3, <2>4
<1>10. YearFirst(y + 1) = YearLast(y) + 1 /\ YearLast(y) \in Nat
  BY <1>4
<1>11. y # 0 => YearFirst(y) <= YearLast(y) /\ YearFirst(y) \in Nat \ {0}
  BY <1>6
<1> QED
  BY <1>7, <1>8, <1>9, <1>10, <1>11

\* A day lies in its year.
LEMMA YearHolds ==
  ASSUME NEW d \in Nat \ {0}
  PROVE  /\ YearOf(d) \in Nat \ {0}
         /\ YearFirst(YearOf(d)) <= d /\ d <= YearLast(YearOf(d))
<1> DEFINE m == MonthOf(d)
           q == (m - 1) \div MonthsPerYear
<1>1. MonthsPerYear \in Nat \ {0}
  BY AggregatorAssumption
<1>2. m \in Nat \ {0} /\ MonthFirst(m) <= d /\ d <= MonthLast(m)
  BY MonthHolds
<1> HIDE DEF m
<1>3. q \in Nat /\ q * MonthsPerYear <= m - 1 /\ m - 1 < q * MonthsPerYear + MonthsPerYear
  <2>1. m - 1 \in Nat
    BY <1>2
  <2> QED BY <1>1, <2>1, DivideBy
<1>4. YearOf(d) = q + 1
  BY DEF YearOf, m, q
<1> HIDE DEF q
<1>5. /\ q * MonthsPerYear \in Nat
      /\ (q + 1) * MonthsPerYear = q * MonthsPerYear + MonthsPerYear
  BY <1>1, <1>3, TimesMonotone
<1>6. /\ YearFirst(q + 1) = MonthFirst(q * MonthsPerYear + 1)
      /\ YearLast(q + 1) = MonthLast(q * MonthsPerYear + MonthsPerYear)
  <2>1. (q + 1) - 1 = q
    BY <1>3
  <2> QED BY <1>5, <2>1 DEF YearFirst, YearLast
<1>7. MonthFirst(q * MonthsPerYear + 1) <= MonthFirst(m)
  <2>1. q * MonthsPerYear + 1 \in Nat /\ q * MonthsPerYear + 1 <= m
    BY <1>2, <1>3, <1>5
  <2> QED BY <1>2, <2>1, MonthOrder
<1>8. MonthLast(m) <= MonthLast(q * MonthsPerYear + MonthsPerYear)
  <2>1. q * MonthsPerYear + MonthsPerYear \in Nat /\ m <= q * MonthsPerYear + MonthsPerYear
    BY <1>1, <1>2, <1>3, <1>5
  <2> QED BY <1>2, <2>1, MonthOrder
<1>9. /\ MonthFirst(q * MonthsPerYear + 1) \in Int /\ MonthFirst(m) \in Int /\ MonthLast(m) \in Int
      /\ MonthLast(q * MonthsPerYear + MonthsPerYear) \in Int
  BY <1>1, <1>2, <1>5, MonthOrder
<1> QED
  BY <1>2, <1>3, <1>4, <1>6, <1>7, <1>8, <1>9

\* It lies in no other year.
LEMMA YearOfIn ==
  ASSUME NEW d \in Nat \ {0}, NEW y \in Nat \ {0}, YearFirst(y) <= d, d <= YearLast(y)
  PROVE  YearOf(d) = y
<1>1. YearOf(d) \in Nat \ {0} /\ YearFirst(YearOf(d)) <= d /\ d <= YearLast(YearOf(d))
  BY YearHolds
<1>2. /\ YearOf(d) < y => YearLast(YearOf(d)) < YearFirst(y)
      /\ YearFirst(YearOf(d)) \in Int /\ YearLast(YearOf(d)) \in Int
  BY <1>1, YearOrder
<1>3. /\ y < YearOf(d) => YearLast(y) < YearFirst(YearOf(d))
      /\ YearFirst(y) \in Int /\ YearLast(y) \in Int
  BY <1>1, YearOrder
<1> QED
  BY <1>1, <1>2, <1>3

\* The years follow the days.
LEMMA YearOfOrder ==
  ASSUME NEW d \in Nat \ {0}, NEW e \in Nat \ {0}, d <= e
  PROVE  YearOf(d) <= YearOf(e)
<1>1. /\ YearOf(d) \in Nat \ {0} /\ YearFirst(YearOf(d)) <= d
      /\ YearOf(e) \in Nat \ {0} /\ e <= YearLast(YearOf(e))
  BY YearHolds
<1>2. YearOf(e) < YearOf(d) => YearLast(YearOf(e)) < YearFirst(YearOf(d))
  BY <1>1, YearOrder
<1>3. YearLast(YearOf(e)) \in Int /\ YearFirst(YearOf(d)) \in Int
  BY <1>1, YearOrder
<1> QED
  BY <1>1, <1>2, <1>3

-----------------------------------------------------------------------------
\* The sums of daily rows.

DailyRows == [Days -> Nat \cup {NoVal}]

\* The rows of a range are finitely many, and hold naturals.
LEMMA RowsInType ==
  ASSUME NEW row \in DailyRows, NEW from \in Int, NEW to \in Int
  PROVE  /\ IsFiniteSet(DOMAIN RowsIn(row, from, to))
         /\ RowsIn(row, from, to) \in [DOMAIN RowsIn(row, from, to) -> Nat]
         /\ DOMAIN RowsIn(row, from, to) =
               {e \in Days : from <= e /\ e <= to /\ row[e] # NoVal}
<1> DEFINE D == {e \in Days : from <= e /\ e <= to /\ row[e] # NoVal}
<1>1. DOMAIN RowsIn(row, from, to) = D
  BY DEF RowsIn
<1>2. D \in SUBSET (from .. to)
  <2>1. ASSUME NEW e \in D PROVE e \in from .. to
    <3>1. e \in Int /\ from <= e /\ e <= to
      BY LedgerAssumption
    <3> QED BY <3>1
  <2> HIDE DEF D
  <2> QED BY <2>1
<1>3. IsFiniteSet(D)
  <2> HIDE DEF D
  <2> QED BY <1>2, FS_Interval, FS_Subset
<1>4. \A e \in D : row[e] \in Nat
  BY DEF DailyRows
<1> QED
  BY <1>1, <1>3, <1>4 DEF RowsIn

\* COALESCE(SUM(value), 0) of stored rows is a natural.
LEMMA SumRowsNat ==
  ASSUME NEW row \in DailyRows, NEW from \in Int, NEW to \in Int
  PROVE  SumRows(row, from, to) \in Nat
  BY RowsInType, SumNat DEF SumRows

\* It is 0 over an empty range.
LEMMA SumRowsEmpty ==
  ASSUME NEW row \in DailyRows, NEW from \in Int, NEW to \in Int, to < from
  PROVE  SumRows(row, from, to) = 0
<1>1. DOMAIN RowsIn(row, from, to) = {}
  <2>1. Days \subseteq Int
    BY LedgerAssumption
  <2>2. \A e \in Int : ~(from <= e /\ e <= to)
    OBVIOUS
  <2> QED BY <2>1, <2>2 DEF RowsIn
<1> QED
  BY <1>1, SumEmpty DEF SumRows

\* It depends on the rows of the range alone.
LEMMA SumRowsSame ==
  ASSUME NEW row, NEW other, NEW from, NEW to,
         \A d \in Days : from <= d /\ d <= to => row[d] = other[d]
  PROVE  SumRows(row, from, to) = SumRows(other, from, to)
<1>1. RowsIn(row, from, to) = RowsIn(other, from, to)
  <2>1. {e \in Days : from <= e /\ e <= to /\ row[e] # NoVal}
           = {e \in Days : from <= e /\ e <= to /\ other[e] # NoVal}
    OBVIOUS
  <2> QED BY <2>1 DEF RowsIn
<1> QED
  BY <1>1 DEF SumRows

\* It is additive over adjacent ranges.
LEMMA SumRowsSplit ==
  ASSUME NEW row \in DailyRows, NEW from \in Int, NEW mid \in Int, NEW to \in Int,
         from <= mid + 1, mid <= to
  PROVE  SumRows(row, from, to) = SumRows(row, from, mid) + SumRows(row, mid + 1, to)
<1> DEFINE f == RowsIn(row, from, to)
           a == RowsIn(row, from, mid)
           b == RowsIn(row, mid + 1, to)
<1>0. Days \subseteq Int /\ mid + 1 \in Int
  BY LedgerAssumption
<1>1. IsFiniteSet(DOMAIN f) /\ f \in [DOMAIN f -> Nat]
  BY RowsInType
<1>2. a \in [DOMAIN a -> Nat] /\ b \in [DOMAIN b -> Nat]
  BY <1>0, RowsInType
<1>3. /\ DOMAIN f = {e \in Days : from <= e /\ e <= to /\ row[e] # NoVal}
      /\ DOMAIN a = {e \in Days : from <= e /\ e <= mid /\ row[e] # NoVal}
      /\ DOMAIN b = {e \in Days : mid + 1 <= e /\ e <= to /\ row[e] # NoVal}
  BY DEF RowsIn
<1>4. DOMAIN a \cap DOMAIN b = {} /\ DOMAIN f = DOMAIN a \cup DOMAIN b
  <2> HIDE DEF f, a, b
  <2>1. ASSUME NEW e \in Int
        PROVE  /\ ~(e <= mid /\ mid + 1 <= e)
               /\ from <= e /\ e <= to <=> (from <= e /\ e <= mid) \/ (mid + 1 <= e /\ e <= to)
    OBVIOUS
  <2>2. ASSUME NEW e \in Days
        PROVE  /\ ~(e \in DOMAIN a /\ e \in DOMAIN b)
               /\ e \in DOMAIN f <=> e \in DOMAIN a \/ e \in DOMAIN b
    <3>1. e \in Int
      BY <1>0
    <3>2. /\ e \in DOMAIN f <=> from <= e /\ e <= to /\ row[e] # NoVal
          /\ e \in DOMAIN a <=> from <= e /\ e <= mid /\ row[e] # NoVal
          /\ e \in DOMAIN b <=> mid + 1 <= e /\ e <= to /\ row[e] # NoVal
      BY <1>3
    <3> QED BY <2>1, <3>1, <3>2
  <2>3. DOMAIN f \subseteq Days /\ DOMAIN a \subseteq Days /\ DOMAIN b \subseteq Days
    BY <1>3
  <2> QED BY <2>2, <2>3
<1>5. /\ \A x \in DOMAIN a : a[x] = f[x]
      /\ \A x \in DOMAIN b : b[x] = f[x]
  <2>1. /\ \A x \in DOMAIN f : f[x] = row[x]
        /\ \A x \in DOMAIN a : a[x] = row[x]
        /\ \A x \in DOMAIN b : b[x] = row[x]
    BY DEF RowsIn
  <2> QED BY <1>4, <2>1
<1> HIDE DEF f, a, b
<1>6. f \in [DOMAIN f -> Int] /\ a \in [DOMAIN a -> Int] /\ b \in [DOMAIN b -> Int]
  BY <1>1, <1>2
<1>7. SumFunction(f) = SumFunction(a) + SumFunction(b)
  BY <1>1, <1>4, <1>5, <1>6, SumUnion
<1> QED
  BY <1>7 DEF SumRows, f, a, b

\* It grows with the rows and with the range.
LEMMA SumRowsGrows ==
  ASSUME NEW row \in DailyRows, NEW other \in DailyRows,
         NEW from \in Int, NEW to \in Int, NEW end \in Int, to <= end,
         \A d \in Days : from <= d /\ d <= to => row[d] <= other[d]
  PROVE  SumRows(row, from, to) <= SumRows(other, from, end)
<1> DEFINE f == RowsIn(row, from, to)
           g == RowsIn(other, from, end)
<1>0. Days \subseteq Int
  BY LedgerAssumption
<1>1. f \in [DOMAIN f -> Nat] /\ IsFiniteSet(DOMAIN g) /\ g \in [DOMAIN g -> Nat]
  BY RowsInType
<1>2. /\ DOMAIN f = {e \in Days : from <= e /\ e <= to /\ row[e] # NoVal}
      /\ DOMAIN g = {e \in Days : from <= e /\ e <= end /\ other[e] # NoVal}
  BY DEF RowsIn
<1>3. ASSUME NEW x \in DOMAIN f PROVE x \in DOMAIN g /\ f[x] <= g[x]
  <2>1. x \in Days /\ x \in Int /\ from <= x /\ x <= to /\ row[x] # NoVal /\ row[x] <= other[x]
    BY <1>0, <1>2
  <2>2. row[x] \in Nat /\ other[x] \in Nat \cup {NoVal}
    BY <2>1 DEF DailyRows
  <2>3. other[x] # NoVal /\ x <= end
    BY <2>1, <2>2 DEF NoVal
  <2>4. x \in DOMAIN g
    BY <1>2, <2>1, <2>3
  <2>5. f[x] = row[x] /\ g[x] = other[x]
    BY <2>4 DEF RowsIn
  <2> QED BY <2>1, <2>4, <2>5
<1> HIDE DEF f, g
<1>4. DOMAIN f \subseteq DOMAIN g /\ \A x \in DOMAIN f : f[x] <= g[x]
  BY <1>3
<1>5. SumFunction(f) <= SumFunction(g)
  BY <1>1, <1>4, SumLeq
<1> QED
  BY <1>5 DEF SumRows, f, g

-----------------------------------------------------------------------------
\* Least and greatest elements.

\* The least of a set of natural numbers.
LEMMA MinOf ==
  ASSUME NEW S \in SUBSET Nat, S # {}
  PROVE  Min(S) \in S /\ \A x \in S : Min(S) <= x
<1>1. PICK n \in S : \A y \in S : <<y, n>> \notin Below
  BY BelowWellFounded, WFMin
<1>2. ASSUME NEW y \in S PROVE n <= y
  <2>1. ~(y < n)
    BY <1>1 DEF Below
  <2> QED BY <2>1
<1> QED
  BY <1>2 DEF Min

\* The greatest of a bounded set of natural numbers.
LEMMA MaxOf ==
  ASSUME NEW S \in SUBSET Nat, S # {}, NEW b \in Nat, \A x \in S : x <= b
  PROVE  Max(S) \in S /\ \A x \in S : x <= Max(S)
<1> DEFINE T == {b - x : x \in S}
<1>1. T \in SUBSET Nat /\ T # {}
  <2>1. \A x \in S : b - x \in Nat
    OBVIOUS
  <2> QED BY <2>1
<1>2. PICK n \in T : \A y \in T : <<y, n>> \notin Below
  <2> HIDE DEF T
  <2> QED BY <1>1, BelowWellFounded, WFMin
<1>3. ASSUME NEW y \in T PROVE n <= y
  <2> HIDE DEF T
  <2>1. n \in Nat /\ y \in Nat
    BY <1>1
  <2>2. ~(y < n)
    BY <1>2, <2>1 DEF Below
  <2> QED BY <2>1, <2>2
<1>4. PICK m \in S : n = b - m
  OBVIOUS
<1>5. \A x \in S : m >= x
  BY <1>3, <1>4
<1>6. Max(S) \in S /\ \A y \in S : Max(S) >= y
  BY <1>5 DEF Max
<1> QED
  BY <1>6

-----------------------------------------------------------------------------
\* The inductive invariant: CoreInv is what the tables and the run keep even when
\* the maintenance job rewrites periods and the baseline, AggregatorInv adds what
\* holds of the baseline and the totals of a server that never runs it.

\* The day up to which the computed values may know the ledger.
Seen == IF phase = "idle" THEN today ELSE runDay

\* The first day the totals count.
Origin == YearFirst(YearOf(cutover))

MonthSum(k, m, day) ==
    SumRows(history[k], MonthFirst(m), minDay(MonthLast(m), day)) + offset.month[k][m]

YearSum(k, y, day) ==
    SumRows(history[k], YearFirst(y), minDay(YearLast(y), day)) + offset.year[k][y]

\* Nothing is frozen before the cutover's own periods, and no year before it is
\* part of the baseline.
Placed ==
    /\ cutover <= today
    /\ cutover - 2 <= frozenNet
    /\ MonthOf(cutover - 2) - 1 <= frozenMonth
    /\ YearOf(cutover - 2) - 1 <= frozenYear
    /\ YearOf(cutover) - 1 <= baselineYear /\ frozenYear <= baselineYear
    /\ YearLast(baselineYear) <= Seen
    /\ \A k \in Keys : closedDaily[k] <= today

\* Every register has closed what is frozen.
Closed ==
    \A k \in Keys :
        /\ frozenNet = cutover - 2 \/ frozenNet <= closedDaily[k]
        /\ frozenMonth = MonthOf(cutover - 2) - 1 \/ MonthLast(frozenMonth) <= closedDaily[k]
        /\ frozenYear = YearOf(cutover - 2) - 1 \/ YearLast(frozenYear) <= closedDaily[k]
        /\ baselineYear = YearOf(cutover) - 1 \/ YearLast(baselineYear) <= closedDaily[k]

\* A computed value may still depend on the row of day d.
Needed(d) ==
    \/ d > frozenNet
    \/ d >= MonthFirst(frozenMonth + 1)
    \/ d >= YearFirst(frozenYear + 1)
    \/ d >= YearFirst(baselineYear + 1)

\* Retention has not deleted such a row.
Kept == \A k \in Keys, d \in Days : Needed(d) => rows[k][d] = history[k][d]

\* What a run has read of the clock and the watermarks is behind them at most.
Running ==
    /\ write = [net |-> write.net, month |-> write.month, year |-> write.year,
                fold |-> write.fold, total |-> write.total]
    /\ phase # "idle" =>
          /\ runDay \in Days /\ cutover <= runDay /\ runDay <= today
          /\ closedThrough <= runDay
          /\ \A k \in Keys : closedThrough <= closedDaily[k]

\* What it has computed so far: the values of frozen periods are final, the
\* others are between the stored ones and those of the ledger.
NetDone ==
    phase \in {"months", "years", "totals", "write"} =>
        /\ DOMAIN write.net = NetJobs
        /\ \A d \in NetJobs :
              /\ write.net[d] \in Int
              /\ Freeze(d) => write.net[d] = SumRows(history[Export], d, d) - SumRows(history[Import], d, d)

OpenMonths == frozenMonth + 1 .. MonthOf(runDay)

MonthDone ==
    phase \in {"years", "totals", "write"} =>
        /\ DOMAIN write.month = OpenMonths
        /\ \A m \in OpenMonths, k \in Keys :
              /\ write.month[m][k] \in Nat
              /\ monthRow[k][m] <= write.month[m][k]
              /\ write.month[m][k] <= MonthSum(k, m, runDay)
              /\ Freeze(MonthLast(m)) => write.month[m][k] = MonthSum(k, m, MonthLast(m))

OpenYears == frozenYear + 1 .. YearOf(runDay)

YearDone ==
    phase \in {"totals", "write"} =>
        /\ DOMAIN write.year = OpenYears
        /\ \A y \in OpenYears, k \in Keys :
              /\ write.year[y][k] \in Nat
              /\ yearRow[k][y] <= write.year[y][k]
              /\ write.year[y][k] <= YearSum(k, y, runDay)
              /\ Freeze(YearLast(y)) => write.year[y][k] = YearSum(k, y, YearLast(y))

FoldJobs == {y \in OpenYears : Freeze(YearLast(y)) /\ y > baselineYear}

FoldDone ==
    phase \in {"totals", "write"} =>
        /\ DOMAIN write.fold = FoldJobs
        /\ \A y \in FoldJobs, k \in Keys :
              write.fold[y][k] = SumRows(history[k], YearFirst(y), YearLast(y))

TotalDone == phase = "write" => write.total \in [Keys -> Nat]

\* No stored month or year is above what the ledger holds.
Bounded ==
    \A k \in Keys :
        /\ \A m \in Months : m > frozenMonth => monthRow[k][m] <= MonthSum(k, m, Seen)
        /\ \A y \in Years : y > frozenYear => yearRow[k][y] <= YearSum(k, y, Seen)

Collected == NetDone /\ MonthDone /\ YearDone /\ FoldDone /\ TotalDone

CoreInv ==
    /\ AggregatorTypeOK /\ Placed /\ Closed /\ Kept /\ Running
    /\ Collected /\ Bounded
    /\ FrozenExact /\ NetFinal

-----------------------------------------------------------------------------
\* What the invariant says of single variables.

\* The cutover is late enough that the periods before it have keys.
LEMMA CutoverFacts ==
  ASSUME NEW b \in Boot
  PROVE  /\ b \in Days /\ b - 2 \in Days /\ b \in Nat \ {0} /\ b - 2 \in Nat \ {0}
         /\ MonthOf(b - 2) \in Nat /\ MonthOf(b - 2) >= 2
         /\ YearOf(b - 2) \in Nat /\ YearOf(b - 2) >= 2
         /\ YearOf(b) \in Nat /\ YearOf(b - 2) <= YearOf(b)
         /\ YearOf(b) - 1 \in Nat /\ YearFirst(YearOf(b)) \in Nat \ {0}
         /\ YearLast(YearOf(b) - 1) = YearFirst(YearOf(b)) - 1
         /\ YearFirst(YearOf(b)) <= b
<1>1. b \in Days /\ b - 2 \in Days /\ b - 2 > MonthsPerYear * DaysPerMonth
  BY AggregatorAssumption
<1>2. b \in Nat \ {0} /\ b - 2 \in Nat \ {0}
  BY <1>1, LedgerAssumption DEF NoDay
<1>3. DaysPerMonth \in Nat \ {0} /\ MonthsPerYear \in Nat \ {0}
  BY AggregatorAssumption
<1>4. /\ YearLast(1) = MonthsPerYear * DaysPerMonth
      /\ MonthLast(MonthsPerYear) = MonthsPerYear * DaysPerMonth
  BY <1>3 DEF YearLast, MonthLast
<1>5. MonthLast(1) <= MonthLast(MonthsPerYear)
  BY <1>3, MonthOrder
<1>6. MonthOf(b - 2) \in Nat \ {0} /\ b - 2 <= MonthLast(MonthOf(b - 2))
  BY <1>2, MonthHolds
<1>7. MonthOf(b - 2) # 1
  <2>1. MonthLast(1) \in Nat /\ MonthLast(MonthsPerYear) \in Nat
    BY <1>3, MonthOrder
  <2> QED BY <1>1, <1>2, <1>4, <1>5, <1>6, <2>1
<1>8. YearOf(b - 2) \in Nat \ {0} /\ b - 2 <= YearLast(YearOf(b - 2))
  BY <1>2, YearHolds
<1>9. YearOf(b - 2) # 1
  <2>1. YearLast(1) \in Nat
    BY YearOrder
  <2> QED BY <1>1, <1>2, <1>4, <1>8, <2>1
<1>10. YearOf(b - 2) <= YearOf(b)
  BY <1>2, YearOfOrder
<1>11. YearOf(b) \in Nat \ {0} /\ YearFirst(YearOf(b)) <= b
  BY <1>2, YearHolds
<1>12. YearOf(b) - 1 \in Nat /\ (YearOf(b) - 1) + 1 = YearOf(b)
  BY <1>11
<1>13. /\ YearFirst(YearOf(b)) = YearLast(YearOf(b) - 1) + 1
       /\ YearFirst(YearOf(b)) \in Nat \ {0} /\ YearLast(YearOf(b) - 1) \in Nat
  BY <1>11, <1>12, YearOrder
<1> QED
  BY <1>1, <1>2, <1>6, <1>7, <1>8, <1>9, <1>10, <1>11, <1>12, <1>13

\* Ranges of the variables.
LEMMA Basics ==
  ASSUME CoreInv
  PROVE  /\ Days \subseteq Nat \ {0}
         /\ today \in Days /\ today \in Nat \ {0} /\ Seen \in Days /\ Seen \in Nat \ {0} /\ Seen <= today
         /\ cutover \in Days /\ cutover \in Nat \ {0} /\ cutover - 2 \in Days
         /\ cutover - 2 \in Nat \ {0} /\ cutover <= Seen
         /\ \A k \in Keys : rows[k] \in DailyRows /\ history[k] \in DailyRows /\ closedDaily[k] \in Nat
         /\ frozenNet \in Nat \ {0} /\ frozenMonth \in Nat \ {0} /\ frozenYear \in Nat \ {0}
         /\ baselineYear \in Nat \ {0}
         /\ MonthOf(cutover - 2) \in Nat \ {0} /\ YearOf(cutover - 2) \in Nat \ {0}
         /\ Origin \in Nat \ {0} /\ YearLast(YearOf(cutover) - 1) = Origin - 1
         /\ Origin <= cutover /\ YearOf(cutover) \in Nat \ {0}
         /\ YearLast(baselineYear) \in Nat /\ YearLast(baselineYear) >= Origin - 1
         /\ closedThrough \in Nat /\ runDay \in Nat
<1>1. Days \subseteq Nat \ {0} /\ Values \subseteq Nat
  BY LedgerAssumption DEF NoDay
<1>2. cutover \in Boot /\ today \in Days /\ runDay \in Days \cup {NoDay} /\ closedThrough \in Days \cup {NoDay}
  BY DEF CoreInv, AggregatorTypeOK, LedgerTypeOK
<1>3. /\ cutover \in Days /\ cutover \in Nat \ {0} /\ cutover - 2 \in Days /\ cutover - 2 \in Nat \ {0}
      /\ MonthOf(cutover - 2) \in Nat /\ MonthOf(cutover - 2) >= 2
      /\ YearOf(cutover - 2) \in Nat /\ YearOf(cutover - 2) >= 2
      /\ YearOf(cutover) \in Nat /\ YearOf(cutover - 2) <= YearOf(cutover)
      /\ YearOf(cutover) - 1 \in Nat /\ YearFirst(YearOf(cutover)) \in Nat \ {0}
      /\ YearLast(YearOf(cutover) - 1) = YearFirst(YearOf(cutover)) - 1
      /\ YearFirst(YearOf(cutover)) <= cutover
  BY <1>2, CutoverFacts
<1>4. ASSUME NEW k \in Keys
      PROVE  rows[k] \in DailyRows /\ history[k] \in DailyRows /\ closedDaily[k] \in Nat
  <2>1. /\ rows[k] \in [Days -> Values \cup {NoVal}] /\ history[k] \in [Days -> Values \cup {NoVal}]
        /\ closedDaily[k] \in Days \cup {NoDay}
    BY DEF CoreInv, AggregatorTypeOK, LedgerTypeOK
  <2>2. Values \cup {NoVal} \subseteq Nat \cup {NoVal}
    BY <1>1
  <2>3. rows[k] \in DailyRows /\ history[k] \in DailyRows
    BY <2>1, <2>2 DEF DailyRows
  <2>4. closedDaily[k] \in Nat
    <3>1. NoDay \in Nat
      BY DEF NoDay
    <3> QED BY <1>1, <2>1, <3>1
  <2> QED BY <2>3, <2>4
<1>5. /\ cutover <= today /\ cutover - 2 <= frozenNet /\ MonthOf(cutover - 2) - 1 <= frozenMonth
      /\ YearOf(cutover - 2) - 1 <= frozenYear /\ YearOf(cutover) - 1 <= baselineYear
  BY DEF CoreInv, Placed
<1>6. frozenNet \in Days /\ frozenMonth \in Nat /\ frozenYear \in Nat /\ baselineYear \in Nat
  BY DEF CoreInv, AggregatorTypeOK
<1>7. Seen \in Days /\ cutover <= Seen /\ Seen <= today
  <2>1. CASE phase = "idle"
    BY <1>1, <1>2, <1>5, <2>1 DEF Seen
  <2>2. CASE phase # "idle"
    BY <2>2 DEF CoreInv, Running, Seen
  <2> QED BY <2>1, <2>2
<1>8. Origin \in Nat \ {0} /\ YearLast(YearOf(cutover) - 1) = Origin - 1 /\ Origin <= cutover
  BY <1>3 DEF Origin
<1>9. /\ frozenMonth # 0 /\ frozenYear # 0 /\ baselineYear # 0 /\ YearOf(cutover) # 0
  BY <1>3, <1>5, <1>6
<1>10. YearLast(baselineYear) \in Nat /\ YearLast(YearOf(cutover) - 1) <= YearLast(baselineYear)
  BY <1>3, <1>5, <1>6, YearOrder
<1>11. closedThrough \in Nat /\ runDay \in Nat
  BY <1>1, <1>2 DEF NoDay
<1>12. YearLast(baselineYear) >= Origin - 1
  BY <1>8, <1>10
<1>13. MonthOf(cutover - 2) # 0 /\ YearOf(cutover - 2) # 0
  BY <1>3
<1> QED
  BY <1>1, <1>2, <1>3, <1>4, <1>6, <1>7, <1>8, <1>9, <1>10, <1>11, <1>12, <1>13

\* Every register has closed every frozen period and every folded year.
LEMMA FrozenClosed ==
  ASSUME CoreInv, NEW k \in Keys
  PROVE  /\ \A m \in MonthOf(cutover - 2) .. frozenMonth : MonthLast(m) <= closedDaily[k]
         /\ \A y \in YearOf(cutover - 2) .. frozenYear : YearLast(y) <= closedDaily[k]
         /\ \A d \in cutover - 1 .. frozenNet : d <= closedDaily[k]
         /\ YearLast(baselineYear) = Origin - 1 \/ YearLast(baselineYear) <= closedDaily[k]
<1>1. /\ frozenNet = cutover - 2 \/ frozenNet <= closedDaily[k]
      /\ frozenMonth = MonthOf(cutover - 2) - 1 \/ MonthLast(frozenMonth) <= closedDaily[k]
      /\ frozenYear = YearOf(cutover - 2) - 1 \/ YearLast(frozenYear) <= closedDaily[k]
      /\ baselineYear = YearOf(cutover) - 1 \/ YearLast(baselineYear) <= closedDaily[k]
  BY DEF CoreInv, Closed
<1>2. /\ frozenNet \in Nat /\ frozenMonth \in Nat /\ frozenYear \in Nat /\ closedDaily[k] \in Nat
      /\ cutover \in Nat /\ MonthOf(cutover - 2) \in Nat /\ YearOf(cutover - 2) \in Nat
      /\ YearLast(YearOf(cutover) - 1) = Origin - 1
  BY Basics
<1>3. ASSUME NEW m \in MonthOf(cutover - 2) .. frozenMonth PROVE MonthLast(m) <= closedDaily[k]
  <2>1. m \in Nat /\ m <= frozenMonth /\ MonthLast(frozenMonth) <= closedDaily[k]
    BY <1>1, <1>2
  <2>2. MonthLast(m) <= MonthLast(frozenMonth) /\ MonthLast(m) \in Nat
    BY <1>2, <2>1, MonthOrder
  <2>3. MonthLast(frozenMonth) \in Nat
    BY <1>2, MonthOrder
  <2> QED BY <1>2, <2>1, <2>2, <2>3
<1>4. ASSUME NEW y \in YearOf(cutover - 2) .. frozenYear PROVE YearLast(y) <= closedDaily[k]
  <2>1. y \in Nat /\ y <= frozenYear /\ YearLast(frozenYear) <= closedDaily[k]
    BY <1>1, <1>2
  <2>2. YearLast(y) <= YearLast(frozenYear) /\ YearLast(y) \in Nat
    BY <1>2, <2>1, YearOrder
  <2>3. YearLast(frozenYear) \in Nat
    BY <1>2, YearOrder
  <2> QED BY <1>2, <2>1, <2>2, <2>3
<1>5. \A d \in cutover - 1 .. frozenNet : d <= closedDaily[k]
  BY <1>1, <1>2
<1>6. YearLast(baselineYear) = Origin - 1 \/ YearLast(baselineYear) <= closedDaily[k]
  BY <1>1, <1>2
<1> QED
  BY <1>3, <1>4, <1>5, <1>6

\* The months and years of a run have rows.
LEMMA JobsTyped ==
  ASSUME CoreInv
  PROVE  /\ phase # "idle" => OpenMonths \subseteq Months /\ OpenYears \subseteq Years
         /\ Months \subseteq Nat \ {0} /\ Years \subseteq Nat \ {0}
         /\ MonthOf(cutover - 2) .. frozenMonth \subseteq Months
         /\ YearOf(cutover - 2) .. frozenYear \subseteq Years
<1>1. /\ Days \subseteq Nat \ {0} /\ cutover - 2 \in Days /\ today \in Days /\ cutover \in Nat
      /\ cutover <= today
      /\ frozenMonth \in Nat \ {0} /\ frozenYear \in Nat \ {0}
      /\ MonthOf(cutover - 2) \in Nat \ {0} /\ YearOf(cutover - 2) \in Nat \ {0}
  BY Basics DEF CoreInv, Placed
<1>2. ASSUME NEW e \in cutover - 2 .. today PROVE e \in Days
  BY <1>1, AggregatorAssumption
<1>3. ASSUME NEW last \in Days, last <= today, cutover <= last,
             NEW m \in MonthOf(cutover - 2) .. MonthOf(last)
      PROVE  m \in Months
  <2>1. MonthOf(last) \in Nat /\ MonthFirst(MonthOf(last)) <= last
    BY <1>1, <1>3, MonthHolds
  <2>2. m \in Nat /\ MonthOf(cutover - 2) <= m /\ m <= MonthOf(last)
    BY <1>1, <2>1
  <2>3. cutover - 2 <= MonthLast(MonthOf(cutover - 2)) /\ cutover - 2 \in Nat \ {0}
    BY <1>1, MonthHolds
  <2>4. MonthLast(MonthOf(cutover - 2)) <= MonthLast(m) /\ MonthLast(MonthOf(cutover - 2)) \in Nat
    BY <1>1, <2>2, MonthOrder
  <2>5. MonthFirst(m) <= MonthFirst(MonthOf(last)) /\ MonthFirst(m) \in Int /\ MonthLast(m) \in Nat /\ MonthFirst(m) <= MonthLast(m)
    BY <2>1, <2>2, MonthOrder
  <2>6. MonthFirst(MonthOf(last)) \in Int
    BY <2>1, MonthOrder
  <2> DEFINE e == IF MonthFirst(m) > cutover - 2 THEN MonthFirst(m) ELSE cutover - 2
  <2>7. e \in cutover - 2 .. today /\ MonthFirst(m) <= e /\ e <= MonthLast(m) /\ e \in Nat \ {0}
    <3>1. last \in Nat /\ today \in Nat
      BY <1>1
    <3> QED BY <1>1, <1>3, <2>1, <2>3, <2>4, <2>5, <2>6, <3>1
  <2> HIDE DEF e
  <2>8. MonthOf(e) = m
    BY <2>2, <2>7, MonthOfIn
  <2> QED BY <1>2, <2>7, <2>8 DEF Months
<1>4. ASSUME NEW last \in Days, last <= today, cutover <= last,
             NEW y \in YearOf(cutover - 2) .. YearOf(last)
      PROVE  y \in Years
  <2>1. YearOf(last) \in Nat \ {0} /\ YearFirst(YearOf(last)) <= last
    BY <1>1, <1>4, YearHolds
  <2>2. y \in Nat \ {0} /\ YearOf(cutover - 2) <= y /\ y <= YearOf(last)
    BY <1>1, <2>1
  <2>3. cutover - 2 <= YearLast(YearOf(cutover - 2)) /\ cutover - 2 \in Nat \ {0}
    BY <1>1, YearHolds
  <2>4. YearLast(YearOf(cutover - 2)) <= YearLast(y) /\ YearLast(YearOf(cutover - 2)) \in Nat
    BY <1>1, <2>2, YearOrder
  <2>5. YearFirst(y) <= YearFirst(YearOf(last)) /\ YearFirst(y) \in Int /\ YearLast(y) \in Nat /\ YearFirst(y) <= YearLast(y)
    BY <2>1, <2>2, YearOrder
  <2>6. YearFirst(YearOf(last)) \in Int
    BY <2>1, YearOrder
  <2> DEFINE e == IF YearFirst(y) > cutover - 2 THEN YearFirst(y) ELSE cutover - 2
  <2>7. e \in cutover - 2 .. today /\ YearFirst(y) <= e /\ e <= YearLast(y) /\ e \in Nat \ {0}
    <3>1. last \in Nat /\ today \in Nat
      BY <1>1
    <3> QED BY <1>1, <1>4, <2>1, <2>3, <2>4, <2>5, <2>6, <3>1
  <2> HIDE DEF e
  <2>8. YearOf(e) = y
    BY <2>2, <2>7, YearOfIn
  <2> QED BY <1>2, <2>7, <2>8 DEF Years
<1>5. Months \subseteq Nat \ {0} /\ Years \subseteq Nat \ {0}
  BY <1>1, MonthHolds, YearHolds DEF Months, Years
<1>6. MonthOf(cutover - 2) .. frozenMonth \subseteq Months
  <2>1. SUFFICES ASSUME NEW m \in MonthOf(cutover - 2) .. frozenMonth PROVE m \in Months
    OBVIOUS
  <2>2. PICK k \in Keys : TRUE
    BY AggregatorAssumption
  <2>3. m \in Nat /\ MonthOf(cutover - 2) <= m /\ MonthLast(m) <= closedDaily[k] /\ closedDaily[k] <= today
    BY <1>1, FrozenClosed DEF CoreInv, Placed
  <2>4. MonthOf(today) \in Nat /\ today <= MonthLast(MonthOf(today))
    BY <1>1, MonthHolds
  <2>5. /\ MonthOf(today) < m => MonthLast(MonthOf(today)) < MonthFirst(m)
        /\ MonthLast(MonthOf(today)) \in Int
    BY <2>3, <2>4, MonthOrder
  <2>6. MonthFirst(m) <= MonthLast(m) /\ MonthFirst(m) \in Int /\ MonthLast(m) \in Int
    BY <2>3, MonthOrder
  <2>7. closedDaily[k] \in Nat /\ today \in Nat
    BY Basics
  <2>8. m <= MonthOf(today)
    BY <2>3, <2>4, <2>5, <2>6, <2>7
  <2>9. m \in MonthOf(cutover - 2) .. MonthOf(today)
    BY <2>3, <2>4, <2>8
  <2> QED BY <1>1, <1>3, <2>7, <2>9
<1>7. YearOf(cutover - 2) .. frozenYear \subseteq Years
  <2>1. SUFFICES ASSUME NEW y \in YearOf(cutover - 2) .. frozenYear PROVE y \in Years
    OBVIOUS
  <2>2. PICK k \in Keys : TRUE
    BY AggregatorAssumption
  <2>3. y \in Nat \ {0} /\ YearOf(cutover - 2) <= y /\ YearLast(y) <= closedDaily[k] /\ closedDaily[k] <= today
    BY <1>1, FrozenClosed DEF CoreInv, Placed
  <2>4. YearOf(today) \in Nat \ {0} /\ today <= YearLast(YearOf(today))
    BY <1>1, YearHolds
  <2>5. /\ YearOf(today) < y => YearLast(YearOf(today)) < YearFirst(y)
        /\ YearLast(YearOf(today)) \in Int
    BY <2>3, <2>4, YearOrder
  <2>6. YearFirst(y) <= YearLast(y) /\ YearFirst(y) \in Int /\ YearLast(y) \in Int
    BY <2>3, YearOrder
  <2>7. closedDaily[k] \in Nat /\ today \in Nat
    BY Basics
  <2>8. y <= YearOf(today)
    BY <2>3, <2>4, <2>5, <2>6, <2>7
  <2>9. y \in YearOf(cutover - 2) .. YearOf(today)
    BY <2>3, <2>4, <2>8
  <2> QED BY <1>1, <1>4, <2>7, <2>9
<1>8. ASSUME phase # "idle" PROVE OpenMonths \subseteq Months /\ OpenYears \subseteq Years
  <2>1. runDay \in Days /\ cutover <= runDay /\ runDay <= today
    BY <1>8 DEF CoreInv, Running
  <2>2. MonthOf(runDay) \in Nat /\ YearOf(runDay) \in Nat
    BY <1>1, <2>1, MonthHolds, YearHolds
  <2>3. MonthOf(cutover - 2) <= frozenMonth + 1 /\ YearOf(cutover - 2) <= frozenYear + 1
    BY <1>1 DEF CoreInv, Placed
  <2>4. /\ OpenMonths \subseteq MonthOf(cutover - 2) .. MonthOf(runDay)
        /\ OpenYears \subseteq YearOf(cutover - 2) .. YearOf(runDay)
    BY <1>1, <2>2, <2>3 DEF OpenMonths, OpenYears
  <2> QED BY <1>3, <1>4, <2>1, <2>4
<1> QED
  BY <1>5, <1>6, <1>7, <1>8

-----------------------------------------------------------------------------
\* The steps of the ledger.

\* The rows stored so far only grow, and those of closed days and of days long
\* before the cutover do not.
HistoryGrows ==
    /\ history' \in [Keys -> [Days -> Values \cup {NoVal}]]
    /\ \A k \in Keys, d \in Days :
          /\ history[k][d] <= history'[k][d]
          /\ d <= closedDaily[k] \/ d < cutover - 1 => history'[k][d] = history[k][d]
    /\ UNCHANGED offset

\* What a poll or midnight does to the ledger, as far as the aggregator can tell.
LedgerMoves ==
    /\ HistoryGrows
    /\ today' \in Days /\ today <= today'
    /\ rows' \in [Keys -> [Days -> Values \cup {NoVal}]]
    /\ closedDaily' \in [Keys -> Days \cup {NoDay}]
    /\ \A k \in Keys : closedDaily[k] <= closedDaily'[k] /\ closedDaily'[k] <= today'
    /\ \A k \in Keys, d \in Days : rows[k][d] = history[k][d] => rows'[k][d] = history'[k][d]
    /\ UNCHANGED <<meta, tables, run, skipped>>

\* The sums of rows grow with it, those of such days do not change.
LEMMA SumsMove ==
  ASSUME CoreInv, HistoryGrows, NEW k \in Keys, NEW from \in Int, NEW to \in Int
  PROVE  /\ SumRows(history[k], from, to) \in Nat /\ SumRows(history'[k], from, to) \in Nat
         /\ SumRows(history[k], from, to) <= SumRows(history'[k], from, to)
         /\ to <= closedDaily[k] \/ to < cutover - 1 =>
               SumRows(history'[k], from, to) = SumRows(history[k], from, to)
         /\ to < from => SumRows(history'[k], from, to) = SumRows(history[k], from, to)
<1>1. /\ history[k] \in DailyRows /\ Days \subseteq Nat \ {0} /\ closedDaily[k] \in Nat
      /\ cutover \in Nat
  BY Basics
<1>2. history'[k] \in DailyRows
  <2>1. history'[k] \in [Days -> Values \cup {NoVal}]
    BY DEF HistoryGrows
  <2>2. Values \cup {NoVal} \subseteq Nat \cup {NoVal}
    BY LedgerAssumption
  <2> QED BY <2>1, <2>2 DEF DailyRows
<1>3. SumRows(history[k], from, to) \in Nat /\ SumRows(history'[k], from, to) \in Nat
  BY <1>1, <1>2, SumRowsNat
<1>4. SumRows(history[k], from, to) <= SumRows(history'[k], from, to)
  <2>1. \A d \in Days : from <= d /\ d <= to => history[k][d] <= history'[k][d]
    BY DEF HistoryGrows
  <2>2. to <= to
    OBVIOUS
  <2> QED BY <1>1, <1>2, <2>1, <2>2, SumRowsGrows
<1>5. to <= closedDaily[k] \/ to < cutover - 1 =>
         SumRows(history'[k], from, to) = SumRows(history[k], from, to)
  <2>1. SUFFICES ASSUME to <= closedDaily[k] \/ to < cutover - 1
                 PROVE  SumRows(history'[k], from, to) = SumRows(history[k], from, to)
    OBVIOUS
  <2>2. ASSUME NEW d \in Days, from <= d, d <= to PROVE history'[k][d] = history[k][d]
    <3>1. d <= closedDaily[k] \/ d < cutover - 1
      BY <1>1, <2>1, <2>2
    <3> QED BY <3>1 DEF HistoryGrows
  <2> QED BY <2>2, SumRowsSame
<1>6. to < from => SumRows(history'[k], from, to) = SumRows(history[k], from, to)
  BY <1>1, <1>2, SumRowsEmpty
<1> QED
  BY <1>3, <1>4, <1>5, <1>6

\* The lesser of two days.
LEMMA MinDay ==
  ASSUME NEW a \in Int, NEW b \in Int
  PROVE  /\ minDay(a, b) \in Int /\ minDay(a, b) <= a /\ minDay(a, b) <= b
         /\ a <= b => minDay(a, b) = a
         /\ \A c \in Int : b <= c => minDay(a, b) <= minDay(a, c)
  BY DEF minDay

\* Sums of months and years move with the rows and with the day they end on.
LEMMA PeriodSumsMove ==
  ASSUME CoreInv, HistoryGrows, NEW k \in Keys, NEW day \in Int, NEW end \in Int, day <= end
  PROVE  /\ \A m \in Months : /\ MonthSum(k, m, day) \in Nat /\ MonthSum(k, m, end)' \in Nat
                              /\ MonthSum(k, m, day) <= MonthSum(k, m, end)'
         /\ \A y \in Years : /\ YearSum(k, y, day) \in Nat /\ YearSum(k, y, end)' \in Nat
                             /\ YearSum(k, y, day) <= YearSum(k, y, end)'
<1>1. /\ offset' = offset /\ \A m \in Months : offset.month[k][m] \in Nat
      /\ \A y \in Years : offset.year[k][y] \in Nat
  BY DEF CoreInv, AggregatorTypeOK, HistoryGrows
<1>2. history[k] \in DailyRows /\ Months \subseteq Nat /\ Years \subseteq Nat \ {0}
  BY Basics, JobsTyped
<1>3. history'[k] \in DailyRows
  <2>1. history'[k] \in [Days -> Values \cup {NoVal}]
    BY DEF HistoryGrows
  <2>2. Values \cup {NoVal} \subseteq Nat \cup {NoVal}
    BY LedgerAssumption
  <2> QED BY <2>1, <2>2 DEF DailyRows
<1>4. ASSUME NEW from \in Int, NEW last \in Int
      PROVE  /\ SumRows(history[k], from, minDay(last, day)) \in Nat
             /\ SumRows(history'[k], from, minDay(last, end)) \in Nat
             /\ SumRows(history[k], from, minDay(last, day)) <= SumRows(history'[k], from, minDay(last, end))
  <2>1. minDay(last, day) \in Int /\ minDay(last, end) \in Int /\ minDay(last, day) <= minDay(last, end)
    BY MinDay
  <2>2. \A d \in Days : history[k][d] <= history'[k][d]
    BY DEF HistoryGrows
  <2> QED BY <1>2, <1>3, <2>1, <2>2, SumRowsNat, SumRowsGrows
<1>5. ASSUME NEW m \in Months
      PROVE  /\ MonthSum(k, m, day) \in Nat /\ MonthSum(k, m, end)' \in Nat
             /\ MonthSum(k, m, day) <= MonthSum(k, m, end)'
  <2>1. MonthFirst(m) \in Int /\ MonthLast(m) \in Int
    BY <1>2, MonthOrder
  <2>2. /\ SumRows(history[k], MonthFirst(m), minDay(MonthLast(m), day)) \in Nat
        /\ SumRows(history'[k], MonthFirst(m), minDay(MonthLast(m), end)) \in Nat
        /\ SumRows(history[k], MonthFirst(m), minDay(MonthLast(m), day))
              <= SumRows(history'[k], MonthFirst(m), minDay(MonthLast(m), end))
    BY <1>4, <2>1
  <2> QED BY <1>1, <2>2 DEF MonthSum
<1>6. ASSUME NEW y \in Years
      PROVE  /\ YearSum(k, y, day) \in Nat /\ YearSum(k, y, end)' \in Nat
             /\ YearSum(k, y, day) <= YearSum(k, y, end)'
  <2>1. YearFirst(y) \in Int /\ YearLast(y) \in Int
    BY <1>2, YearOrder
  <2>2. /\ SumRows(history[k], YearFirst(y), minDay(YearLast(y), day)) \in Nat
        /\ SumRows(history'[k], YearFirst(y), minDay(YearLast(y), end)) \in Nat
        /\ SumRows(history[k], YearFirst(y), minDay(YearLast(y), day))
              <= SumRows(history'[k], YearFirst(y), minDay(YearLast(y), end))
    BY <1>4, <2>1
  <2> QED BY <1>1, <2>2 DEF YearSum
<1> QED
  BY <1>5, <1>6

\* The sum of a whole month or year every register has closed is final.
LEMMA PeriodSumsFinal ==
  ASSUME CoreInv, HistoryGrows, NEW k \in Keys
  PROVE  /\ \A m \in Nat : MonthLast(m) <= closedDaily[k] =>
               /\ MonthSum(k, m, MonthLast(m))' = MonthSum(k, m, MonthLast(m))
               /\ SumRows(history'[k], MonthFirst(m), MonthLast(m))
                    = SumRows(history[k], MonthFirst(m), MonthLast(m))
         /\ \A y \in Nat \ {0} : YearLast(y) <= closedDaily[k] =>
               /\ YearSum(k, y, YearLast(y))' = YearSum(k, y, YearLast(y))
               /\ SumRows(history'[k], YearFirst(y), YearLast(y))
                    = SumRows(history[k], YearFirst(y), YearLast(y))
<1>1. offset' = offset
  BY DEF HistoryGrows
<1>2. ASSUME NEW m \in Nat, MonthLast(m) <= closedDaily[k]
      PROVE  /\ MonthSum(k, m, MonthLast(m))' = MonthSum(k, m, MonthLast(m))
             /\ SumRows(history'[k], MonthFirst(m), MonthLast(m))
                  = SumRows(history[k], MonthFirst(m), MonthLast(m))
  <2>1. MonthFirst(m) \in Int /\ MonthLast(m) \in Int
    BY MonthOrder
  <2>2. minDay(MonthLast(m), MonthLast(m)) = MonthLast(m)
    BY DEF minDay
  <2>3. SumRows(history'[k], MonthFirst(m), MonthLast(m)) = SumRows(history[k], MonthFirst(m), MonthLast(m))
    BY <1>2, <2>1, SumsMove
  <2> QED BY <1>1, <2>2, <2>3 DEF MonthSum
<1>3. ASSUME NEW y \in Nat \ {0}, YearLast(y) <= closedDaily[k]
      PROVE  /\ YearSum(k, y, YearLast(y))' = YearSum(k, y, YearLast(y))
             /\ SumRows(history'[k], YearFirst(y), YearLast(y))
                  = SumRows(history[k], YearFirst(y), YearLast(y))
  <2>1. YearFirst(y) \in Int /\ YearLast(y) \in Int
    BY YearOrder
  <2>2. minDay(YearLast(y), YearLast(y)) = YearLast(y)
    BY DEF minDay
  <2>3. SumRows(history'[k], YearFirst(y), YearLast(y)) = SumRows(history[k], YearFirst(y), YearLast(y))
    BY <1>3, <2>1, SumsMove
  <2> QED BY <1>1, <2>2, <2>3 DEF YearSum
<1> QED
  BY <1>2, <1>3

\* What is not frozen stays so.
LEMMA LedgerMovesFreeze ==
  ASSUME CoreInv, LedgerMoves
  PROVE  /\ \A last : Freeze(last)' <=> Freeze(last)
         /\ \A last \in Int : Freeze(last) /\ phase # "idle" =>
                 \A k \in Keys : last <= closedDaily[k]
<1>1. UNCHANGED <<meta, tables, run, skipped>>
  BY DEF LedgerMoves
<1>2. \A last : Freeze(last)' <=> Freeze(last)
  BY <1>1 DEF run, Freeze
<1>3. ASSUME NEW last \in Int, Freeze(last), phase # "idle", NEW k \in Keys
      PROVE  last <= closedDaily[k]
  <2>1. closedThrough \in Nat /\ closedDaily[k] \in Nat
    BY Basics
  <2>2. last <= closedThrough /\ closedThrough <= closedDaily[k]
    BY <1>3 DEF Freeze, CoreInv, Running
  <2> QED BY <2>1, <2>2
<1> QED
  BY <1>2, <1>3

\* What retention may have deleted, it may have deleted later.
LEMMA RetentionMoves ==
  ASSUME NEW d \in Int, NEW a \in Int, NEW b \in Int, a <= b
  PROVE  d < a - Retention => d < b - Retention
<1>1. Retention \in Int
  BY AggregatorAssumption
<1> QED
  BY <1>1

\* They keep the invariant.
LEMMA LedgerMovesKeeps ==
  ASSUME CoreInv, LedgerMoves
  PROVE  CoreInv'
<1>0. /\ AggregatorTypeOK /\ Placed /\ Closed /\ Kept /\ Running /\ Bounded /\ FrozenExact /\ NetFinal
      /\ NetDone /\ MonthDone /\ YearDone /\ FoldDone /\ TotalDone
  BY DEF CoreInv, Collected
<1>a. HistoryGrows
  BY DEF LedgerMoves
<1>1. /\ frozenNet' = frozenNet /\ frozenMonth' = frozenMonth /\ frozenYear' = frozenYear
      /\ baselineYear' = baselineYear /\ baseline' = baseline /\ cutover' = cutover
      /\ offset' = offset /\ purgedBefore' = purgedBefore
      /\ netRow' = netRow /\ monthRow' = monthRow /\ yearRow' = yearRow /\ totalRow' = totalRow
      /\ phase' = phase /\ runDay' = runDay /\ closedThrough' = closedThrough /\ write' = write
      /\ skipped' = skipped
  BY DEF LedgerMoves, meta, tables, run
<1>2. /\ Days \subseteq Nat \ {0} /\ today \in Nat /\ today' \in Nat /\ today <= today'
      /\ cutover \in Nat /\ runDay \in Nat /\ Origin \in Nat \ {0}
      /\ \A k \in Keys : closedDaily[k] \in Nat
      /\ frozenNet \in Nat /\ frozenMonth \in Nat \ {0} /\ frozenYear \in Nat \ {0} /\ baselineYear \in Nat \ {0}
      /\ YearLast(baselineYear) \in Nat
  BY Basics DEF LedgerMoves
<1>3. \A k \in Keys : closedDaily'[k] \in Nat /\ closedDaily[k] <= closedDaily'[k] /\ closedDaily'[k] <= today'
  <2>1. SUFFICES ASSUME NEW k \in Keys
                 PROVE  closedDaily'[k] \in Nat /\ closedDaily[k] <= closedDaily'[k] /\ closedDaily'[k] <= today'
    OBVIOUS
  <2>2. closedDaily'[k] \in Days \cup {NoDay}
    BY DEF LedgerMoves
  <2>3. closedDaily'[k] \in Nat
    <3>1. NoDay \in Nat
      BY DEF NoDay
    <3> QED BY <1>2, <2>2, <3>1
  <2> QED BY <2>3 DEF LedgerMoves
<1>4. Seen \in Nat /\ Seen' \in Nat /\ Seen <= Seen' /\ (phase # "idle" => Seen' = Seen /\ Seen = runDay)
  BY <1>1, <1>2 DEF Seen
<1>5. Origin' = Origin
  BY <1>1 DEF Origin
<1>6. AggregatorTypeOK'
  BY <1>0, <1>1 DEF AggregatorTypeOK, LedgerTypeOK, LedgerMoves, HistoryGrows
<1>7. Placed'
  <2>1. cutover' <= today'
    BY <1>0, <1>1, <1>2 DEF Placed
  <2>2. YearLast(baselineYear') <= Seen'
    BY <1>0, <1>1, <1>2, <1>4 DEF Placed
  <2> QED BY <1>0, <1>1, <1>3, <2>1, <2>2 DEF Placed
<1>8. Closed'
  <2>1. SUFFICES ASSUME NEW k \in Keys
                 PROVE  /\ frozenNet = cutover - 2 \/ frozenNet <= closedDaily'[k]
                        /\ frozenMonth = MonthOf(cutover - 2) - 1 \/ MonthLast(frozenMonth) <= closedDaily'[k]
                        /\ frozenYear = YearOf(cutover - 2) - 1 \/ YearLast(frozenYear) <= closedDaily'[k]
                        /\ baselineYear = YearOf(cutover) - 1 \/ YearLast(baselineYear) <= closedDaily'[k]
    BY <1>1 DEF Closed
  <2>2. MonthLast(frozenMonth) \in Int /\ YearLast(frozenYear) \in Int
    <3>1. MonthLast(frozenMonth) \in Int
      BY <1>2, MonthOrder
    <3>2. YearLast(frozenYear) \in Int
      BY <1>2, YearOrder
    <3> QED BY <3>1, <3>2
  <2>3. closedDaily[k] <= closedDaily'[k] /\ closedDaily[k] \in Nat /\ closedDaily'[k] \in Nat
    BY <1>2, <1>3
  <2> QED BY <1>0, <1>2, <2>2, <2>3 DEF Closed
<1>9. Kept'
  <2>1. \A d : Needed(d)' <=> Needed(d)
    BY <1>1 DEF Needed
  <2> QED BY <1>0, <2>1 DEF Kept, LedgerMoves
<1>10. Running'
  <2>1. ASSUME phase # "idle"
        PROVE  /\ runDay \in Days /\ cutover <= runDay /\ runDay <= today'
               /\ closedThrough <= runDay /\ \A k \in Keys : closedThrough <= closedDaily'[k]
    <3>1. /\ runDay \in Days /\ cutover <= runDay /\ runDay <= today
          /\ closedThrough <= runDay /\ \A k \in Keys : closedThrough <= closedDaily[k]
      BY <1>0, <2>1 DEF Running
    <3>2. closedThrough \in Nat
      BY Basics
    <3>3. \A k \in Keys : closedThrough <= closedDaily'[k]
      BY <1>2, <1>3, <3>1, <3>2
    <3> QED BY <1>2, <3>1, <3>3
  <2> QED BY <1>0, <1>1, <2>1 DEF Running
<1>11. NetDone'
  <2>1. SUFFICES ASSUME phase \in {"months", "years", "totals", "write"}, NEW d \in NetJobs, Freeze(d)
                 PROVE  /\ SumRows(history'[Export], d, d) = SumRows(history[Export], d, d)
                        /\ SumRows(history'[Import], d, d) = SumRows(history[Import], d, d)
    <3>1. NetJobs' = NetJobs
      BY <1>1 DEF NetJobs
    <3>2. \A d : Freeze(d)' <=> Freeze(d)
      BY LedgerMovesFreeze
    <3> QED BY <1>0, <1>1, <2>1, <3>1, <3>2 DEF NetDone
  <2>2. d \in Int /\ Export \in Keys /\ Import \in Keys
    BY <2>1, <1>2, AggregatorAssumption DEF NetJobs
  <2>3. phase # "idle"
    BY <2>1
  <2>4. d <= closedDaily[Export] /\ d <= closedDaily[Import]
    BY <2>1, <2>2, <2>3, LedgerMovesFreeze
  <2> QED BY <2>2, <2>4, <1>a, SumsMove
<1>12. MonthDone'
  <2>1. OpenMonths' = OpenMonths /\ \A d : Freeze(d)' <=> Freeze(d)
    BY <1>1, LedgerMovesFreeze DEF OpenMonths
  <2>2. SUFFICES ASSUME phase \in {"years", "totals", "write"}, NEW m \in OpenMonths, NEW k \in Keys
                 PROVE  /\ write.month[m][k] <= MonthSum(k, m, runDay)'
                        /\ Freeze(MonthLast(m)) => write.month[m][k] = MonthSum(k, m, MonthLast(m))'
    BY <1>0, <1>1, <2>1 DEF MonthDone
  <2>3. phase # "idle"
    BY <2>2
  <2>4. m \in Months /\ m \in Nat /\ MonthLast(m) \in Int
    BY <2>3, JobsTyped, MonthOrder
  <2>5. /\ write.month[m][k] \in Nat /\ write.month[m][k] <= MonthSum(k, m, runDay)
        /\ Freeze(MonthLast(m)) => write.month[m][k] = MonthSum(k, m, MonthLast(m))
    BY <1>0, <2>2 DEF MonthDone
  <2>6. /\ MonthSum(k, m, runDay) \in Nat /\ MonthSum(k, m, runDay)' \in Nat
        /\ MonthSum(k, m, runDay) <= MonthSum(k, m, runDay)'
    <3>1. runDay <= runDay /\ runDay \in Int /\ runDay' = runDay
      BY <1>1, <1>2
    <3> QED BY <2>4, <3>1, <1>a, PeriodSumsMove
  <2>7. ASSUME Freeze(MonthLast(m)) PROVE MonthSum(k, m, MonthLast(m))' = MonthSum(k, m, MonthLast(m))
    <3>1. MonthLast(m) <= closedDaily[k]
      BY <2>3, <2>4, <2>7, LedgerMovesFreeze
    <3> QED BY <2>4, <3>1, <1>a, PeriodSumsFinal
  <2> QED BY <2>5, <2>6, <2>7
<1>13. YearDone'
  <2>1. OpenYears' = OpenYears /\ \A d : Freeze(d)' <=> Freeze(d)
    BY <1>1, LedgerMovesFreeze DEF OpenYears
  <2>2. SUFFICES ASSUME phase \in {"totals", "write"}, NEW y \in OpenYears, NEW k \in Keys
                 PROVE  /\ write.year[y][k] <= YearSum(k, y, runDay)'
                        /\ Freeze(YearLast(y)) => write.year[y][k] = YearSum(k, y, YearLast(y))'
    BY <1>0, <1>1, <2>1 DEF YearDone
  <2>3. phase # "idle"
    BY <2>2
  <2>4. y \in Years /\ y \in Nat \ {0} /\ YearLast(y) \in Int
    BY <2>3, JobsTyped, YearOrder
  <2>5. /\ write.year[y][k] \in Nat /\ write.year[y][k] <= YearSum(k, y, runDay)
        /\ Freeze(YearLast(y)) => write.year[y][k] = YearSum(k, y, YearLast(y))
    BY <1>0, <2>2 DEF YearDone
  <2>6. /\ YearSum(k, y, runDay) \in Nat /\ YearSum(k, y, runDay)' \in Nat
        /\ YearSum(k, y, runDay) <= YearSum(k, y, runDay)'
    <3>1. runDay <= runDay /\ runDay \in Int /\ runDay' = runDay
      BY <1>1, <1>2
    <3> QED BY <2>4, <3>1, <1>a, PeriodSumsMove
  <2>7. ASSUME Freeze(YearLast(y)) PROVE YearSum(k, y, YearLast(y))' = YearSum(k, y, YearLast(y))
    <3>1. YearLast(y) <= closedDaily[k]
      BY <2>3, <2>4, <2>7, LedgerMovesFreeze
    <3> QED BY <2>4, <3>1, <1>a, PeriodSumsFinal
  <2> QED BY <2>5, <2>6, <2>7
<1>14. FoldDone'
  <2>1. FoldJobs' = FoldJobs /\ OpenYears' = OpenYears
    BY <1>1 DEF OpenYears, FoldJobs, Freeze
  <2>2. SUFFICES ASSUME phase \in {"totals", "write"}, NEW y \in FoldJobs, NEW k \in Keys
                 PROVE  SumRows(history'[k], YearFirst(y), YearLast(y)) = SumRows(history[k], YearFirst(y), YearLast(y))
    BY <1>0, <1>1, <2>1 DEF FoldDone
  <2>3. phase # "idle" /\ y \in OpenYears /\ Freeze(YearLast(y))
    BY <2>2 DEF FoldJobs
  <2>4. y \in Nat \ {0} /\ YearLast(y) \in Int
    BY <2>3, JobsTyped, YearOrder
  <2>5. YearLast(y) <= closedDaily[k]
    BY <2>3, <2>4, LedgerMovesFreeze
  <2> QED BY <2>4, <2>5, <1>a, PeriodSumsFinal
<1>15. TotalDone'
  BY <1>0, <1>1 DEF TotalDone
<1>16. Bounded'
  <2>1. SUFFICES ASSUME NEW k \in Keys
                 PROVE  /\ \A m \in Months : m > frozenMonth => monthRow[k][m] <= MonthSum(k, m, Seen)'
                        /\ \A y \in Years : y > frozenYear => yearRow[k][y] <= YearSum(k, y, Seen)'
    BY <1>1 DEF Bounded
  <2>2. /\ \A m \in Months : m > frozenMonth => monthRow[k][m] <= MonthSum(k, m, Seen)
        /\ \A y \in Years : y > frozenYear => yearRow[k][y] <= YearSum(k, y, Seen)
    BY <1>0 DEF Bounded
  <2>6. ASSUME NEW m \in Months, m > frozenMonth PROVE monthRow[k][m] <= MonthSum(k, m, Seen)'
    <3>1. monthRow[k][m] \in Nat \cup {NoVal} /\ monthRow[k][m] <= MonthSum(k, m, Seen)
      BY <1>0, <2>2, <2>6 DEF AggregatorTypeOK
    <3>2. /\ MonthSum(k, m, Seen) \in Nat /\ MonthSum(k, m, Seen)' \in Nat
          /\ MonthSum(k, m, Seen) <= MonthSum(k, m, Seen)'
      BY <1>4, <1>a, PeriodSumsMove
    <3> QED BY <3>1, <3>2 DEF NoVal
  <2>7. ASSUME NEW y \in Years, y > frozenYear PROVE yearRow[k][y] <= YearSum(k, y, Seen)'
    <3>1. yearRow[k][y] \in Nat \cup {NoVal} /\ yearRow[k][y] <= YearSum(k, y, Seen)
      BY <1>0, <2>2, <2>7 DEF AggregatorTypeOK
    <3>2. /\ YearSum(k, y, Seen) \in Nat /\ YearSum(k, y, Seen)' \in Nat
          /\ YearSum(k, y, Seen) <= YearSum(k, y, Seen)'
      BY <1>4, <1>a, PeriodSumsMove
    <3> QED BY <3>1, <3>2 DEF NoVal
  <2> QED BY <2>6, <2>7
<1>17. FrozenExact'
  <2>1. SUFFICES ASSUME NEW k \in Keys
                 PROVE  /\ \A m \in MonthOf(cutover - 2) .. frozenMonth :
                              IF monthRow[k][m] = NoVal THEN MonthLast(m) < today' - Retention
                              ELSE monthRow[k][m] = SumRows(history'[k], MonthFirst(m), MonthLast(m)) + offset.month[k][m]
                        /\ \A y \in YearOf(cutover - 2) .. frozenYear :
                              IF yearRow[k][y] = NoVal THEN YearLast(y) < today' - Retention
                              ELSE yearRow[k][y] = SumRows(history'[k], YearFirst(y), YearLast(y)) + offset.year[k][y]
    BY <1>1 DEF FrozenExact
  <2>2. Retention \in Nat /\ Months \subseteq Nat /\ Years \subseteq Nat \ {0}
    BY AggregatorAssumption, JobsTyped
  <2>3. ASSUME NEW m \in MonthOf(cutover - 2) .. frozenMonth
        PROVE  IF monthRow[k][m] = NoVal THEN MonthLast(m) < today' - Retention
               ELSE monthRow[k][m] = SumRows(history'[k], MonthFirst(m), MonthLast(m)) + offset.month[k][m]
    <3>1. IF monthRow[k][m] = NoVal THEN MonthLast(m) < today - Retention
          ELSE monthRow[k][m] = SumRows(history[k], MonthFirst(m), MonthLast(m)) + offset.month[k][m]
      BY <1>0 DEF FrozenExact
    <3>2. m \in Nat /\ MonthLast(m) \in Int
      BY <2>2, JobsTyped, MonthOrder
    <3>3. MonthLast(m) <= closedDaily[k]
      BY FrozenClosed
    <3>4. SumRows(history'[k], MonthFirst(m), MonthLast(m)) = SumRows(history[k], MonthFirst(m), MonthLast(m))
      BY <3>2, <3>3, <1>a, PeriodSumsFinal
    <3>5. MonthLast(m) < today - Retention => MonthLast(m) < today' - Retention
      BY <1>2, <2>2, <3>2
    <3> QED BY <3>1, <3>4, <3>5
  <2>4. ASSUME NEW y \in YearOf(cutover - 2) .. frozenYear
        PROVE  IF yearRow[k][y] = NoVal THEN YearLast(y) < today' - Retention
               ELSE yearRow[k][y] = SumRows(history'[k], YearFirst(y), YearLast(y)) + offset.year[k][y]
    <3>1. IF yearRow[k][y] = NoVal THEN YearLast(y) < today - Retention
          ELSE yearRow[k][y] = SumRows(history[k], YearFirst(y), YearLast(y)) + offset.year[k][y]
      BY <1>0 DEF FrozenExact
    <3>2. y \in Nat \ {0} /\ YearLast(y) \in Int
      BY <2>2, JobsTyped, YearOrder
    <3>3. YearLast(y) <= closedDaily[k]
      BY FrozenClosed
    <3>4. SumRows(history'[k], YearFirst(y), YearLast(y)) = SumRows(history[k], YearFirst(y), YearLast(y))
      BY <3>2, <3>3, <1>a, PeriodSumsFinal
    <3>5. YearLast(y) < today - Retention => YearLast(y) < today' - Retention
      BY <1>2, <2>2, <3>2
    <3> QED BY <3>1, <3>4, <3>5
  <2> QED BY <2>3, <2>4
<1>18. NetFinal'
  <2>1. SUFFICES ASSUME NEW d \in Int, d \in (cutover - 1 .. frozenNet) \ skipped
                 PROVE  IF d \notin DOMAIN netRow THEN d < today' - Retention
                        ELSE netRow[d] = SumRows(history'[Export], d, d) - SumRows(history'[Import], d, d)
    BY <1>1, <1>2 DEF NetFinal
  <2>2. IF d \notin DOMAIN netRow THEN d < today - Retention
        ELSE netRow[d] = SumRows(history[Export], d, d) - SumRows(history[Import], d, d)
    BY <1>0, <2>1 DEF NetFinal
  <2>3. d \in cutover - 1 .. frozenNet /\ d \in Int /\ Export \in Keys /\ Import \in Keys /\ Retention \in Nat
    BY <1>2, <2>1, AggregatorAssumption
  <2>4. d <= closedDaily[Export] /\ d <= closedDaily[Import]
    BY <2>3, FrozenClosed
  <2>5. /\ SumRows(history'[Export], d, d) = SumRows(history[Export], d, d)
        /\ SumRows(history'[Import], d, d) = SumRows(history[Import], d, d)
    BY <2>3, <2>4, <1>a, SumsMove
  <2>6. d < today - Retention => d < today' - Retention
    <3>1. d \in Int /\ today \in Int /\ today' \in Int /\ today <= today'
      BY <1>2, <2>3
    <3> QED BY <3>1, RetentionMoves, Zenon
  <2> QED BY <2>2, <2>5, <2>6
<1> QED
  BY <1>6, <1>7, <1>8, <1>9, <1>10, <1>11, <1>12, <1>13, <1>14, <1>15, <1>16, <1>17, <1>18
     DEF CoreInv, Collected

\* A poll's row.
LEMMA StoreRowMoves ==
  ASSUME CoreInv, NEW k \in Keys, NEW d \in Days, NEW v \in Values, StoreRow(k, d, v)
  PROVE  LedgerMoves
<1>1. /\ today \in Days /\ today \in Nat /\ rows \in [Keys -> [Days -> Values \cup {NoVal}]]
      /\ history \in [Keys -> [Days -> Values \cup {NoVal}]]
      /\ closedDaily \in [Keys -> Days \cup {NoDay}]
  BY Basics DEF CoreInv, AggregatorTypeOK, LedgerTypeOK
<1>2. Days \subseteq Nat \ {0} /\ \A j \in Keys : closedDaily[j] \in Nat /\ closedDaily[j] <= today
  BY Basics DEF CoreInv, Placed
<1>3. /\ d > closedDaily[k] /\ v > rows[k][d]
      /\ WritePoll(Single(k, d, NoDay), Single(k, v, NoVal), Single(k, NoDay, NoDay))
      /\ history' = [history EXCEPT ![k] = WriteDaily(@, closedDaily[k], d, v)]
      /\ UNCHANGED <<meta, tables, run, skipped>>
  BY DEF StoreRow
<1>4. today' = today
  BY <1>3 DEF WritePoll
<1>5. closedDaily' = closedDaily
  <2>1. \A j \in Keys : CloseDay(closedDaily[j], NoDay) = closedDaily[j]
    BY <1>2 DEF CloseDay, maxDay, NoDay
  <2>2. \A j \in Keys : Single(k, NoDay, NoDay)[j] = NoDay
    BY DEF Single
  <2>3. closedDaily' = [j \in Keys |-> closedDaily[j]]
    BY <1>3, <2>1, <2>2 DEF WritePoll
  <2> QED BY <1>1, <2>3
<1>6. rows' = [rows EXCEPT ![k] = [@ EXCEPT ![d] = v]]
  <2>1. \A j \in Keys : ~(NoDay > closedDaily[j])
    BY <1>2 DEF NoDay
  <2>2. ASSUME NEW j \in Keys
        PROVE  WriteDaily(rows[j], closedDaily[j], Single(k, d, NoDay)[j], Single(k, v, NoVal)[j])
                 = IF j = k THEN [rows[k] EXCEPT ![d] = v] ELSE rows[j]
    BY <1>3, <2>1 DEF Single, WriteDaily
  <2>3. rows' = [j \in Keys |-> IF j = k THEN [rows[k] EXCEPT ![d] = v] ELSE rows[j]]
    BY <1>3, <2>2 DEF WritePoll
  <2> QED BY <1>1, <2>3
<1>7. rows' \in [Keys -> [Days -> Values \cup {NoVal}]]
  BY <1>1, <1>6
<1>8. /\ history' \in [Keys -> [Days -> Values \cup {NoVal}]]
      /\ \A j \in Keys, e \in Days :
            history'[j][e] = IF j = k /\ e = d /\ v > history[k][d] THEN v ELSE history[j][e]
  BY <1>1, <1>3 DEF WriteDaily
<1>9. ASSUME NEW j \in Keys, NEW e \in Days
      PROVE  /\ history[j][e] <= history'[j][e]
             /\ e <= closedDaily[j] \/ e < cutover - 1 => history'[j][e] = history[j][e]
             /\ rows[j][e] = history[j][e] => rows'[j][e] = history'[j][e]
  <2>1. history[j][e] \in Int /\ v \in Int /\ rows[j][e] \in Int /\ e \in Int /\ closedDaily[j] \in Int
    <3>1. Values \cup {NoVal} \subseteq Int
      BY LedgerAssumption DEF NoVal
    <3> QED BY <1>1, <1>2, <3>1
  <2>2. rows'[j][e] = IF j = k /\ e = d THEN v ELSE rows[j][e]
    BY <1>1, <1>6
  <2>3. cutover - 1 <= d /\ cutover \in Nat /\ d \in Nat
    <3>1. Single(k, d, NoDay)[k] = d /\ d # NoDay
      BY LedgerAssumption DEF Single
    <3> QED BY <1>2, <1>3, <3>1, Basics DEF WritePoll
  <2> QED BY <1>3, <1>8, <2>1, <2>2, <2>3
<1>10. offset' = offset
  BY <1>3 DEF meta
<1>11. HistoryGrows
  BY <1>8, <1>9, <1>10 DEF HistoryGrows
<1>12. \A j \in Keys : closedDaily[j] <= closedDaily'[j] /\ closedDaily'[j] <= today'
  BY <1>2, <1>4, <1>5
<1>13. today <= today'
  BY <1>1, <1>4
<1>14. \A j \in Keys, e \in Days : rows[j][e] = history[j][e] => rows'[j][e] = history'[j][e]
  BY <1>9
<1> QED
  BY <1>1, <1>3, <1>4, <1>5, <1>7, <1>11, <1>12, <1>13, <1>14 DEF LedgerMoves

\* A poll's close.
LEMMA StoreCloseMoves ==
  ASSUME CoreInv, NEW k \in Keys, NEW d \in Days, StoreClose(k, d)
  PROVE  LedgerMoves
<1>1. /\ today \in Days /\ today \in Nat /\ rows \in [Keys -> [Days -> Values \cup {NoVal}]]
      /\ history \in [Keys -> [Days -> Values \cup {NoVal}]]
      /\ closedDaily \in [Keys -> Days \cup {NoDay}]
  BY Basics DEF CoreInv, AggregatorTypeOK, LedgerTypeOK
<1>2. Days \subseteq Nat \ {0} /\ \A j \in Keys : closedDaily[j] \in Nat /\ closedDaily[j] <= today
  BY Basics DEF CoreInv, Placed
<1>3. /\ d > closedDaily[k]
      /\ WritePoll(Single(k, NoDay, NoDay), Single(k, NoVal, NoVal), Single(k, d, NoDay))
      /\ UNCHANGED <<meta, tables, run, skipped>> /\ history' = history
  BY DEF StoreClose, past
<1>4. today' = today
  BY <1>3 DEF WritePoll
<1>5. rows' = rows
  <2>1. \A j \in Keys : ~(NoDay > closedDaily[j])
    BY <1>2 DEF NoDay
  <2>2. \A j \in Keys : Single(k, NoDay, NoDay)[j] = NoDay
    BY DEF Single
  <2>3. rows' = [j \in Keys |-> rows[j]]
    BY <1>3, <2>1, <2>2 DEF WritePoll, WriteDaily
  <2> QED BY <1>1, <2>3
<1>6. d <= today
  <2>1. Single(k, d, NoDay)[k] = d
    BY DEF Single
  <2> QED BY <1>3, <2>1 DEF WritePoll
<1>7. closedDaily' = [closedDaily EXCEPT ![k] = d]
  <2>1. ASSUME NEW j \in Keys
        PROVE  CloseDay(closedDaily[j], Single(k, d, NoDay)[j]) = IF j = k THEN d ELSE closedDaily[j]
    <3>1. closedDaily[j] \in Nat /\ d \in Nat
      BY <1>2
    <3>2. CASE j = k
      <4>1. Single(k, d, NoDay)[j] = d
        BY <3>2 DEF Single
      <4> QED BY <1>3, <3>1, <3>2, <4>1 DEF CloseDay, maxDay
    <3>3. CASE j # k
      <4>1. Single(k, d, NoDay)[j] = 0
        BY <3>3 DEF Single, NoDay
      <4> QED BY <3>1, <3>3, <4>1 DEF CloseDay, maxDay
    <3> QED BY <3>2, <3>3
  <2>2. closedDaily' = [j \in Keys |-> IF j = k THEN d ELSE closedDaily[j]]
    BY <1>3, <2>1 DEF WritePoll
  <2> QED BY <1>1, <2>2
<1>8. closedDaily' \in [Keys -> Days \cup {NoDay}]
  BY <1>1, <1>7
<1>9. ASSUME NEW j \in Keys PROVE closedDaily[j] <= closedDaily'[j] /\ closedDaily'[j] <= today
  BY <1>1, <1>2, <1>3, <1>6, <1>7
<1>10. HistoryGrows
  <2>1. offset' = offset
    BY <1>3 DEF meta
  <2>2. \A j \in Keys, e \in Days : history[j][e] \in Int
    <3>1. Values \cup {NoVal} \subseteq Int
      BY LedgerAssumption DEF NoVal
    <3> QED BY <1>1, <3>1
  <2>3. \A j \in Keys, e \in Days : history[j][e] <= history[j][e]
    BY <2>2
  <2> QED BY <1>1, <1>3, <2>1, <2>3 DEF HistoryGrows
<1> QED
  BY <1>1, <1>3, <1>4, <1>5, <1>8, <1>9, <1>10 DEF LedgerMoves

\* Midnight.
LEMMA MidnightMoves ==
  ASSUME CoreInv, Midnight
  PROVE  LedgerMoves
<1>1. /\ today \in Days /\ rows \in [Keys -> [Days -> Values \cup {NoVal}]]
      /\ history \in [Keys -> [Days -> Values \cup {NoVal}]]
      /\ closedDaily \in [Keys -> Days \cup {NoDay}]
  BY DEF CoreInv, AggregatorTypeOK, LedgerTypeOK
<1>2. Days \subseteq Nat \ {0} /\ \A j \in Keys : closedDaily[j] \in Nat /\ closedDaily[j] <= today
  BY Basics DEF CoreInv, Placed
<1>3. /\ today' \in Days /\ today' > today /\ rows' = rows /\ closedDaily' = closedDaily
      /\ UNCHANGED <<meta, tables, run, skipped>> /\ history' = history
  BY DEF Midnight, DayPasses, past
<1>4. today \in Nat /\ today' \in Nat /\ today <= today'
  BY <1>1, <1>2, <1>3
<1>5. \A j \in Keys : closedDaily[j] <= closedDaily'[j] /\ closedDaily'[j] <= today'
  BY <1>2, <1>3, <1>4
<1>6. HistoryGrows
  <2>1. offset' = offset
    BY <1>3 DEF meta
  <2>2. \A j \in Keys, e \in Days : history[j][e] \in Int
    <3>1. Values \cup {NoVal} \subseteq Int
      BY LedgerAssumption DEF NoVal
    <3> QED BY <1>1, <3>1
  <2>3. \A j \in Keys, e \in Days : history[j][e] <= history[j][e]
    BY <2>2
  <2> QED BY <1>1, <1>3, <2>1, <2>3 DEF HistoryGrows
<1> QED
  BY <1>1, <1>3, <1>4, <1>5, <1>6 DEF LedgerMoves

-----------------------------------------------------------------------------
\* The steps of a run that store nothing.

\* A step that leaves the ledger alone.
LEMMA HistoryStays ==
  ASSUME CoreInv, UNCHANGED <<history, offset>>
  PROVE  HistoryGrows
<1>1. history \in [Keys -> [Days -> Values \cup {NoVal}]]
  BY DEF CoreInv, AggregatorTypeOK
<1>2. \A j \in Keys, e \in Days : history[j][e] \in Int
  <2>1. Values \cup {NoVal} \subseteq Int
    BY LedgerAssumption DEF NoVal
  <2> QED BY <1>1, <2>1
<1>3. \A j \in Keys, e \in Days : history[j][e] <= history[j][e]
  BY <1>2
<1> QED
  BY <1>1, <1>3 DEF HistoryGrows

\* What is stored stays as it is.
StoreStays == UNCHANGED <<ledger, meta, tables, past>>

\* What a step of a run keeps that only reads and computes, or gives up.
LEMMA StoreStaysKeeps ==
  ASSUME CoreInv, StoreStays,
         phase' \in {"idle", "net", "months", "years", "totals", "write"},
         runDay' \in Days \cup {NoDay}, closedThrough' \in Days \cup {NoDay},
         Seen' \in Nat, Seen <= Seen'
  PROVE  AggregatorTypeOK' /\ Placed' /\ Closed' /\ Kept' /\ Bounded' /\ FrozenExact' /\ NetFinal'
<1>0. AggregatorTypeOK /\ Placed /\ Closed /\ Kept /\ Bounded /\ FrozenExact /\ NetFinal
  BY DEF CoreInv
<1>1. /\ today' = today /\ rows' = rows /\ closedDaily' = closedDaily
      /\ frozenNet' = frozenNet /\ frozenMonth' = frozenMonth /\ frozenYear' = frozenYear
      /\ baselineYear' = baselineYear /\ baseline' = baseline /\ cutover' = cutover
      /\ offset' = offset /\ purgedBefore' = purgedBefore
      /\ netRow' = netRow /\ monthRow' = monthRow /\ yearRow' = yearRow /\ totalRow' = totalRow
      /\ history' = history /\ skipped' = skipped
  BY DEF StoreStays, ledger, meta, tables, past
<1>2. HistoryGrows
  BY <1>1, HistoryStays
<1>3. Seen \in Nat /\ Origin \in Nat \ {0} /\ YearLast(baselineYear) \in Nat
  BY Basics
<1>4. Origin' = Origin
  BY <1>1 DEF Origin
<1>5. AggregatorTypeOK'
  BY <1>0, <1>1 DEF AggregatorTypeOK, LedgerTypeOK
<1>6. Placed'
  <2>1. YearLast(baselineYear) <= Seen'
    BY <1>0, <1>3 DEF Placed
  <2> QED BY <1>0, <1>1, <2>1 DEF Placed
<1>7. Closed'
  BY <1>0, <1>1 DEF Closed
<1>8. Kept'
  <2>1. \A d : Needed(d)' <=> Needed(d)
    BY <1>1 DEF Needed
  <2> QED BY <1>0, <1>1, <2>1 DEF Kept
<1>9. Bounded'
  <2>1. SUFFICES ASSUME NEW k \in Keys
                 PROVE  /\ \A m \in Months : m > frozenMonth => monthRow[k][m] <= MonthSum(k, m, Seen)'
                        /\ \A y \in Years : y > frozenYear => yearRow[k][y] <= YearSum(k, y, Seen)'
    BY <1>1 DEF Bounded
  <2>2. /\ \A m \in Months : m > frozenMonth => monthRow[k][m] <= MonthSum(k, m, Seen)
        /\ \A y \in Years : y > frozenYear => yearRow[k][y] <= YearSum(k, y, Seen)
    BY <1>0 DEF Bounded
  <2>4. ASSUME NEW m \in Months, m > frozenMonth PROVE monthRow[k][m] <= MonthSum(k, m, Seen)'
    <3>1. monthRow[k][m] \in Nat \cup {NoVal} /\ monthRow[k][m] <= MonthSum(k, m, Seen)
      BY <1>0, <2>2, <2>4 DEF AggregatorTypeOK
    <3>2. /\ MonthSum(k, m, Seen) \in Nat /\ MonthSum(k, m, Seen)' \in Nat
          /\ MonthSum(k, m, Seen) <= MonthSum(k, m, Seen)'
      BY <1>2, <1>3, PeriodSumsMove
    <3> QED BY <3>1, <3>2 DEF NoVal
  <2>5. ASSUME NEW y \in Years, y > frozenYear PROVE yearRow[k][y] <= YearSum(k, y, Seen)'
    <3>1. yearRow[k][y] \in Nat \cup {NoVal} /\ yearRow[k][y] <= YearSum(k, y, Seen)
      BY <1>0, <2>2, <2>5 DEF AggregatorTypeOK
    <3>2. /\ YearSum(k, y, Seen) \in Nat /\ YearSum(k, y, Seen)' \in Nat
          /\ YearSum(k, y, Seen) <= YearSum(k, y, Seen)'
      BY <1>2, <1>3, PeriodSumsMove
    <3> QED BY <3>1, <3>2 DEF NoVal
  <2> QED BY <2>4, <2>5
<1>10. FrozenExact'
  BY <1>0, <1>1 DEF FrozenExact
<1>11. NetFinal'
  BY <1>0, <1>1 DEF NetFinal
<1> QED
  BY <1>5, <1>6, <1>7, <1>8, <1>9, <1>10, <1>11

\* run: the clock and the watermarks are read.
LEMMA BeginRunKeeps ==
  ASSUME CoreInv, BeginRun
  PROVE  CoreInv'
<1>1. /\ phase = "idle" /\ phase' = "net" /\ runDay' = today /\ closedThrough' = ClosedThrough
      /\ write' = write /\ StoreStays
  BY DEF BeginRun, StoreStays
<1>2. /\ today \in Days /\ today \in Nat /\ cutover <= today /\ today' = today
      /\ cutover' = cutover /\ closedDaily' = closedDaily
      /\ \A k \in Keys : closedDaily[k] \in Days \cup {NoDay} /\ closedDaily[k] \in Nat /\ closedDaily[k] <= today
  BY <1>1, Basics DEF CoreInv, AggregatorTypeOK, LedgerTypeOK, Placed, StoreStays, ledger, meta
<1>3. /\ ClosedThrough \in Days \cup {NoDay} /\ ClosedThrough \in Nat /\ ClosedThrough <= today
      /\ \A k \in Keys : ClosedThrough <= closedDaily[k]
  <2> DEFINE S == {closedDaily[k] : k \in Keys}
  <2>1. S \in SUBSET Nat /\ S # {}
    BY <1>2, AggregatorAssumption
  <2>2. ClosedThrough \in S /\ \A x \in S : ClosedThrough <= x
    <3> HIDE DEF S
    <3>1. Min(S) \in S /\ \A x \in S : Min(S) <= x
      BY <2>1, MinOf
    <3> QED BY <3>1 DEF ClosedThrough, S
  <2> QED BY <1>2, <2>2
<1>4. Seen' = Seen /\ Seen \in Nat /\ Seen <= Seen'
  BY <1>1, <1>2 DEF Seen
<1>5. AggregatorTypeOK' /\ Placed' /\ Closed' /\ Kept' /\ Bounded' /\ FrozenExact' /\ NetFinal'
  <2>1. /\ phase' \in {"idle", "net", "months", "years", "totals", "write"}
        /\ runDay' \in Days \cup {NoDay} /\ closedThrough' \in Days \cup {NoDay}
        /\ Seen' \in Nat
    BY <1>1, <1>2, <1>3, <1>4
  <2> QED BY <1>1, <1>4, <2>1, StoreStaysKeeps
<1>6. Running'
  <2>1. write = [net |-> write.net, month |-> write.month, year |-> write.year,
                 fold |-> write.fold, total |-> write.total]
    BY DEF CoreInv, Running
  <2>2. today <= today
    BY <1>2
  <2> QED BY <1>1, <1>2, <1>3, <2>1, <2>2 DEF Running
<1>7. Collected'
  BY <1>1 DEF Collected, NetDone, MonthDone, YearDone, FoldDone, TotalDone
<1> QED
  BY <1>5, <1>6, <1>7 DEF CoreInv

\* A run that fails leaves nothing.
LEMMA RunFailsKeeps ==
  ASSUME CoreInv, RunFails
  PROVE  CoreInv'
<1>1. /\ phase' = "idle" /\ runDay' = NoDay /\ closedThrough' = NoDay /\ write' = NoWrite /\ StoreStays
  BY DEF RunFails, StoreStays
<1>2. Seen' \in Nat /\ Seen <= Seen'
  <2>1. Seen \in Nat /\ today \in Nat /\ Seen <= today /\ Seen' = today
    BY <1>1, Basics DEF Seen, StoreStays, ledger
  <2> QED BY <2>1
<1>3. AggregatorTypeOK' /\ Placed' /\ Closed' /\ Kept' /\ Bounded' /\ FrozenExact' /\ NetFinal'
  <2>1. /\ phase' \in {"idle", "net", "months", "years", "totals", "write"}
        /\ runDay' \in Days \cup {NoDay} /\ closedThrough' \in Days \cup {NoDay}
    BY <1>1
  <2> QED BY <1>1, <1>2, <2>1, StoreStaysKeeps
<1>4. Running'
  BY <1>1 DEF Running, NoWrite
<1>5. Collected'
  BY <1>1 DEF Collected, NetDone, MonthDone, YearDone, FoldDone, TotalDone
<1> QED
  BY <1>3, <1>4, <1>5 DEF CoreInv

\* A step that reads the rows of one level and computes its values.
RunReads ==
    /\ phase # "idle"
    /\ phase' \in {"net", "months", "years", "totals", "write"}
    /\ UNCHANGED <<runDay, closedThrough>>
    /\ StoreStays

\* It keeps what is stored, and the rows it reads are those stored so far.
LEMMA RunReadsKeeps ==
  ASSUME CoreInv, RunReads
  PROVE  /\ AggregatorTypeOK' /\ Placed' /\ Closed' /\ Kept' /\ Bounded' /\ FrozenExact' /\ NetFinal'
         /\ write' = [net |-> write'.net, month |-> write'.month, year |-> write'.year,
                      fold |-> write'.fold, total |-> write'.total] => Running'
         /\ history' = history /\ offset' = offset /\ monthRow' = monthRow /\ yearRow' = yearRow
         /\ totalRow' = totalRow /\ Origin' = Origin /\ runDay' = runDay
         /\ NetJobs' = NetJobs /\ OpenMonths' = OpenMonths /\ OpenYears' = OpenYears /\ FoldJobs' = FoldJobs
         /\ \A last : Freeze(last)' <=> Freeze(last)
         /\ runDay \in Days /\ runDay \in Nat \ {0} /\ Seen = runDay /\ cutover <= runDay
         /\ closedThrough \in Nat /\ closedThrough <= runDay
         /\ \A k \in Keys : closedThrough <= closedDaily[k]
<1>1. /\ runDay \in Days /\ runDay \in Nat \ {0} /\ Seen = runDay /\ cutover <= runDay /\ runDay <= today
      /\ closedThrough \in Nat /\ closedThrough \in Days \cup {NoDay} /\ closedThrough <= runDay
      /\ \A k \in Keys : closedThrough <= closedDaily[k]
  BY Basics DEF CoreInv, AggregatorTypeOK, Running, RunReads, Seen
<1>2. /\ phase' # "idle" /\ runDay' = runDay /\ closedThrough' = closedThrough
      /\ today' = today /\ rows' = rows /\ closedDaily' = closedDaily
      /\ frozenNet' = frozenNet /\ frozenMonth' = frozenMonth /\ frozenYear' = frozenYear
      /\ baselineYear' = baselineYear /\ cutover' = cutover /\ offset' = offset
      /\ monthRow' = monthRow /\ yearRow' = yearRow /\ totalRow' = totalRow /\ history' = history
  BY DEF RunReads, StoreStays, ledger, meta, tables, past
<1>3. Seen' = Seen /\ Seen' \in Nat /\ Seen <= Seen'
  BY <1>1, <1>2 DEF Seen
<1>4. AggregatorTypeOK' /\ Placed' /\ Closed' /\ Kept' /\ Bounded' /\ FrozenExact' /\ NetFinal'
  <2>1. /\ phase' \in {"idle", "net", "months", "years", "totals", "write"} /\ StoreStays
        /\ runDay' \in Days \cup {NoDay} /\ closedThrough' \in Days \cup {NoDay}
    BY <1>1, <1>2 DEF RunReads
  <2> QED BY <1>3, <2>1, StoreStaysKeeps
<1>5. write' = [net |-> write'.net, month |-> write'.month, year |-> write'.year,
                fold |-> write'.fold, total |-> write'.total] => Running'
  BY <1>1, <1>2 DEF Running
<1>6. /\ NetJobs' = NetJobs /\ OpenMonths' = OpenMonths /\ OpenYears' = OpenYears /\ FoldJobs' = FoldJobs
      /\ \A last : Freeze(last)' <=> Freeze(last)
  BY <1>2 DEF NetJobs, OpenMonths, OpenYears, FoldJobs, Freeze
<1>7. Origin' = Origin
  BY <1>2 DEF Origin
<1> QED
  BY <1>1, <1>2, <1>4, <1>5, <1>6, <1>7

\* The sum of rows nothing is deleted of is the sum of all that were stored.
LEMMA SumKept ==
  ASSUME CoreInv, NEW k \in Keys, NEW from \in Int, NEW to, Needed(from)
  PROVE  sumDaily(k, from, to) = SumRows(history[k], from, to)
<1>1. /\ Days \subseteq Nat \ {0} /\ frozenNet \in Nat /\ frozenMonth \in Nat /\ frozenYear \in Nat
      /\ baselineYear \in Nat
  BY Basics
<1>2. /\ MonthFirst(frozenMonth + 1) \in Int /\ YearFirst(frozenYear + 1) \in Int
      /\ YearFirst(baselineYear + 1) \in Int
  <2>1. MonthFirst(frozenMonth + 1) \in Int
    BY <1>1, MonthOrder
  <2>2. YearFirst(frozenYear + 1) \in Int /\ YearFirst(baselineYear + 1) \in Int
    BY <1>1, YearOrder
  <2> QED BY <2>1, <2>2
<1>3. ASSUME NEW d \in Days, from <= d PROVE rows[k][d] = history[k][d]
  <2>1. d \in Int
    BY <1>1
  <2>2. Needed(d)
    BY <1>1, <1>2, <1>3, <2>1 DEF Needed
  <2> QED BY <2>2 DEF CoreInv, Kept
<1>4. SumRows(rows[k], from, to) = SumRows(history[k], from, to)
  BY <1>3, SumRowsSame
<1> QED
  BY <1>4 DEF sumDaily

\* netDays: the net of days no row has been deleted of.
LEMMA NetDaysKeeps ==
  ASSUME CoreInv, netDays
  PROVE  CoreInv'
<1> DEFINE net == [d \in NetJobs |-> sumDaily(Export, d, d) - sumDaily(Import, d, d)]
<1>1. phase = "net" /\ phase' = "months" /\ write' = [write EXCEPT !.net = net] /\ RunReads
  BY DEF netDays, RunReads, StoreStays
<1> HIDE DEF net
<1>2. /\ AggregatorTypeOK' /\ Placed' /\ Closed' /\ Kept' /\ Bounded' /\ FrozenExact' /\ NetFinal'
      /\ write' = [net |-> write'.net, month |-> write'.month, year |-> write'.year,
                   fold |-> write'.fold, total |-> write'.total] => Running'
      /\ history' = history /\ NetJobs' = NetJobs /\ \A last : Freeze(last)' <=> Freeze(last)
  BY <1>1, RunReadsKeeps
<1>3. write' = [net |-> net, month |-> write.month, year |-> write.year,
                fold |-> write.fold, total |-> write.total]
  <2>1. write = [net |-> write.net, month |-> write.month, year |-> write.year,
                 fold |-> write.fold, total |-> write.total]
    BY DEF CoreInv, Running
  <2> QED BY <1>1, <2>1
<1>4. ASSUME NEW d \in NetJobs
      PROVE  /\ net[d] = SumRows(history[Export], d, d) - SumRows(history[Import], d, d)
             /\ net[d] \in Int
  <2>1. d \in Int /\ Needed(d)
    <3>1. frozenNet \in Nat /\ runDay \in Nat /\ MaxNetDays \in Nat
      BY Basics, AggregatorAssumption
    <3>2. d \in Int /\ d > frozenNet
      BY <3>1 DEF NetJobs
    <3> QED BY <3>2 DEF Needed
  <2>2. Export \in Keys /\ Import \in Keys
    BY AggregatorAssumption
  <2>3. /\ sumDaily(Export, d, d) = SumRows(history[Export], d, d)
        /\ sumDaily(Import, d, d) = SumRows(history[Import], d, d)
    BY <2>1, <2>2, SumKept
  <2>4. history[Export] \in DailyRows /\ history[Import] \in DailyRows
    BY <2>2, Basics
  <2>5. SumRows(history[Export], d, d) \in Nat /\ SumRows(history[Import], d, d) \in Nat
    BY <2>1, <2>4, SumRowsNat
  <2> QED BY <2>3, <2>5 DEF net
<1>5. NetDone'
  <2>1. write'.net = net /\ DOMAIN net = NetJobs
    BY <1>3 DEF net
  <2> QED BY <1>2, <1>4, <2>1 DEF NetDone
<1>6. Collected'
  BY <1>1, <1>5 DEF Collected, MonthDone, YearDone, FoldDone, TotalDone
<1>7. Running'
  BY <1>2, <1>3
<1> QED
  BY <1>2, <1>6, <1>7 DEF CoreInv

\* The jobs of a run: every open period, the current one and those it folds.
LEMMA Jobs ==
  ASSUME CoreInv, phase # "idle"
  PROVE  /\ Between(frozenMonth, MonthOf(runDay)) = OpenMonths
         /\ Between(frozenYear, YearOf(runDay)) = OpenYears
         /\ \A m \in OpenMonths : /\ m \in Months /\ m \in Nat \ {0} /\ m > frozenMonth
                                 /\ MonthFirst(m) \in Int /\ MonthLast(m) \in Int /\ Needed(MonthFirst(m))
         /\ \A y \in OpenYears : /\ y \in Years /\ y \in Nat \ {0} /\ y > frozenYear
                                /\ YearFirst(y) \in Int /\ YearLast(y) \in Int /\ Needed(YearFirst(y))
         /\ FoldJobs \subseteq OpenYears
<1>1. /\ frozenMonth \in Nat \ {0} /\ frozenYear \in Nat \ {0} /\ runDay \in Nat /\ runDay \in Days
      /\ Days \subseteq Nat \ {0}
  BY Basics DEF CoreInv, Running
<1>2. MonthOf(runDay) \in Nat /\ YearOf(runDay) \in Nat
  BY <1>1, MonthHolds, YearHolds
<1>3. /\ Between(frozenMonth, MonthOf(runDay)) = OpenMonths
      /\ Between(frozenYear, YearOf(runDay)) = OpenYears
  BY <1>1 DEF Between, OpenMonths, OpenYears, NoDay
<1>4. OpenMonths \subseteq Months /\ OpenYears \subseteq Years
  BY JobsTyped
<1>5. ASSUME NEW m \in OpenMonths
      PROVE  /\ m \in Nat \ {0} /\ m > frozenMonth
             /\ MonthFirst(m) \in Int /\ MonthLast(m) \in Int /\ Needed(MonthFirst(m))
  <2>1. m \in Nat \ {0} /\ m > frozenMonth /\ frozenMonth + 1 \in Nat /\ frozenMonth + 1 <= m
    BY <1>1, <1>2 DEF OpenMonths
  <2>2. MonthFirst(m) \in Int /\ MonthLast(m) \in Int
    BY <2>1, MonthOrder
  <2>3. MonthFirst(frozenMonth + 1) \in Int /\ MonthFirst(frozenMonth + 1) <= MonthFirst(m)
    BY <2>1, MonthOrder
  <2> QED BY <2>1, <2>2, <2>3 DEF Needed
<1>6. ASSUME NEW y \in OpenYears
      PROVE  /\ y \in Nat \ {0} /\ y > frozenYear
             /\ YearFirst(y) \in Int /\ YearLast(y) \in Int /\ Needed(YearFirst(y))
  <2>1. y \in Nat \ {0} /\ y > frozenYear /\ frozenYear + 1 \in Nat \ {0} /\ frozenYear + 1 <= y
    BY <1>1, <1>2 DEF OpenYears
  <2>2. YearFirst(y) \in Int /\ YearLast(y) \in Int
    BY <2>1, YearOrder
  <2>3. YearFirst(frozenYear + 1) \in Int /\ YearFirst(frozenYear + 1) <= YearFirst(y)
    BY <2>1, YearOrder
  <2> QED BY <2>1, <2>2, <2>3 DEF Needed
<1> QED
  BY <1>3, <1>4, <1>5, <1>6 DEF FoldJobs

\* What a run computes of a month or a year.
LEMMA Computed ==
  ASSUME CoreInv, phase # "idle", NEW k \in Keys
  PROVE  /\ \A m \in OpenMonths :
              /\ sumDaily(k, MonthFirst(m), minDay(MonthLast(m), runDay)) + offset.month[k][m]
                    = MonthSum(k, m, runDay)
              /\ MonthSum(k, m, runDay) \in Nat /\ monthRow[k][m] <= MonthSum(k, m, runDay)
              /\ Freeze(MonthLast(m)) => MonthSum(k, m, runDay) = MonthSum(k, m, MonthLast(m))
         /\ \A y \in OpenYears :
              /\ sumDaily(k, YearFirst(y), minDay(YearLast(y), runDay))
                    = SumRows(history[k], YearFirst(y), minDay(YearLast(y), runDay))
              /\ YearSum(k, y, runDay) \in Nat /\ yearRow[k][y] <= YearSum(k, y, runDay)
              /\ Freeze(YearLast(y)) =>
                    /\ YearSum(k, y, runDay) = YearSum(k, y, YearLast(y))
                    /\ SumRows(history[k], YearFirst(y), minDay(YearLast(y), runDay))
                          = SumRows(history[k], YearFirst(y), YearLast(y))
<1>1. /\ runDay \in Int /\ closedThrough \in Int /\ closedThrough <= runDay
      /\ Seen = runDay /\ history[k] \in DailyRows
  BY Basics DEF CoreInv, Running, Seen
<1>2. /\ \A m \in Months : m > frozenMonth => monthRow[k][m] <= MonthSum(k, m, runDay)
      /\ \A y \in Years : y > frozenYear => yearRow[k][y] <= YearSum(k, y, runDay)
  BY <1>1 DEF CoreInv, Bounded
<1>3. /\ \A m \in Months : offset.month[k][m] \in Nat
      /\ \A y \in Years : offset.year[k][y] \in Nat
  BY DEF CoreInv, AggregatorTypeOK
<1>4. ASSUME NEW last \in Int
      PROVE  minDay(last, runDay) \in Int /\ (Freeze(last) => minDay(last, runDay) = last /\ minDay(last, last) = last)
  <2>1. Freeze(last) => last <= runDay
    BY <1>1 DEF Freeze
  <2> QED BY <1>1, <2>1, MinDay
<1>5. ASSUME NEW m \in OpenMonths
      PROVE  /\ sumDaily(k, MonthFirst(m), minDay(MonthLast(m), runDay)) + offset.month[k][m]
                   = MonthSum(k, m, runDay)
             /\ MonthSum(k, m, runDay) \in Nat /\ monthRow[k][m] <= MonthSum(k, m, runDay)
             /\ Freeze(MonthLast(m)) => MonthSum(k, m, runDay) = MonthSum(k, m, MonthLast(m))
  <2>1. /\ m \in Months /\ m > frozenMonth /\ MonthFirst(m) \in Int /\ MonthLast(m) \in Int
        /\ Needed(MonthFirst(m))
    BY Jobs
  <2>2. sumDaily(k, MonthFirst(m), minDay(MonthLast(m), runDay))
          = SumRows(history[k], MonthFirst(m), minDay(MonthLast(m), runDay))
    BY <2>1, SumKept
  <2>3. minDay(MonthLast(m), runDay) \in Int
    BY <1>4, <2>1
  <2>4. SumRows(history[k], MonthFirst(m), minDay(MonthLast(m), runDay)) \in Nat
    BY <1>1, <2>1, <2>3, SumRowsNat
  <2>5. Freeze(MonthLast(m)) => MonthSum(k, m, runDay) = MonthSum(k, m, MonthLast(m))
    <3>1. Freeze(MonthLast(m)) => minDay(MonthLast(m), runDay) = minDay(MonthLast(m), MonthLast(m))
      BY <1>4, <2>1
    <3> QED BY <3>1 DEF MonthSum
  <2>6. MonthSum(k, m, runDay) \in Nat
    BY <1>3, <2>1, <2>4 DEF MonthSum
  <2> QED BY <1>2, <2>1, <2>2, <2>5, <2>6 DEF MonthSum
<1>6. ASSUME NEW y \in OpenYears
      PROVE  /\ sumDaily(k, YearFirst(y), minDay(YearLast(y), runDay))
                   = SumRows(history[k], YearFirst(y), minDay(YearLast(y), runDay))
             /\ YearSum(k, y, runDay) \in Nat /\ yearRow[k][y] <= YearSum(k, y, runDay)
             /\ Freeze(YearLast(y)) =>
                   /\ YearSum(k, y, runDay) = YearSum(k, y, YearLast(y))
                   /\ SumRows(history[k], YearFirst(y), minDay(YearLast(y), runDay))
                         = SumRows(history[k], YearFirst(y), YearLast(y))
  <2>1. /\ y \in Years /\ y > frozenYear /\ YearFirst(y) \in Int /\ YearLast(y) \in Int
        /\ Needed(YearFirst(y))
    BY Jobs
  <2>2. sumDaily(k, YearFirst(y), minDay(YearLast(y), runDay))
          = SumRows(history[k], YearFirst(y), minDay(YearLast(y), runDay))
    BY <2>1, SumKept
  <2>3. minDay(YearLast(y), runDay) \in Int
    BY <1>4, <2>1
  <2>4. SumRows(history[k], YearFirst(y), minDay(YearLast(y), runDay)) \in Nat
    BY <1>1, <2>1, <2>3, SumRowsNat
  <2>5. ASSUME Freeze(YearLast(y))
        PROVE  /\ YearSum(k, y, runDay) = YearSum(k, y, YearLast(y))
               /\ SumRows(history[k], YearFirst(y), minDay(YearLast(y), runDay))
                     = SumRows(history[k], YearFirst(y), YearLast(y))
    <3>1. minDay(YearLast(y), runDay) = YearLast(y) /\ minDay(YearLast(y), YearLast(y)) = YearLast(y)
      BY <1>4, <2>1, <2>5
    <3> QED BY <3>1 DEF YearSum
  <2>6. YearSum(k, y, runDay) \in Nat
    BY <1>3, <2>1, <2>4 DEF YearSum
  <2> QED BY <1>2, <2>1, <2>2, <2>5, <2>6
<1> QED
  BY <1>5, <1>6

\* months: a month is the sum of its rows on top of its offset.
LEMMA MonthsKeeps ==
  ASSUME CoreInv, months
  PROVE  CoreInv'
<1> DEFINE month == [m \in OpenMonths |-> [k \in Keys |->
                        sumDaily(k, MonthFirst(m), minDay(MonthLast(m), runDay)) + offset.month[k][m]]]
<1>1. phase = "months" /\ phase' = "years" /\ phase # "idle" /\ RunReads
  BY DEF months, RunReads, StoreStays
<1>2. write' = [write EXCEPT !.month = month]
  <2>1. Between(frozenMonth, MonthOf(runDay)) = OpenMonths
    BY <1>1, Jobs
  <2> QED BY <2>1 DEF months
<1> HIDE DEF month
<1>3. /\ AggregatorTypeOK' /\ Placed' /\ Closed' /\ Kept' /\ Bounded' /\ FrozenExact' /\ NetFinal'
      /\ write' = [net |-> write'.net, month |-> write'.month, year |-> write'.year,
                   fold |-> write'.fold, total |-> write'.total] => Running'
      /\ history' = history /\ offset' = offset /\ monthRow' = monthRow /\ runDay' = runDay
      /\ NetJobs' = NetJobs /\ OpenMonths' = OpenMonths /\ \A last : Freeze(last)' <=> Freeze(last)
  BY <1>1, RunReadsKeeps
<1>4. write' = [net |-> write.net, month |-> month, year |-> write.year,
                fold |-> write.fold, total |-> write.total]
  <2>1. write = [net |-> write.net, month |-> write.month, year |-> write.year,
                 fold |-> write.fold, total |-> write.total]
    BY DEF CoreInv, Running
  <2> QED BY <1>2, <2>1
<1>5. NetDone'
  <2>1. NetDone /\ write'.net = write.net
    BY <1>4 DEF CoreInv, Collected
  <2> QED BY <1>1, <1>3, <2>1 DEF NetDone
<1>6. MonthDone'
  <2>1. write'.month = month /\ DOMAIN month = OpenMonths
    BY <1>4 DEF month
  <2>2. ASSUME NEW m \in OpenMonths, NEW k \in Keys
        PROVE  /\ month[m][k] = MonthSum(k, m, runDay)
               /\ month[m][k] \in Nat /\ monthRow[k][m] <= month[m][k]
               /\ month[m][k] <= MonthSum(k, m, runDay)
               /\ Freeze(MonthLast(m)) => month[m][k] = MonthSum(k, m, MonthLast(m))
    <3>1. month[m][k] = sumDaily(k, MonthFirst(m), minDay(MonthLast(m), runDay)) + offset.month[k][m]
      BY DEF month
    <3>2. /\ sumDaily(k, MonthFirst(m), minDay(MonthLast(m), runDay)) + offset.month[k][m]
                = MonthSum(k, m, runDay)
          /\ MonthSum(k, m, runDay) \in Nat /\ monthRow[k][m] <= MonthSum(k, m, runDay)
          /\ Freeze(MonthLast(m)) => MonthSum(k, m, runDay) = MonthSum(k, m, MonthLast(m))
      BY <1>1, Computed
    <3> QED BY <3>1, <3>2
  <2>3. ASSUME NEW m \in OpenMonths, NEW k \in Keys
        PROVE  /\ MonthSum(k, m, runDay)' = MonthSum(k, m, runDay)
               /\ MonthSum(k, m, MonthLast(m))' = MonthSum(k, m, MonthLast(m))
    BY <1>3 DEF MonthSum
  <2> QED BY <1>3, <2>1, <2>2, <2>3 DEF MonthDone
<1>7. Collected'
  BY <1>1, <1>5, <1>6 DEF Collected, YearDone, FoldDone, TotalDone
<1>8. Running'
  BY <1>3, <1>4
<1> QED
  BY <1>3, <1>7, <1>8 DEF CoreInv

\* years: the same, and the years to fold are the frozen ones.
LEMMA YearsKeeps ==
  ASSUME CoreInv, years
  PROVE  CoreInv'
<1> DEFINE sum(k, y) == sumDaily(k, YearFirst(y), minDay(YearLast(y), runDay))
           year == [y \in OpenYears |-> [k \in Keys |-> sum(k, y) + offset.year[k][y]]]
           fold == [y \in FoldJobs |-> [k \in Keys |-> sum(k, y)]]
<1>1. phase = "years" /\ phase' = "totals" /\ phase # "idle" /\ RunReads
  BY DEF years, RunReads, StoreStays
<1>2. write' = [write EXCEPT !.year = year, !.fold = fold]
  <2>1. Between(frozenYear, YearOf(runDay)) = OpenYears
    BY <1>1, Jobs
  <2> QED BY <2>1 DEF years, FoldJobs
<1> HIDE DEF year, fold
<1>3. /\ AggregatorTypeOK' /\ Placed' /\ Closed' /\ Kept' /\ Bounded' /\ FrozenExact' /\ NetFinal'
      /\ write' = [net |-> write'.net, month |-> write'.month, year |-> write'.year,
                   fold |-> write'.fold, total |-> write'.total] => Running'
      /\ history' = history /\ offset' = offset /\ runDay' = runDay
      /\ monthRow' = monthRow /\ yearRow' = yearRow
      /\ NetJobs' = NetJobs /\ OpenMonths' = OpenMonths /\ OpenYears' = OpenYears /\ FoldJobs' = FoldJobs
      /\ \A last : Freeze(last)' <=> Freeze(last)
  BY <1>1, RunReadsKeeps
<1>4. write' = [net |-> write.net, month |-> write.month, year |-> year,
                fold |-> fold, total |-> write.total]
  <2>1. write = [net |-> write.net, month |-> write.month, year |-> write.year,
                 fold |-> write.fold, total |-> write.total]
    BY DEF CoreInv, Running
  <2> QED BY <1>2, <2>1
<1>5. NetDone' /\ MonthDone'
  <2>1. NetDone /\ write'.net = write.net /\ MonthDone /\ write'.month = write.month
    BY <1>4 DEF CoreInv, Collected
  <2>2. NetDone'
    BY <1>1, <1>3, <2>1 DEF NetDone
  <2>3. \A k, m : MonthSum(k, m, runDay)' = MonthSum(k, m, runDay)
    BY <1>3 DEF MonthSum
  <2>4. \A k, m : MonthSum(k, m, MonthLast(m))' = MonthSum(k, m, MonthLast(m))
    BY <1>3 DEF MonthSum
  <2>5. MonthDone'
    BY <1>1, <1>3, <2>1, <2>3, <2>4 DEF MonthDone
  <2> QED BY <2>2, <2>5
<1>6. ASSUME NEW y \in OpenYears, NEW k \in Keys
      PROVE  /\ sum(k, y) = SumRows(history[k], YearFirst(y), minDay(YearLast(y), runDay))
             /\ sum(k, y) + offset.year[k][y] = YearSum(k, y, runDay)
             /\ YearSum(k, y, runDay) \in Nat /\ yearRow[k][y] <= YearSum(k, y, runDay)
             /\ Freeze(YearLast(y)) =>
                   /\ YearSum(k, y, runDay) = YearSum(k, y, YearLast(y))
                   /\ sum(k, y) = SumRows(history[k], YearFirst(y), YearLast(y))
  <2>1. /\ sumDaily(k, YearFirst(y), minDay(YearLast(y), runDay))
              = SumRows(history[k], YearFirst(y), minDay(YearLast(y), runDay))
        /\ YearSum(k, y, runDay) \in Nat /\ yearRow[k][y] <= YearSum(k, y, runDay)
        /\ Freeze(YearLast(y)) =>
              /\ YearSum(k, y, runDay) = YearSum(k, y, YearLast(y))
              /\ SumRows(history[k], YearFirst(y), minDay(YearLast(y), runDay))
                    = SumRows(history[k], YearFirst(y), YearLast(y))
    BY <1>1, Computed
  <2> QED BY <2>1 DEF YearSum
<1> HIDE DEF sum
<1>7. YearDone'
  <2>1. write'.year = year /\ DOMAIN year = OpenYears
    BY <1>4 DEF year
  <2>2. ASSUME NEW y \in OpenYears, NEW k \in Keys
        PROVE  /\ year[y][k] \in Nat /\ yearRow[k][y] <= year[y][k]
               /\ year[y][k] <= YearSum(k, y, runDay)
               /\ Freeze(YearLast(y)) => year[y][k] = YearSum(k, y, YearLast(y))
    <3>1. year[y][k] = YearSum(k, y, runDay)
      BY <1>6 DEF year
    <3> QED BY <3>1, <1>6
  <2>3. \A k, y : YearSum(k, y, runDay)' = YearSum(k, y, runDay)
    BY <1>3 DEF YearSum
  <2>4. \A k, y : YearSum(k, y, YearLast(y))' = YearSum(k, y, YearLast(y))
    BY <1>3 DEF YearSum
  <2> QED BY <1>3, <2>1, <2>2, <2>3, <2>4 DEF YearDone
<1>8. FoldDone'
  <2>1. write'.fold = fold /\ DOMAIN fold = FoldJobs
    BY <1>4 DEF fold
  <2>2. ASSUME NEW y \in FoldJobs, NEW k \in Keys
        PROVE  fold[y][k] = SumRows(history[k], YearFirst(y), YearLast(y))
    <3>1. y \in OpenYears /\ Freeze(YearLast(y)) /\ fold[y][k] = sum(k, y)
      BY DEF fold, FoldJobs
    <3> QED BY <1>6, <3>1
  <2> QED BY <1>3, <2>1, <2>2 DEF FoldDone
<1>9. Collected'
  BY <1>1, <1>5, <1>7, <1>8 DEF Collected, TotalDone
<1>10. Running'
  BY <1>3, <1>4
<1> QED
  BY <1>3, <1>9, <1>10 DEF CoreInv

-----------------------------------------------------------------------------
\* The totals.

\* The sums of consecutive years add up to the sum of their days.
LEMMA YearsSum ==
  ASSUME NEW row \in DailyRows, NEW b \in Nat, NEW c \in Nat, b <= c
  PROVE  SumFunction([y \in b + 1 .. c |-> SumRows(row, YearFirst(y), YearLast(y))])
            = SumRows(row, YearFirst(b + 1), YearLast(c))
<1> DEFINE span(n) == [y \in b + 1 .. b + n |-> SumRows(row, YearFirst(y), YearLast(y))]
           P == {n \in Nat : SumFunction(span(n)) = SumRows(row, YearFirst(b + 1), YearLast(b + n))}
<1>1. /\ YearFirst(b + 1) \in Nat /\ YearFirst(b + 1) = YearLast(b) + 1 /\ YearLast(b) \in Nat
      /\ b + 1 \in Nat /\ b + 1 # 0
  BY YearOrder
<1>2. 0 \in P
  <2>1. DOMAIN span(0) = {}
    OBVIOUS
  <2>2. SumFunction(span(0)) = 0
    <3> HIDE DEF span
    <3> QED BY <2>1, SumEmpty
  <2>3. b + 0 = b /\ YearLast(b) < YearFirst(b + 1)
    BY <1>1
  <2>4. SumRows(row, YearFirst(b + 1), YearLast(b + 0)) = 0
    BY <1>1, <2>3, SumRowsEmpty
  <2> QED BY <2>2, <2>4
<1>3. ASSUME NEW n \in P PROVE n + 1 \in P
  <2> DEFINE z == b + n + 1
             one == [y \in {z} |-> SumRows(row, YearFirst(y), YearLast(y))]
  <2>1. /\ n \in Nat /\ n + 1 \in Nat /\ b + n \in Nat /\ b <= b + n /\ z \in Nat /\ z # 0
        /\ b + (n + 1) = z /\ z = (b + n) + 1 /\ b + n <= z
    OBVIOUS
  <2>2. /\ YearFirst(z) = YearLast(b + n) + 1 /\ YearLast(b + n) \in Nat /\ YearFirst(z) \in Nat
        /\ YearLast(z) \in Nat /\ YearLast(b) <= YearLast(b + n) /\ YearLast(b + n) <= YearLast(z)
    <3>1. YearFirst((b + n) + 1) = YearLast(b + n) + 1 /\ YearLast(b + n) \in Nat /\ YearLast(z) \in Nat
      BY <2>1, YearOrder
    <3>2. YearLast(b) <= YearLast(b + n)
      BY <2>1, YearOrder
    <3>3. YearLast(b + n) <= YearLast(z)
      BY <2>1, YearOrder
    <3> QED BY <2>1, <3>1, <3>2, <3>3
  <2>3. ASSUME NEW y \in b + 1 .. z
        PROVE  SumRows(row, YearFirst(y), YearLast(y)) \in Int
    <3> HIDE DEF span, one, P
    <3>1. y \in Nat /\ y # 0
      BY <2>1
    <3>2. YearFirst(y) \in Int /\ YearLast(y) \in Int
      BY <3>1, YearOrder
    <3> QED BY <3>2, SumRowsNat
  <2>4. /\ DOMAIN span(n + 1) = b + 1 .. z /\ DOMAIN span(n) = b + 1 .. b + n /\ DOMAIN one = {z}
        /\ z \in b + 1 .. z /\ b + 1 .. b + n \subseteq b + 1 .. z
        /\ DOMAIN span(n) \cap DOMAIN one = {}
        /\ DOMAIN span(n + 1) = DOMAIN span(n) \cup DOMAIN one
    BY <2>1
  <2>5. /\ span(n + 1) \in [DOMAIN span(n + 1) -> Int]
        /\ span(n) \in [DOMAIN span(n) -> Int] /\ one \in [DOMAIN one -> Int]
        /\ \A y \in DOMAIN span(n) : span(n)[y] = span(n + 1)[y]
        /\ \A y \in DOMAIN one : one[y] = span(n + 1)[y]
        /\ one[z] = SumRows(row, YearFirst(z), YearLast(z))
    BY <2>1, <2>3, <2>4
  <2>6. IsFiniteSet(b + 1 .. z)
    BY <2>1, FS_Interval
  <2>7. SumFunction(span(n)) = SumRows(row, YearFirst(b + 1), YearLast(b + n))
    OBVIOUS
  <2>8. SumFunction(span(n + 1)) = SumFunction(span(n)) + SumRows(row, YearFirst(z), YearLast(z))
    <3> HIDE DEF span, one
    <3>1. SumFunction(span(n + 1)) = SumFunction(span(n)) + SumFunction(one)
      <4>1. IsFiniteSet(DOMAIN span(n + 1))
        BY <2>4, <2>6
      <4> DEFINE f == span(n + 1)
                 g == span(n)
      <4>2. /\ IsFiniteSet(DOMAIN f) /\ f \in [DOMAIN f -> Int]
            /\ DOMAIN g \cap DOMAIN one = {} /\ DOMAIN f = DOMAIN g \cup DOMAIN one
            /\ g \in [DOMAIN g -> Int] /\ one \in [DOMAIN one -> Int]
            /\ \A y \in DOMAIN g : g[y] = f[y]
            /\ \A y \in DOMAIN one : one[y] = f[y]
        BY <2>4, <2>5, <4>1
      <4> HIDE DEF f, g
      <4>3. SumFunction(f) = SumFunction(g) + SumFunction(one)
        BY <4>2, SumUnion
      <4> QED BY <4>3 DEF f, g
    <3>2. SumFunction(one) = one[z]
      BY <2>4, <2>5, SumOne
    <3> QED BY <2>5, <3>1, <3>2
  <2>9. SumRows(row, YearFirst(b + 1), YearLast(z))
          = SumRows(row, YearFirst(b + 1), YearLast(b + n)) + SumRows(row, YearFirst(z), YearLast(z))
    <3>1. YearFirst(b + 1) <= YearLast(b + n) + 1
      BY <1>1, <2>2
    <3> QED BY <1>1, <2>2, <3>1, SumRowsSplit
  <2> HIDE DEF span
  <2> QED BY <2>1, <2>7, <2>8, <2>9
<1>4. P = Nat
  <2>1. P \in SUBSET Nat /\ \A n \in P : n + 1 \in P
    BY <1>3
  <2> HIDE DEF P
  <2> QED BY <1>2, <2>1, NatSetInduction
<1>5. c - b \in Nat /\ b + (c - b) = c
  OBVIOUS
<1>6. SumFunction(span(c - b)) = SumRows(row, YearFirst(b + 1), YearLast(b + (c - b)))
  BY <1>4, <1>5
<1> QED
  BY <1>5, <1>6

\* The years a run folds are consecutive and closed, and follow the baseline.
LEMMA FoldRange ==
  ASSUME CoreInv, phase \in {"totals", "write"}
  PROVE  /\ FoldedYear \in Nat \ {0} /\ baselineYear <= FoldedYear
         /\ DOMAIN write.fold = baselineYear + 1 .. FoldedYear
         /\ FoldJobs = baselineYear + 1 .. FoldedYear
         /\ FoldedYear = baselineYear \/ Freeze(YearLast(FoldedYear))
         /\ YearLast(FoldedYear) \in Nat /\ YearLast(baselineYear) <= YearLast(FoldedYear)
         /\ YearLast(FoldedYear) <= runDay
         /\ YearFirst(FoldedYear + 1) = YearLast(FoldedYear) + 1
<1>1. /\ baselineYear \in Nat \ {0} /\ frozenYear \in Nat /\ frozenYear <= baselineYear
      /\ runDay \in Nat \ {0} /\ closedThrough \in Nat /\ closedThrough <= runDay
      /\ YearLast(baselineYear) <= runDay /\ YearLast(baselineYear) \in Nat
  <2>1. phase # "idle"
    OBVIOUS
  <2>2. runDay \in Days /\ Days \subseteq Nat \ {0} /\ Seen = runDay
    BY <2>1, Basics DEF CoreInv, Running, Seen
  <2> QED BY <2>1, <2>2, Basics DEF CoreInv, Placed, Running
<1>2. DOMAIN write.fold = FoldJobs
  BY DEF CoreInv, Collected, FoldDone
<1>3. YearOf(runDay) \in Nat
  BY <1>1, YearHolds
<1>4. FoldJobs \subseteq baselineYear + 1 .. YearOf(runDay)
  BY <1>1, <1>3 DEF FoldJobs, OpenYears
<1> DEFINE S == {baselineYear} \cup FoldJobs
<1>5. FoldedYear \in S /\ \A y \in S : y <= FoldedYear
  <2>1. S \in SUBSET Nat /\ S # {} /\ baselineYear + YearOf(runDay) \in Nat
        /\ \A y \in S : y <= baselineYear + YearOf(runDay)
    BY <1>1, <1>3, <1>4
  <2>2. FoldedYear = Max(S)
    BY <1>2 DEF FoldedYear
  <2> HIDE DEF S
  <2> QED BY <2>1, <2>2, MaxOf
<1>6. /\ FoldedYear \in Nat \ {0} /\ baselineYear <= FoldedYear
      /\ FoldedYear = baselineYear \/ (Freeze(YearLast(FoldedYear)) /\ FoldedYear <= YearOf(runDay))
  BY <1>1, <1>3, <1>4, <1>5 DEF FoldJobs
<1>7. /\ YearLast(FoldedYear) \in Nat /\ YearLast(baselineYear) <= YearLast(FoldedYear)
      /\ YearFirst(FoldedYear + 1) = YearLast(FoldedYear) + 1
  BY <1>1, <1>6, YearOrder
<1>8. YearLast(FoldedYear) <= runDay
  BY <1>1, <1>6, <1>7 DEF Freeze
<1>9. FoldJobs = baselineYear + 1 .. FoldedYear
  <2>1. FoldJobs \subseteq baselineYear + 1 .. FoldedYear
    BY <1>1, <1>3, <1>4, <1>5
  <2>2. ASSUME NEW y \in baselineYear + 1 .. FoldedYear PROVE y \in FoldJobs
    <3>1. y \in Nat \ {0} /\ y <= FoldedYear /\ y > baselineYear /\ FoldedYear # baselineYear
      BY <1>1, <1>6
    <3>2. Freeze(YearLast(FoldedYear)) /\ y \in OpenYears
      BY <1>1, <1>3, <1>6, <3>1 DEF OpenYears
    <3>3. YearLast(y) \in Nat /\ YearLast(y) <= YearLast(FoldedYear)
      BY <1>6, <3>1, YearOrder
    <3>4. Freeze(YearLast(y))
      BY <1>1, <1>7, <3>2, <3>3 DEF Freeze
    <3> QED BY <3>1, <3>2, <3>4 DEF FoldJobs
  <2> QED BY <2>1, <2>2
<1> QED
  BY <1>2, <1>6, <1>7, <1>8, <1>9

\* The baseline a run continues from has the days of the folded years on top.
LEMMA FoldedSum ==
  ASSUME CoreInv, phase \in {"totals", "write"}, NEW k \in Keys
  PROVE  /\ Folded(k) = baseline[k] + SumRows(history[k], YearLast(baselineYear) + 1, YearLast(FoldedYear))
         /\ Folded(k) \in Nat
<1>1. /\ FoldedYear \in Nat /\ baselineYear \in Nat /\ baselineYear <= FoldedYear
      /\ DOMAIN write.fold = baselineYear + 1 .. FoldedYear
      /\ FoldJobs = baselineYear + 1 .. FoldedYear
      /\ YearLast(FoldedYear) \in Nat
  BY FoldRange, Basics
<1>2. /\ history[k] \in DailyRows /\ YearLast(baselineYear) \in Nat /\ baseline[k] \in Nat
  BY Basics DEF CoreInv, AggregatorTypeOK
<1>3. [y \in DOMAIN write.fold |-> write.fold[y][k]]
        = [y \in baselineYear + 1 .. FoldedYear |-> SumRows(history[k], YearFirst(y), YearLast(y))]
  <2>1. \A y \in FoldJobs : write.fold[y][k] = SumRows(history[k], YearFirst(y), YearLast(y))
    BY DEF CoreInv, Collected, FoldDone
  <2> QED BY <1>1, <2>1
<1>4. SumFunction([y \in DOMAIN write.fold |-> write.fold[y][k]])
        = SumRows(history[k], YearFirst(baselineYear + 1), YearLast(FoldedYear))
  BY <1>1, <1>2, <1>3, YearsSum
<1>5. YearFirst(baselineYear + 1) = YearLast(baselineYear) + 1
  BY <1>1, YearOrder
<1>6. SumRows(history[k], YearLast(baselineYear) + 1, YearLast(FoldedYear)) \in Nat
  BY <1>1, <1>2, SumRowsNat
<1> QED
  BY <1>2, <1>4, <1>5, <1>6 DEF Folded

\* totals: the baseline, the folded years and the days since.
LEMMA TotalsKeeps ==
  ASSUME CoreInv, totals
  PROVE  CoreInv'
<1> DEFINE total == [k \in Keys |-> Folded(k) + sumDaily(k, YearFirst(FoldedYear + 1), runDay)]
<1>1. /\ phase = "totals" /\ phase' = "write" /\ phase # "idle" /\ RunReads
      /\ write' = [write EXCEPT !.total = total]
  BY DEF totals, RunReads, StoreStays
<1> HIDE DEF total
<1>3. /\ AggregatorTypeOK' /\ Placed' /\ Closed' /\ Kept' /\ Bounded' /\ FrozenExact' /\ NetFinal'
      /\ write' = [net |-> write'.net, month |-> write'.month, year |-> write'.year,
                   fold |-> write'.fold, total |-> write'.total] => Running'
      /\ history' = history /\ offset' = offset /\ runDay' = runDay /\ Origin' = Origin
      /\ monthRow' = monthRow /\ yearRow' = yearRow /\ totalRow' = totalRow
      /\ NetJobs' = NetJobs /\ OpenMonths' = OpenMonths /\ OpenYears' = OpenYears /\ FoldJobs' = FoldJobs
      /\ \A last : Freeze(last)' <=> Freeze(last)
      /\ Seen = runDay /\ runDay \in Nat
  BY <1>1, RunReadsKeeps
<1>4. write' = [net |-> write.net, month |-> write.month, year |-> write.year,
                fold |-> write.fold, total |-> total]
  <2>1. write = [net |-> write.net, month |-> write.month, year |-> write.year,
                 fold |-> write.fold, total |-> write.total]
    BY DEF CoreInv, Running
  <2> QED BY <1>1, <2>1
<1>5. NetDone' /\ MonthDone' /\ YearDone' /\ FoldDone'
  <2>1. /\ NetDone /\ MonthDone /\ YearDone /\ FoldDone
        /\ write'.net = write.net /\ write'.month = write.month /\ write'.year = write.year
        /\ write'.fold = write.fold
    BY <1>4 DEF CoreInv, Collected
  <2>2. NetDone'
    BY <1>1, <1>3, <2>1 DEF NetDone
  <2>3. /\ \A k, m : MonthSum(k, m, runDay)' = MonthSum(k, m, runDay)
        /\ \A k, m : MonthSum(k, m, MonthLast(m))' = MonthSum(k, m, MonthLast(m))
    BY <1>3 DEF MonthSum
  <2>4. MonthDone'
    BY <1>1, <1>3, <2>1, <2>3 DEF MonthDone
  <2>5. /\ \A k, y : YearSum(k, y, runDay)' = YearSum(k, y, runDay)
        /\ \A k, y : YearSum(k, y, YearLast(y))' = YearSum(k, y, YearLast(y))
    BY <1>3 DEF YearSum
  <2>6. YearDone'
    BY <1>1, <1>3, <2>1, <2>5 DEF YearDone
  <2>7. FoldDone'
    BY <1>1, <1>3, <2>1 DEF FoldDone
  <2> QED BY <2>2, <2>4, <2>6, <2>7
<1>6. ASSUME NEW k \in Keys
      PROVE  total[k] \in Nat
  <2>1. YearFirst(FoldedYear + 1) \in Int /\ Folded(k) \in Nat
    <3>1. YearLast(FoldedYear) \in Nat /\ YearFirst(FoldedYear + 1) = YearLast(FoldedYear) + 1
      BY <1>1, FoldRange
    <3> QED BY <1>1, <3>1, FoldedSum
  <2>2. rows[k] \in DailyRows
    BY Basics
  <2>3. sumDaily(k, YearFirst(FoldedYear + 1), runDay) \in Nat
    BY <1>3, <2>1, <2>2, SumRowsNat DEF sumDaily
  <2> QED BY <2>1, <2>3 DEF total
<1>7. TotalDone'
  <2>1. write'.total = total /\ total \in [Keys -> Nat]
    <3>1. total = [k \in Keys |-> total[k]]
      BY DEF total
    <3> QED BY <1>4, <1>6, <3>1
  <2> QED BY <2>1 DEF TotalDone
<1>8. Collected'
  BY <1>5, <1>7 DEF Collected
<1>9. Running'
  BY <1>3, <1>4
<1> QED
  BY <1>3, <1>8, <1>9 DEF CoreInv

-----------------------------------------------------------------------------
\* Cleanup.

\* cleanupPeriods: nothing at or after the cutoff is deleted, and no row before
\* it is needed.
LEMMA CutoffFacts ==
  ASSUME CoreInv, NEW cutoff, cutoff = minDay(today - Retention, firstOpenDay),
         firstOpenDay # NoDay, cutoff > purgedBefore
  PROVE  /\ cutoff \in Nat \ {0} /\ cutoff <= today - Retention /\ cutoff <= today
         /\ \A d \in Int : Needed(d) => d >= cutoff
<1>1. /\ frozenNet \in Nat /\ frozenMonth \in Nat \ {0} /\ frozenYear \in Nat \ {0}
      /\ baselineYear \in Nat \ {0} /\ today \in Nat
  BY Basics
<1>2. purgedBefore \in Nat
  <2>1. purgedBefore \in Days \cup {NoDay} /\ NoDay \in Nat
    BY DEF CoreInv, AggregatorTypeOK, NoDay
  <2> QED BY <2>1, Basics
<1>3. Retention \in Nat
  BY AggregatorAssumption
<1>4. /\ MonthFirst(frozenMonth + 1) \in Nat /\ YearFirst(frozenYear + 1) \in Nat
      /\ YearFirst(baselineYear + 1) \in Nat
  <2>1. MonthFirst(frozenMonth + 1) = MonthLast(frozenMonth) + 1 /\ MonthLast(frozenMonth) \in Nat
    BY <1>1, MonthOrder
  <2>2. YearFirst(frozenYear + 1) \in Nat /\ YearFirst(baselineYear + 1) \in Nat
    BY <1>1, YearOrder
  <2> QED BY <2>1, <2>2
<1> DEFINE S == {frozenNet + 1, MonthFirst(frozenMonth + 1),
                 YearFirst(frozenYear + 1), YearFirst(baselineYear + 1)}
<1>5. firstOpenDay = Min(S)
  BY DEF firstOpenDay
<1>6. firstOpenDay \in S /\ \A x \in S : firstOpenDay <= x
  <2>1. S \in SUBSET Nat /\ S # {}
    BY <1>1, <1>4
  <2> HIDE DEF S
  <2> QED BY <1>5, <2>1, MinOf
<1>7. firstOpenDay \in Nat
  BY <1>1, <1>4, <1>6
<1>8. /\ firstOpenDay <= frozenNet + 1 /\ firstOpenDay <= MonthFirst(frozenMonth + 1)
      /\ firstOpenDay <= YearFirst(frozenYear + 1) /\ firstOpenDay <= YearFirst(baselineYear + 1)
  BY <1>6
<1>9. today - Retention \in Int /\ today - Retention <= today
  BY <1>1, <1>3
<1>10. cutoff \in Int /\ cutoff <= today - Retention /\ cutoff <= firstOpenDay
  BY <1>7, <1>9, MinDay
<1>11. \A d \in Int : Needed(d) => d >= cutoff
  BY <1>1, <1>4, <1>7, <1>8, <1>10 DEF Needed
<1> QED
  BY <1>1, <1>2, <1>9, <1>10, <1>11

\* cleanupPeriods keeps the invariant.
LEMMA CleanupKeeps ==
  ASSUME CoreInv, cleanupPeriods
  PROVE  CoreInv'
<1>0. /\ AggregatorTypeOK /\ Placed /\ Closed /\ Kept /\ Running /\ Bounded /\ FrozenExact /\ NetFinal
      /\ NetDone /\ MonthDone /\ YearDone /\ FoldDone /\ TotalDone
  BY DEF CoreInv, Collected
<1>1. PICK cutoff :
        /\ cutoff = minDay(today - Retention, firstOpenDay)
        /\ firstOpenDay # NoDay /\ cutoff > purgedBefore
        /\ rows' = [k \in Keys |-> [d \in Days |-> IF d < cutoff THEN NoVal ELSE rows[k][d]]]
        /\ netRow' = [d \in {d \in DOMAIN netRow : d >= cutoff} |-> netRow[d]]
        /\ monthRow' = [k \in Keys |-> [m \in Months |->
                          IF m < MonthOf(cutoff) THEN NoVal ELSE monthRow[k][m]]]
        /\ yearRow' = [k \in Keys |-> [y \in Years |->
                          IF y < YearOf(cutoff) THEN NoVal ELSE yearRow[k][y]]]
        /\ \/ purgedBefore' = purgedBefore
           \/ purgedBefore' = cutoff /\ \E d \in Days : d < cutoff
  <2>1. DOMAIN netRow \subseteq Days
    BY <1>0 DEF AggregatorTypeOK
  <2> QED BY <2>1 DEF cleanupPeriods
<1>2. /\ today' = today /\ closedDaily' = closedDaily
      /\ frozenNet' = frozenNet /\ frozenMonth' = frozenMonth /\ frozenYear' = frozenYear
      /\ baselineYear' = baselineYear /\ baseline' = baseline /\ cutover' = cutover
      /\ offset' = offset /\ totalRow' = totalRow
      /\ phase' = phase /\ runDay' = runDay /\ closedThrough' = closedThrough /\ write' = write
      /\ history' = history /\ skipped' = skipped
  BY DEF cleanupPeriods, run, past
<1>3. /\ cutoff \in Nat \ {0} /\ cutoff <= today - Retention /\ cutoff <= today
      /\ \A d \in Int : Needed(d) => d >= cutoff
  BY <1>1, CutoffFacts
<1>4. /\ Days \subseteq Nat \ {0} /\ today \in Days /\ today \in Nat /\ runDay \in Nat
      /\ Months \subseteq Nat \ {0} /\ Years \subseteq Nat \ {0}
      /\ Seen \in Nat /\ Seen' = Seen /\ Origin' = Origin
  BY <1>2, Basics, JobsTyped DEF Seen, Origin
<1>5. /\ MonthOf(cutoff) \in Nat \ {0} /\ MonthFirst(MonthOf(cutoff)) <= cutoff
      /\ YearOf(cutoff) \in Nat \ {0} /\ YearFirst(YearOf(cutoff)) <= cutoff
  BY <1>3, MonthHolds, YearHolds
<1>6. \A k \in Keys, m \in Months :
          monthRow'[k][m] = IF m < MonthOf(cutoff) THEN NoVal ELSE monthRow[k][m]
  BY <1>1
<1>7. \A k \in Keys, y \in Years :
          yearRow'[k][y] = IF y < YearOf(cutoff) THEN NoVal ELSE yearRow[k][y]
  BY <1>1
<1>8. AggregatorTypeOK'
  <2>1. rows' \in [Keys -> [Days -> Values \cup {NoVal}]]
    <3>1. rows \in [Keys -> [Days -> Values \cup {NoVal}]]
      BY <1>0 DEF AggregatorTypeOK, LedgerTypeOK
    <3> QED BY <1>1, <3>1
  <2>2. purgedBefore' \in Days \cup {NoDay}
    <3>1. ASSUME NEW d \in Days, d < cutoff PROVE cutoff \in Days
      <4>1. cutoff \in d .. today
        BY <1>3, <1>4, <3>1
      <4> QED BY <1>4, <4>1, AggregatorAssumption
    <3> QED BY <1>0, <1>1, <3>1 DEF AggregatorTypeOK
  <2>3. DOMAIN netRow' \subseteq Days /\ \A d \in DOMAIN netRow' : netRow'[d] \in Int
    BY <1>0, <1>1 DEF AggregatorTypeOK
  <2>4. monthRow' \in [Keys -> [Months -> Nat \cup {NoVal}]]
    <3>1. monthRow \in [Keys -> [Months -> Nat \cup {NoVal}]]
      BY <1>0 DEF AggregatorTypeOK
    <3> QED BY <1>1, <3>1
  <2>5. yearRow' \in [Keys -> [Years -> Nat \cup {NoVal}]]
    <3>1. yearRow \in [Keys -> [Years -> Nat \cup {NoVal}]]
      BY <1>0 DEF AggregatorTypeOK
    <3> QED BY <1>1, <3>1
  <2> QED BY <1>0, <1>2, <2>1, <2>2, <2>3, <2>4, <2>5 DEF AggregatorTypeOK, LedgerTypeOK
<1>9. Placed' /\ Closed' /\ Running'
  BY <1>0, <1>2, <1>4 DEF Placed, Closed, Running
<1>10. Kept'
  <2>1. ASSUME NEW k \in Keys, NEW d \in Days, Needed(d) PROVE rows'[k][d] = history[k][d]
    <3>1. d \in Int /\ d >= cutoff
      BY <1>3, <1>4, <2>1
    <3>2. rows'[k][d] = rows[k][d]
      BY <1>1, <1>3, <3>1
    <3> QED BY <1>0, <2>1, <3>2 DEF Kept
  <2>2. \A d : Needed(d)' <=> Needed(d)
    BY <1>2 DEF Needed
  <2> QED BY <1>2, <2>1, <2>2 DEF Kept
<1>11. /\ NetJobs' = NetJobs /\ OpenMonths' = OpenMonths /\ OpenYears' = OpenYears /\ FoldJobs' = FoldJobs
       /\ \A last : Freeze(last)' <=> Freeze(last)
  BY <1>2 DEF NetJobs, OpenMonths, OpenYears, FoldJobs, Freeze
<1>12. NetDone' /\ FoldDone' /\ TotalDone'
  BY <1>0, <1>2, <1>4, <1>11 DEF NetDone, FoldDone, TotalDone
<1>13. MonthDone'
  <2>1. /\ \A k, m : MonthSum(k, m, runDay)' = MonthSum(k, m, runDay)
        /\ \A k, m : MonthSum(k, m, MonthLast(m))' = MonthSum(k, m, MonthLast(m))
    BY <1>2 DEF MonthSum
  <2>2. ASSUME phase \in {"years", "totals", "write"}, NEW m \in OpenMonths, NEW k \in Keys
        PROVE  monthRow'[k][m] <= write.month[m][k]
    <3>1. m \in Months /\ write.month[m][k] \in Nat /\ monthRow[k][m] <= write.month[m][k]
      BY <1>0, <2>2, Jobs DEF MonthDone
    <3> QED BY <1>6, <3>1 DEF NoVal
  <2> QED BY <1>0, <1>2, <1>11, <2>1, <2>2 DEF MonthDone
<1>14. YearDone'
  <2>1. /\ \A k, y : YearSum(k, y, runDay)' = YearSum(k, y, runDay)
        /\ \A k, y : YearSum(k, y, YearLast(y))' = YearSum(k, y, YearLast(y))
    BY <1>2 DEF YearSum
  <2>2. ASSUME phase \in {"totals", "write"}, NEW y \in OpenYears, NEW k \in Keys
        PROVE  yearRow'[k][y] <= write.year[y][k]
    <3>1. y \in Years /\ write.year[y][k] \in Nat /\ yearRow[k][y] <= write.year[y][k]
      BY <1>0, <2>2, Jobs DEF YearDone
    <3> QED BY <1>7, <3>1 DEF NoVal
  <2> QED BY <1>0, <1>2, <1>11, <2>1, <2>2 DEF YearDone
<1>15. Bounded'
  <2>1. /\ \A k, m : MonthSum(k, m, Seen)' = MonthSum(k, m, Seen)
        /\ \A k, y : YearSum(k, y, Seen)' = YearSum(k, y, Seen)
    BY <1>2, <1>4 DEF MonthSum, YearSum
  <2>2. HistoryGrows /\ Seen \in Int /\ Seen <= Seen
    BY <1>2, <1>4, HistoryStays
  <2>3. ASSUME NEW k \in Keys, NEW m \in Months, m > frozenMonth
        PROVE  monthRow'[k][m] <= MonthSum(k, m, Seen)
    <3>1. MonthSum(k, m, Seen) \in Nat
      BY <2>2, PeriodSumsMove
    <3>2. monthRow[k][m] <= MonthSum(k, m, Seen)
      BY <1>0, <2>3 DEF Bounded
    <3> QED BY <1>6, <3>1, <3>2 DEF NoVal
  <2>4. ASSUME NEW k \in Keys, NEW y \in Years, y > frozenYear
        PROVE  yearRow'[k][y] <= YearSum(k, y, Seen)
    <3>1. YearSum(k, y, Seen) \in Nat
      BY <2>2, PeriodSumsMove
    <3>2. yearRow[k][y] <= YearSum(k, y, Seen)
      BY <1>0, <2>4 DEF Bounded
    <3> QED BY <1>7, <3>1, <3>2 DEF NoVal
  <2> QED BY <1>0, <1>2, <1>4, <2>1, <2>3, <2>4 DEF Bounded
<1>16. FrozenExact'
  <2>1. ASSUME NEW k \in Keys, NEW m \in MonthOf(cutover - 2) .. frozenMonth
        PROVE  IF monthRow'[k][m] = NoVal THEN MonthLast(m) < today - Retention
               ELSE monthRow'[k][m] = SumRows(history[k], MonthFirst(m), MonthLast(m)) + offset.month[k][m]
    <3>1. m \in Months /\ m \in Nat
      BY <1>4, JobsTyped
    <3>2. ASSUME m < MonthOf(cutoff) PROVE MonthLast(m) < today - Retention
      <4>1. MonthLast(m) < MonthFirst(MonthOf(cutoff)) /\ MonthLast(m) \in Int
        BY <1>5, <3>1, <3>2, MonthOrder
      <4>2. MonthFirst(MonthOf(cutoff)) \in Int
        BY <1>5, MonthOrder
      <4>3. today - Retention \in Int
        BY <1>4, AggregatorAssumption
      <4> QED BY <1>3, <1>5, <4>1, <4>2, <4>3
    <3>3. IF monthRow[k][m] = NoVal THEN MonthLast(m) < today - Retention
          ELSE monthRow[k][m] = SumRows(history[k], MonthFirst(m), MonthLast(m)) + offset.month[k][m]
      BY <1>0 DEF FrozenExact
    <3> QED BY <1>6, <3>1, <3>2, <3>3
  <2>2. ASSUME NEW k \in Keys, NEW y \in YearOf(cutover - 2) .. frozenYear
        PROVE  IF yearRow'[k][y] = NoVal THEN YearLast(y) < today - Retention
               ELSE yearRow'[k][y] = SumRows(history[k], YearFirst(y), YearLast(y)) + offset.year[k][y]
    <3>1. y \in Years /\ y \in Nat
      BY <1>4, JobsTyped
    <3>2. ASSUME y < YearOf(cutoff) PROVE YearLast(y) < today - Retention
      <4>1. YearLast(y) < YearFirst(YearOf(cutoff)) /\ YearLast(y) \in Int
        BY <1>5, <3>1, <3>2, YearOrder
      <4>2. YearFirst(YearOf(cutoff)) \in Int
        BY <1>5, YearOrder
      <4>3. today - Retention \in Int
        BY <1>4, AggregatorAssumption
      <4> QED BY <1>3, <1>5, <4>1, <4>2, <4>3
    <3>3. IF yearRow[k][y] = NoVal THEN YearLast(y) < today - Retention
          ELSE yearRow[k][y] = SumRows(history[k], YearFirst(y), YearLast(y)) + offset.year[k][y]
      BY <1>0 DEF FrozenExact
    <3> QED BY <1>7, <3>1, <3>2, <3>3
  <2> QED BY <1>2, <2>1, <2>2 DEF FrozenExact
<1>17. NetFinal'
  <2>1. ASSUME NEW d \in (cutover - 1 .. frozenNet) \ skipped
        PROVE  IF d \notin DOMAIN netRow' THEN d < today - Retention
               ELSE netRow'[d] = SumRows(history[Export], d, d) - SumRows(history[Import], d, d)
    <3>1. IF d \notin DOMAIN netRow THEN d < today - Retention
          ELSE netRow[d] = SumRows(history[Export], d, d) - SumRows(history[Import], d, d)
      BY <1>0, <2>1 DEF NetFinal
    <3>2. DOMAIN netRow' = {e \in DOMAIN netRow : e >= cutoff} /\ \A e \in DOMAIN netRow' : netRow'[e] = netRow[e]
      BY <1>1
    <3>3. d \in Int /\ today - Retention \in Int
      BY <1>4, Basics, AggregatorAssumption
    <3>4. d < cutoff => d < today - Retention
      BY <1>3, <3>3
    <3> QED BY <1>3, <3>1, <3>2, <3>3, <3>4
  <2> QED BY <1>2, <2>1 DEF NetFinal
<1> QED
  BY <1>8, <1>9, <1>10, <1>12, <1>13, <1>14, <1>15, <1>16, <1>17 DEF CoreInv, Collected

-----------------------------------------------------------------------------
\* The write.

\* Every freeze advances the watermark, none moves it back.
LEMMA Advanced ==
  ASSUME NEW frozen \in Nat, NEW final \in SUBSET Nat, NEW b \in Nat, \A p \in final : p <= b
  PROVE  /\ Advance(frozen, final) \in {frozen} \cup final
         /\ Advance(frozen, final) \in Nat /\ frozen <= Advance(frozen, final)
         /\ \A p \in final : p <= Advance(frozen, final)
<1> DEFINE S == {frozen} \cup final
<1>1. S \in SUBSET Nat /\ S # {} /\ frozen + b \in Nat /\ \A p \in S : p <= frozen + b
  OBVIOUS
<1>2. Max(S) \in S /\ \A p \in S : p <= Max(S)
  <2> HIDE DEF S
  <2> QED BY <1>1, MaxOf
<1> QED
  BY <1>2 DEF Advance

\* What a run freezes it has computed, and every register has closed.
LEMMA WriteFreezes ==
  ASSUME CoreInv, WriteComputed
  PROVE  /\ frozenNet' \in Nat /\ frozenNet <= frozenNet'
         /\ \A d \in NetJobs : d <= frozenNet' => Freeze(d)
         /\ frozenNet' = frozenNet \/ (frozenNet' \in NetJobs /\ Freeze(frozenNet'))
         /\ frozenMonth' \in Nat /\ frozenMonth <= frozenMonth'
         /\ \A m \in frozenMonth + 1 .. frozenMonth' : m \in OpenMonths /\ Freeze(MonthLast(m))
         /\ frozenYear' \in Nat /\ frozenYear <= frozenYear' /\ frozenYear' <= baselineYear'
         /\ \A y \in frozenYear + 1 .. frozenYear' : y \in OpenYears /\ Freeze(YearLast(y))
         /\ baselineYear' = FoldedYear
<1>1. /\ frozenNet \in Nat /\ frozenMonth \in Nat /\ frozenYear \in Nat /\ baselineYear \in Nat
      /\ runDay \in Nat \ {0} /\ closedThrough \in Nat /\ MaxNetDays \in Nat
      /\ frozenYear <= baselineYear /\ phase = "write"
  <2>1. phase = "write" /\ runDay \in Days
    BY DEF WriteComputed, CoreInv, Running
  <2> QED BY <2>1, Basics, AggregatorAssumption DEF CoreInv, Placed
<1>2. MonthOf(runDay) \in Nat /\ YearOf(runDay) \in Nat
  BY <1>1, MonthHolds, YearHolds
<1>3. /\ DOMAIN write.net = NetJobs /\ DOMAIN write.month = OpenMonths /\ DOMAIN write.year = OpenYears
  BY <1>1 DEF CoreInv, Collected, NetDone, MonthDone, YearDone
<1>4. /\ frozenNet' = Advance(frozenNet, {d \in NetJobs : Freeze(d)})
      /\ frozenMonth' = Advance(frozenMonth, {m \in OpenMonths : Freeze(MonthLast(m))})
      /\ frozenYear' = Advance(frozenYear, {y \in OpenYears : Freeze(YearLast(y))})
      /\ baselineYear' = FoldedYear
  BY <1>3 DEF WriteComputed
<1>5. /\ NetJobs \subseteq frozenNet + 1 .. runDay
      /\ OpenMonths = frozenMonth + 1 .. MonthOf(runDay)
      /\ OpenYears = frozenYear + 1 .. YearOf(runDay)
  BY <1>1 DEF NetJobs, OpenMonths, OpenYears
<1>6. /\ frozenNet' \in {frozenNet} \cup {d \in NetJobs : Freeze(d)}
      /\ frozenNet' \in Nat /\ frozenNet <= frozenNet'
  <2>1. \A d \in NetJobs : d \in Nat /\ d <= runDay
    BY <1>1, <1>5
  <2> DEFINE final == {d \in NetJobs : Freeze(d)}
  <2>2. final \in SUBSET Nat /\ \A p \in final : p <= runDay
    BY <2>1
  <2>3. frozenNet' = Advance(frozenNet, final)
    BY <1>4
  <2> HIDE DEF final
  <2>4. frozenNet' \in {frozenNet} \cup final /\ frozenNet' \in Nat /\ frozenNet <= frozenNet'
    BY <1>1, <2>2, <2>3, Advanced
  <2> QED BY <2>4 DEF final
<1>7. ASSUME NEW d \in NetJobs, d <= frozenNet' PROVE Freeze(d)
  <2>1. d \in Nat /\ d > frozenNet
    BY <1>1, <1>5
  <2>2. Freeze(frozenNet')
    BY <1>1, <1>6, <1>7, <2>1
  <2> QED BY <1>1, <1>6, <1>7, <2>1, <2>2 DEF Freeze
<1>8. /\ frozenMonth' \in {frozenMonth} \cup {m \in OpenMonths : Freeze(MonthLast(m))}
      /\ frozenMonth' \in Nat /\ frozenMonth <= frozenMonth'
  <2> DEFINE final == {m \in OpenMonths : Freeze(MonthLast(m))}
  <2>1. final \in SUBSET Nat /\ \A p \in final : p <= MonthOf(runDay)
    BY <1>1, <1>2, <1>5
  <2>2. frozenMonth' = Advance(frozenMonth, final)
    BY <1>4
  <2> HIDE DEF final
  <2>3. frozenMonth' \in {frozenMonth} \cup final /\ frozenMonth' \in Nat /\ frozenMonth <= frozenMonth'
    BY <1>1, <1>2, <2>1, <2>2, Advanced
  <2> QED BY <2>3 DEF final
<1>9. ASSUME NEW m \in frozenMonth + 1 .. frozenMonth' PROVE m \in OpenMonths /\ Freeze(MonthLast(m))
  <2>1. m \in Nat /\ m > frozenMonth /\ m <= frozenMonth' /\ frozenMonth' # frozenMonth
    BY <1>1, <1>8
  <2>2. frozenMonth' \in OpenMonths /\ Freeze(MonthLast(frozenMonth'))
    BY <1>8, <2>1
  <2>3. m \in OpenMonths
    BY <1>1, <1>2, <1>5, <1>8, <2>1, <2>2
  <2>4. MonthLast(m) \in Nat /\ MonthLast(frozenMonth') \in Nat /\ MonthLast(m) <= MonthLast(frozenMonth')
    BY <1>8, <2>1, MonthOrder
  <2> QED BY <1>1, <2>2, <2>3, <2>4 DEF Freeze
<1>10. /\ frozenYear' \in {frozenYear} \cup {y \in OpenYears : Freeze(YearLast(y))}
       /\ frozenYear' \in Nat /\ frozenYear <= frozenYear'
  <2> DEFINE final == {y \in OpenYears : Freeze(YearLast(y))}
  <2>1. final \in SUBSET Nat /\ \A p \in final : p <= YearOf(runDay)
    BY <1>1, <1>2, <1>5
  <2>2. frozenYear' = Advance(frozenYear, final)
    BY <1>4
  <2> HIDE DEF final
  <2>3. frozenYear' \in {frozenYear} \cup final /\ frozenYear' \in Nat /\ frozenYear <= frozenYear'
    BY <1>1, <1>2, <2>1, <2>2, Advanced
  <2> QED BY <2>3 DEF final
<1>11. ASSUME NEW y \in frozenYear + 1 .. frozenYear' PROVE y \in OpenYears /\ Freeze(YearLast(y))
  <2>1. y \in Nat /\ y > frozenYear /\ y <= frozenYear' /\ frozenYear' # frozenYear
    BY <1>1, <1>10
  <2>2. frozenYear' \in OpenYears /\ Freeze(YearLast(frozenYear'))
    BY <1>10, <2>1
  <2>3. y \in OpenYears
    BY <1>1, <1>2, <1>5, <1>10, <2>1, <2>2
  <2>4. YearLast(y) \in Nat /\ YearLast(frozenYear') \in Nat /\ YearLast(y) <= YearLast(frozenYear')
    BY <1>10, <2>1, YearOrder
  <2> QED BY <1>1, <2>2, <2>3, <2>4 DEF Freeze
<1>12. frozenYear' <= baselineYear'
  <2>1. FoldedYear \in Nat /\ baselineYear <= FoldedYear /\ FoldJobs = baselineYear + 1 .. FoldedYear
    BY <1>1, FoldRange
  <2>2. CASE frozenYear' <= baselineYear
    BY <1>1, <1>4, <1>10, <2>1, <2>2
  <2>3. CASE frozenYear' > baselineYear
    <3>1. frozenYear' # frozenYear
      BY <1>1, <1>10, <2>3
    <3>2. frozenYear' \in FoldJobs
      BY <1>10, <2>3, <3>1 DEF FoldJobs
    <3> QED BY <1>1, <1>4, <1>10, <2>1, <3>2
  <2> QED BY <1>1, <1>10, <2>2, <2>3
<1> QED
  BY <1>4, <1>6, <1>7, <1>8, <1>9, <1>10, <1>11, <1>12

\* A frozen day lies behind the run, and every register has closed it.
LEMMA FreezeClosed ==
  ASSUME CoreInv, phase # "idle", NEW last \in Int, Freeze(last)
  PROVE  last <= runDay /\ \A k \in Keys : last <= closedDaily[k]
<1>1. /\ closedThrough \in Int /\ runDay \in Int /\ closedThrough <= runDay
      /\ \A k \in Keys : closedThrough <= closedDaily[k] /\ closedDaily[k] \in Int
  BY Basics DEF CoreInv, Running
<1> QED
  BY <1>1 DEF Freeze

\* The rows of the computed tables after the write.
LEMMA WriteRows ==
  ASSUME CoreInv, WriteComputed
  PROVE  /\ \A k \in Keys, m \in Months : monthRow'[k][m] =
               IF m \in OpenMonths THEN write.month[m][k] ELSE monthRow[k][m]
         /\ \A k \in Keys, y \in Years : yearRow'[k][y] =
               IF y \in OpenYears THEN write.year[y][k] ELSE yearRow[k][y]
         /\ monthRow' \in [Keys -> [Months -> Nat \cup {NoVal}]]
         /\ yearRow' \in [Keys -> [Years -> Nat \cup {NoVal}]]
         /\ NetJobs \subseteq Days /\ \A d \in NetJobs : d > frozenNet
         /\ DOMAIN netRow' = DOMAIN netRow \cup NetJobs
         /\ \A d \in DOMAIN netRow' : netRow'[d] = IF d \in NetJobs THEN write.net[d] ELSE netRow[d]
<1>1. /\ phase = "write" /\ phase # "idle" /\ frozenNet \in Days /\ frozenNet \in Nat
      /\ frozenMonth \in Nat /\ frozenYear \in Nat
      /\ runDay \in Days /\ runDay \in Nat /\ MaxNetDays \in Nat
      /\ monthRow \in [Keys -> [Months -> Nat \cup {NoVal}]]
      /\ yearRow \in [Keys -> [Years -> Nat \cup {NoVal}]]
  <2>1. phase = "write" /\ runDay \in Days
    BY DEF WriteComputed, CoreInv, Running
  <2> QED BY <2>1, Basics, AggregatorAssumption DEF CoreInv, AggregatorTypeOK
<1>2. /\ DOMAIN write.net = NetJobs /\ DOMAIN write.month = OpenMonths /\ DOMAIN write.year = OpenYears
      /\ \A m \in OpenMonths, k \in Keys : write.month[m][k] \in Nat
      /\ \A y \in OpenYears, k \in Keys : write.year[y][k] \in Nat
  BY <1>1 DEF CoreInv, Collected, NetDone, MonthDone, YearDone
<1>3. /\ \A m \in OpenMonths : m > frozenMonth /\ m \in Months
      /\ \A y \in OpenYears : y > frozenYear /\ y \in Years
  BY <1>1, Jobs
<1>4. \A d \in NetJobs : d > frozenNet /\ d \in frozenNet .. runDay
  BY <1>1 DEF NetJobs
<1>5. NetJobs \subseteq Days
  <2>1. frozenNet .. runDay \subseteq Days
    BY <1>1, AggregatorAssumption
  <2> QED BY <1>4, <2>1
<1>6. monthRow' = [k \in Keys |-> [m \in Months |-> IF m \in OpenMonths THEN write.month[m][k] ELSE monthRow[k][m]]]
  <2>1. ASSUME NEW k \in Keys
        PROVE  Upsert(monthRow[k], [m \in DOMAIN write.month |-> write.month[m][k]], frozenMonth)
                 = [m \in Months |-> IF m \in OpenMonths THEN write.month[m][k] ELSE monthRow[k][m]]
    <3>1. DOMAIN monthRow[k] = Months
      BY <1>1
    <3>2. \A m : (m > frozenMonth /\ m \in OpenMonths) <=> m \in OpenMonths
      BY <1>3
    <3> QED BY <1>2, <3>1, <3>2 DEF Upsert
  <2> QED BY <2>1 DEF WriteComputed
<1>7. yearRow' = [k \in Keys |-> [y \in Years |-> IF y \in OpenYears THEN write.year[y][k] ELSE yearRow[k][y]]]
  <2>1. ASSUME NEW k \in Keys
        PROVE  Upsert(yearRow[k], [y \in DOMAIN write.year |-> write.year[y][k]], frozenYear)
                 = [y \in Years |-> IF y \in OpenYears THEN write.year[y][k] ELSE yearRow[k][y]]
    <3>1. DOMAIN yearRow[k] = Years
      BY <1>1
    <3>2. \A y : (y > frozenYear /\ y \in OpenYears) <=> y \in OpenYears
      BY <1>3
    <3> QED BY <1>2, <3>1, <3>2 DEF Upsert
  <2> QED BY <2>1 DEF WriteComputed
<1>8. /\ DOMAIN netRow' = DOMAIN netRow \cup NetJobs
      /\ \A d \in DOMAIN netRow' : netRow'[d] = IF d \in NetJobs THEN write.net[d] ELSE netRow[d]
  <2>1. {d \in DOMAIN write.net : d > frozenNet} = NetJobs
    BY <1>2, <1>4
  <2>2. netRow' = [d \in DOMAIN netRow \cup NetJobs |->
                     IF d \in NetJobs /\ d > frozenNet THEN write.net[d] ELSE netRow[d]]
    BY <1>2, <2>1 DEF WriteComputed
  <2> QED BY <1>4, <2>2
<1>9. monthRow' \in [Keys -> [Months -> Nat \cup {NoVal}]]
  BY <1>1, <1>2, <1>6
<1>10. yearRow' \in [Keys -> [Years -> Nat \cup {NoVal}]]
  BY <1>1, <1>2, <1>7
<1> QED
  BY <1>4, <1>5, <1>6, <1>7, <1>8, <1>9, <1>10

\* The period after a later one is later.
LEMMA NextPeriod ==
  ASSUME NEW p \in Nat, NEW q \in Nat, p <= q
  PROVE  /\ p + 1 \in Nat /\ p + 1 # 0 /\ q + 1 \in Nat /\ q + 1 # 0 /\ p + 1 <= q + 1
  OBVIOUS

\* WriteComputed keeps the invariant.
LEMMA WriteKeeps ==
  ASSUME CoreInv, WriteComputed
  PROVE  CoreInv'
<1>0. /\ AggregatorTypeOK /\ Placed /\ Closed /\ Kept /\ Bounded /\ FrozenExact /\ NetFinal
      /\ NetDone /\ MonthDone /\ YearDone /\ TotalDone
  BY DEF CoreInv, Collected
<1>1. /\ phase = "write" /\ phase # "idle" /\ phase \in {"totals", "write"}
      /\ phase' = "idle" /\ runDay' = NoDay /\ closedThrough' = NoDay /\ write' = NoWrite
      /\ today' = today /\ rows' = rows /\ closedDaily' = closedDaily
      /\ cutover' = cutover /\ offset' = offset /\ purgedBefore' = purgedBefore /\ history' = history
      /\ totalRow' = write.total /\ baseline' = [k \in Keys |-> Folded(k)]
      /\ skipped' = skipped \cup ((frozenNet + 1 .. frozenNet') \ DOMAIN write.net)
  BY DEF WriteComputed, ledger
<1>2. /\ frozenNet' \in Nat /\ frozenNet <= frozenNet'
      /\ \A d \in NetJobs : d <= frozenNet' => Freeze(d)
      /\ frozenNet' = frozenNet \/ (frozenNet' \in NetJobs /\ Freeze(frozenNet'))
      /\ frozenMonth' \in Nat /\ frozenMonth <= frozenMonth'
      /\ \A m \in frozenMonth + 1 .. frozenMonth' : m \in OpenMonths /\ Freeze(MonthLast(m))
      /\ frozenYear' \in Nat /\ frozenYear <= frozenYear' /\ frozenYear' <= baselineYear'
      /\ \A y \in frozenYear + 1 .. frozenYear' : y \in OpenYears /\ Freeze(YearLast(y))
      /\ baselineYear' = FoldedYear
  BY WriteFreezes
<1>3. /\ \A k \in Keys, m \in Months : monthRow'[k][m] =
            IF m \in OpenMonths THEN write.month[m][k] ELSE monthRow[k][m]
      /\ \A k \in Keys, y \in Years : yearRow'[k][y] =
            IF y \in OpenYears THEN write.year[y][k] ELSE yearRow[k][y]
      /\ monthRow' \in [Keys -> [Months -> Nat \cup {NoVal}]]
      /\ yearRow' \in [Keys -> [Years -> Nat \cup {NoVal}]]
      /\ NetJobs \subseteq Days /\ \A d \in NetJobs : d > frozenNet
      /\ DOMAIN netRow' = DOMAIN netRow \cup NetJobs
      /\ \A d \in DOMAIN netRow' : netRow'[d] = IF d \in NetJobs THEN write.net[d] ELSE netRow[d]
  BY WriteRows
<1>4. /\ Days \subseteq Nat \ {0} /\ today \in Nat /\ runDay \in Nat /\ runDay <= today /\ Seen = runDay
      /\ frozenNet \in Nat /\ frozenMonth \in Nat \ {0} /\ frozenYear \in Nat \ {0} /\ baselineYear \in Nat \ {0}
      /\ cutover \in Nat \ {0} /\ Origin \in Nat \ {0}
      /\ YearLast(baselineYear) \in Nat /\ YearLast(YearOf(cutover) - 1) = Origin - 1
      /\ YearOf(cutover) - 1 <= baselineYear /\ YearOf(cutover) \in Nat
      /\ \A k \in Keys : history[k] \in DailyRows /\ closedDaily[k] \in Nat
  BY <1>1, Basics DEF CoreInv, Running, Placed, Seen
<1>5. /\ FoldedYear \in Nat \ {0} /\ baselineYear <= FoldedYear
      /\ FoldedYear = baselineYear \/ Freeze(YearLast(FoldedYear))
      /\ YearLast(FoldedYear) \in Nat /\ YearLast(FoldedYear) <= runDay
  BY <1>1, FoldRange
<1>6. \A k \in Keys : Folded(k) \in Nat
  BY <1>1, FoldedSum
<1>7. /\ Months \subseteq Nat \ {0} /\ Years \subseteq Nat \ {0}
      /\ MonthOf(cutover - 2) \in Nat /\ YearOf(cutover - 2) \in Nat
      /\ MonthOf(cutover - 2) .. frozenMonth \subseteq Months
      /\ YearOf(cutover - 2) .. frozenYear \subseteq Years
  BY JobsTyped, Basics
<1>8. Seen' = today /\ Origin' = Origin
  BY <1>1 DEF Seen, Origin
<1>9. AggregatorTypeOK'
  <2>1. frozenNet' \in Days
    BY <1>0, <1>2, <1>3 DEF AggregatorTypeOK
  <2>2. baseline' \in [Keys -> Nat]
    BY <1>1, <1>6
  <2>3. DOMAIN netRow' \subseteq Days /\ \A d \in DOMAIN netRow' : netRow'[d] \in Int
    <3>1. \A d \in NetJobs : write.net[d] \in Int
      BY <1>0, <1>1 DEF NetDone
    <3> QED BY <1>0, <1>3, <3>1 DEF AggregatorTypeOK
  <2>4. totalRow' \in [Keys -> Nat \cup {NoVal}]
    <3>1. write.total \in [Keys -> Nat]
      BY <1>0, <1>1 DEF TotalDone
    <3> QED BY <1>1, <3>1
  <2>5. baselineYear' \in Nat
    BY <1>2, <1>5
  <2> QED BY <1>0, <1>1, <1>2, <1>3, <2>1, <2>2, <2>3, <2>4, <2>5 DEF AggregatorTypeOK, LedgerTypeOK
<1>10. Placed'
  <2>1. /\ cutover - 2 <= frozenNet /\ MonthOf(cutover - 2) - 1 <= frozenMonth
        /\ YearOf(cutover - 2) - 1 <= frozenYear /\ cutover <= today
        /\ \A k \in Keys : closedDaily[k] <= today
    BY <1>0 DEF Placed
  <2>2. /\ cutover - 2 <= frozenNet' /\ MonthOf(cutover - 2) - 1 <= frozenMonth'
        /\ YearOf(cutover - 2) - 1 <= frozenYear'
    BY <1>2, <1>4, <1>7, <2>1
  <2>3. YearOf(cutover) - 1 <= FoldedYear /\ YearLast(FoldedYear) <= today
    BY <1>4, <1>5
  <2> QED BY <1>1, <1>2, <1>8, <2>1, <2>2, <2>3 DEF Placed
<1>11. Closed'
  <2>1. SUFFICES ASSUME NEW k \in Keys
                 PROVE  /\ frozenNet' = cutover - 2 \/ frozenNet' <= closedDaily[k]
                        /\ frozenMonth' = MonthOf(cutover - 2) - 1 \/ MonthLast(frozenMonth') <= closedDaily[k]
                        /\ frozenYear' = YearOf(cutover - 2) - 1 \/ YearLast(frozenYear') <= closedDaily[k]
                        /\ FoldedYear = YearOf(cutover) - 1 \/ YearLast(FoldedYear) <= closedDaily[k]
    BY <1>1, <1>2 DEF Closed
  <2>2. /\ frozenNet = cutover - 2 \/ frozenNet <= closedDaily[k]
        /\ frozenMonth = MonthOf(cutover - 2) - 1 \/ MonthLast(frozenMonth) <= closedDaily[k]
        /\ frozenYear = YearOf(cutover - 2) - 1 \/ YearLast(frozenYear) <= closedDaily[k]
        /\ baselineYear = YearOf(cutover) - 1 \/ YearLast(baselineYear) <= closedDaily[k]
    BY <1>0 DEF Closed
  <2>3. \A last \in Int : Freeze(last) => last <= closedDaily[k]
    BY <1>1, FreezeClosed
  <2>4. frozenNet' = frozenNet \/ frozenNet' <= closedDaily[k]
    BY <1>2, <2>3
  <2>5. frozenMonth' = frozenMonth \/ MonthLast(frozenMonth') <= closedDaily[k]
    <3>1. MonthLast(frozenMonth') \in Int
      BY <1>2, MonthOrder
    <3>2. frozenMonth' # frozenMonth => frozenMonth' \in frozenMonth + 1 .. frozenMonth'
      BY <1>2, <1>4
    <3> QED BY <1>2, <2>3, <3>1, <3>2
  <2>6. frozenYear' = frozenYear \/ YearLast(frozenYear') <= closedDaily[k]
    <3>1. YearLast(frozenYear') \in Int
      BY <1>2, YearOrder
    <3>2. frozenYear' # frozenYear => frozenYear' \in frozenYear + 1 .. frozenYear'
      BY <1>2, <1>4
    <3> QED BY <1>2, <2>3, <3>1, <3>2
  <2>7. FoldedYear = baselineYear \/ YearLast(FoldedYear) <= closedDaily[k]
    BY <1>5, <2>3
  <2> QED BY <2>2, <2>4, <2>5, <2>6, <2>7
<1>12. Kept'
  <2>1. ASSUME NEW d \in Days, Needed(d)' PROVE Needed(d)
    <3>1. d \in Int
      BY <1>4
    <3>2. MonthFirst(frozenMonth + 1) \in Int /\ MonthFirst(frozenMonth' + 1) \in Int
          /\ MonthFirst(frozenMonth + 1) <= MonthFirst(frozenMonth' + 1)
      <4>1. frozenMonth + 1 \in Nat /\ frozenMonth' + 1 \in Nat /\ frozenMonth + 1 <= frozenMonth' + 1
        <5>1. frozenMonth \in Nat /\ frozenMonth' \in Nat /\ frozenMonth <= frozenMonth'
          BY <1>2, <1>4
        <5> QED BY <5>1, NextPeriod, Zenon
      <4> QED BY <4>1, MonthOrder
    <3>3. YearFirst(frozenYear + 1) \in Int /\ YearFirst(frozenYear' + 1) \in Int
          /\ YearFirst(frozenYear + 1) <= YearFirst(frozenYear' + 1)
      <4>1. frozenYear + 1 \in Nat /\ frozenYear + 1 # 0 /\ frozenYear' + 1 \in Nat /\ frozenYear' + 1 # 0
            /\ frozenYear + 1 <= frozenYear' + 1
        <5>1. frozenYear \in Nat /\ frozenYear' \in Nat /\ frozenYear <= frozenYear'
          BY <1>2, <1>4
        <5> QED BY <5>1, NextPeriod, Zenon
      <4> QED BY <4>1, YearOrder
    <3>4. YearFirst(baselineYear + 1) \in Int /\ YearFirst(baselineYear' + 1) \in Int
          /\ YearFirst(baselineYear + 1) <= YearFirst(baselineYear' + 1)
      <4>1. baselineYear + 1 \in Nat /\ baselineYear + 1 # 0 /\ baselineYear' + 1 \in Nat /\ baselineYear' + 1 # 0
            /\ baselineYear + 1 <= baselineYear' + 1
        BY <1>2, <1>4, <1>5
      <4> QED BY <4>1, YearOrder
    <3>5. \/ d > frozenNet' \/ d >= MonthFirst(frozenMonth' + 1)
          \/ d >= YearFirst(frozenYear' + 1) \/ d >= YearFirst(baselineYear' + 1)
      BY <2>1 DEF Needed
    <3> QED BY <1>2, <1>4, <3>1, <3>2, <3>3, <3>4, <3>5 DEF Needed
  <2> QED BY <1>0, <1>1, <2>1 DEF Kept
<1>13. Running'
  BY <1>1 DEF Running, NoWrite
<1>14. Collected'
  BY <1>1 DEF Collected, NetDone, MonthDone, YearDone, FoldDone, TotalDone
<1>15. HistoryGrows
  BY <1>1, HistoryStays
<1>16. Bounded'
  <2>1. SUFFICES ASSUME NEW k \in Keys
                 PROVE  /\ \A m \in Months : m > frozenMonth' => monthRow'[k][m] <= MonthSum(k, m, Seen)'
                        /\ \A y \in Years : y > frozenYear' => yearRow'[k][y] <= YearSum(k, y, Seen)'
    BY DEF Bounded
  <2>3. ASSUME NEW m \in Months, m > frozenMonth' PROVE monthRow'[k][m] <= MonthSum(k, m, Seen)'
    <3>1. m > frozenMonth
      BY <1>2, <1>4, <1>7, <2>3
    <3>2. /\ MonthSum(k, m, runDay) \in Nat /\ MonthSum(k, m, today)' \in Nat
          /\ MonthSum(k, m, runDay) <= MonthSum(k, m, today)'
      <4>1. runDay \in Int /\ today \in Int
        BY <1>4
      <4> QED BY <1>1, <1>4, <1>15, <4>1, PeriodSumsMove
    <3>3. monthRow[k][m] \in Nat \cup {NoVal} /\ monthRow[k][m] <= MonthSum(k, m, runDay)
      BY <1>0, <1>4, <3>1 DEF Bounded, AggregatorTypeOK
    <3>4. m \in OpenMonths => write.month[m][k] \in Nat /\ write.month[m][k] <= MonthSum(k, m, runDay)
      BY <1>0, <1>1 DEF MonthDone
    <3>5. MonthSum(k, m, Seen)' = MonthSum(k, m, today)'
      BY <1>1, <1>8 DEF MonthSum
    <3> QED BY <1>3, <3>2, <3>3, <3>4, <3>5 DEF NoVal
  <2>4. ASSUME NEW y \in Years, y > frozenYear' PROVE yearRow'[k][y] <= YearSum(k, y, Seen)'
    <3>1. y > frozenYear
      BY <1>2, <1>4, <1>7, <2>4
    <3>2. /\ YearSum(k, y, runDay) \in Nat /\ YearSum(k, y, today)' \in Nat
          /\ YearSum(k, y, runDay) <= YearSum(k, y, today)'
      <4>1. runDay \in Int /\ today \in Int
        BY <1>4
      <4> QED BY <1>1, <1>4, <1>15, <4>1, PeriodSumsMove
    <3>3. yearRow[k][y] \in Nat \cup {NoVal} /\ yearRow[k][y] <= YearSum(k, y, runDay)
      BY <1>0, <1>4, <3>1 DEF Bounded, AggregatorTypeOK
    <3>4. y \in OpenYears => write.year[y][k] \in Nat /\ write.year[y][k] <= YearSum(k, y, runDay)
      BY <1>0, <1>1 DEF YearDone
    <3>5. YearSum(k, y, Seen)' = YearSum(k, y, today)'
      BY <1>1, <1>8 DEF YearSum
    <3> QED BY <1>3, <3>2, <3>3, <3>4, <3>5 DEF NoVal
  <2> QED BY <2>3, <2>4
<1>17. FrozenExact'
  <2>1. ASSUME NEW k \in Keys, NEW m \in MonthOf(cutover - 2) .. frozenMonth'
        PROVE  IF monthRow'[k][m] = NoVal THEN MonthLast(m) < today - Retention
               ELSE monthRow'[k][m] = SumRows(history[k], MonthFirst(m), MonthLast(m)) + offset.month[k][m]
    <3>1. CASE m <= frozenMonth
      <4>1. m \in MonthOf(cutover - 2) .. frozenMonth
        BY <1>2, <1>4, <1>7, <3>1
      <4>2. m \in Months /\ m \notin OpenMonths
        BY <1>4, <1>7, <4>1 DEF OpenMonths
      <4>3. monthRow'[k][m] = monthRow[k][m]
        BY <1>3, <4>2
      <4> QED BY <1>0, <4>1, <4>3 DEF FrozenExact
    <3>2. CASE m > frozenMonth
      <4>1. m \in frozenMonth + 1 .. frozenMonth'
        BY <1>2, <1>4, <1>7, <3>2
      <4>2. m \in OpenMonths /\ Freeze(MonthLast(m))
        BY <1>2, <4>1
      <4>3. m \in Months /\ MonthLast(m) \in Int
        BY <1>1, <4>2, Jobs
      <4>4. write.month[m][k] \in Nat /\ write.month[m][k] = MonthSum(k, m, MonthLast(m))
        BY <1>0, <1>1, <4>2 DEF MonthDone
      <4>5. minDay(MonthLast(m), MonthLast(m)) = MonthLast(m)
        BY <4>3, MinDay
      <4>6. monthRow'[k][m] = write.month[m][k]
        BY <1>3, <4>2, <4>3
      <4> QED BY <4>4, <4>5, <4>6 DEF MonthSum, NoVal
    <3>3. m \in Int /\ frozenMonth \in Int
      BY <1>4, <1>7
    <3> QED BY <3>1, <3>2, <3>3
  <2>2. ASSUME NEW k \in Keys, NEW y \in YearOf(cutover - 2) .. frozenYear'
        PROVE  IF yearRow'[k][y] = NoVal THEN YearLast(y) < today - Retention
               ELSE yearRow'[k][y] = SumRows(history[k], YearFirst(y), YearLast(y)) + offset.year[k][y]
    <3>1. CASE y <= frozenYear
      <4>1. y \in YearOf(cutover - 2) .. frozenYear
        BY <1>2, <1>4, <1>7, <3>1
      <4>2. y \in Years /\ y \notin OpenYears
        BY <1>4, <1>7, <4>1 DEF OpenYears
      <4>3. yearRow'[k][y] = yearRow[k][y]
        BY <1>3, <4>2
      <4> QED BY <1>0, <4>1, <4>3 DEF FrozenExact
    <3>2. CASE y > frozenYear
      <4>1. y \in frozenYear + 1 .. frozenYear'
        BY <1>2, <1>4, <1>7, <3>2
      <4>2. y \in OpenYears /\ Freeze(YearLast(y))
        BY <1>2, <4>1
      <4>3. y \in Years /\ YearLast(y) \in Int
        BY <1>1, <4>2, Jobs
      <4>4. write.year[y][k] \in Nat /\ write.year[y][k] = YearSum(k, y, YearLast(y))
        BY <1>0, <1>1, <4>2 DEF YearDone
      <4>5. minDay(YearLast(y), YearLast(y)) = YearLast(y)
        BY <4>3, MinDay
      <4>6. yearRow'[k][y] = write.year[y][k]
        BY <1>3, <4>2, <4>3
      <4> QED BY <4>4, <4>5, <4>6 DEF YearSum, NoVal
    <3>3. y \in Int /\ frozenYear \in Int
      BY <1>4, <1>7
    <3> QED BY <3>1, <3>2, <3>3
  <2> QED BY <1>1, <2>1, <2>2 DEF FrozenExact
<1>18. NetFinal'
  <2>1. ASSUME NEW d \in (cutover - 1 .. frozenNet') \ skipped'
        PROVE  IF d \notin DOMAIN netRow' THEN d < today - Retention
               ELSE netRow'[d] = SumRows(history[Export], d, d) - SumRows(history[Import], d, d)
    <3>0. d \in Int /\ cutover - 1 <= d /\ d <= frozenNet' /\ d \notin skipped
      BY <1>1, <1>2, <1>4
    <3>1. CASE d <= frozenNet
      <4>1. d \in (cutover - 1 .. frozenNet) \ skipped /\ d \notin NetJobs
        BY <1>3, <1>4, <3>0, <3>1
      <4>2. /\ d \in DOMAIN netRow' <=> d \in DOMAIN netRow
            /\ d \in DOMAIN netRow => netRow'[d] = netRow[d]
        BY <1>3, <4>1
      <4>3. IF d \notin DOMAIN netRow THEN d < today - Retention
            ELSE netRow[d] = SumRows(history[Export], d, d) - SumRows(history[Import], d, d)
        BY <1>0, <4>1 DEF NetFinal
      <4> QED BY <4>2, <4>3
    <3>2. CASE d > frozenNet
      <4>1. d \in frozenNet + 1 .. frozenNet'
        BY <1>2, <1>4, <3>0, <3>2
      <4>2. d \in NetJobs
        <5>1. DOMAIN write.net = NetJobs
          BY <1>0, <1>1 DEF NetDone
        <5> QED BY <1>1, <2>1, <4>1, <5>1
      <4>3. write.net[d] = SumRows(history[Export], d, d) - SumRows(history[Import], d, d)
        BY <1>0, <1>1, <1>2, <3>0, <4>2 DEF NetDone
      <4> QED BY <1>3, <4>2, <4>3
    <3> QED BY <1>4, <3>0, <3>1, <3>2
  <2> QED BY <1>1, <2>1 DEF NetFinal
<1> QED
  BY <1>9, <1>10, <1>11, <1>12, <1>13, <1>14, <1>16, <1>17, <1>18 DEF CoreInv

-----------------------------------------------------------------------------
\* The first v3 start.

\* The cutover offset makes up for what the rows lack, and is never negative.
LEMMA CutoverOffsetFacts ==
  ASSUME NEW stored \in Nat \cup {NoVal}, NEW sum \in Nat
  PROVE  CutoverOffset(stored, sum) \in Nat /\ stored <= sum + CutoverOffset(stored, sum)
  BY DEF CutoverOffset, NoVal

LEMMA InitInv ==
  ASSUME Init
  PROVE  CoreInv
<1>1. /\ today \in Boot /\ cutover = today
      /\ frozenNet = cutover - 2
      /\ frozenMonth = MonthOf(cutover - 2) - 1 /\ frozenYear = YearOf(cutover - 2) - 1
      /\ baselineYear = YearOf(cutover) - 1
      /\ baseline = [k \in Keys |-> 0] /\ purgedBefore = NoDay /\ netRow = <<>>
      /\ totalRow = [k \in Keys |-> NoVal]
      /\ phase = "idle" /\ runDay = NoDay /\ closedThrough = NoDay /\ write = NoWrite
      /\ history = rows /\ skipped = {}
  BY DEF Init
<1>2. /\ cutover \in Days /\ cutover - 2 \in Days /\ cutover \in Nat \ {0} /\ cutover - 2 \in Nat \ {0}
      /\ MonthOf(cutover - 2) \in Nat /\ MonthOf(cutover - 2) >= 2
      /\ YearOf(cutover - 2) \in Nat /\ YearOf(cutover - 2) >= 2
      /\ YearOf(cutover) \in Nat /\ YearOf(cutover - 2) <= YearOf(cutover)
      /\ YearOf(cutover) - 1 \in Nat /\ Origin \in Nat \ {0}
      /\ YearLast(YearOf(cutover) - 1) = Origin - 1 /\ Origin <= cutover
  BY <1>1, CutoverFacts DEF Origin
<1>a. /\ MonthOf(cutover - 2) \in Nat /\ MonthOf(cutover - 2) >= 2
      /\ frozenMonth = MonthOf(cutover - 2) - 1
  BY <1>1, <1>2
<1>b. /\ YearOf(cutover - 2) \in Nat /\ YearOf(cutover - 2) >= 2
      /\ frozenYear = YearOf(cutover - 2) - 1
  BY <1>1, <1>2
<1>3. Days \subseteq Nat \ {0} /\ Values \subseteq Nat
  BY LedgerAssumption DEF NoDay
<1>4. Months \subseteq Nat \ {0} /\ Years \subseteq Nat \ {0}
  BY <1>3, MonthHolds, YearHolds DEF Months, Years
<1>5. rows \in [Keys -> [Days -> Values \cup {NoVal}]]
  <2>1. PICK old \in [Keys -> [cutover - 2 .. cutover -> Legacy]] :
          rows = [k \in Keys |-> [d \in Days |-> IF d \in cutover - 2 .. cutover THEN old[k][d] ELSE NoVal]]
    BY DEF Init
  <2>2. \A k \in Keys, d \in cutover - 2 .. cutover : old[k][d] \in Values \cup {NoVal}
    BY <2>1, AggregatorAssumption
  <2> QED BY <2>1, <2>2
<1>6. /\ closedDaily \in [Keys -> Days \cup {NoDay}]
      /\ \A k \in Keys : closedDaily[k] <= today
  <2>1. PICK late \in SUBSET Added : closedDaily = [k \in Keys |-> IF k \in late THEN NoDay ELSE cutover - 2]
    BY DEF Init
  <2>2. NoDay <= today /\ cutover - 2 <= today
    BY <1>1, <1>2 DEF NoDay
  <2> QED BY <1>2, <2>1, <2>2
<1>7. /\ monthRow \in [Keys -> [Months -> Nat \cup {NoVal}]]
      /\ yearRow \in [Keys -> [Years -> Nat \cup {NoVal}]]
  <2>1. PICK old \in [Keys -> LegacyPeriod \X LegacyPeriod] :
          /\ monthRow = [k \in Keys |-> [m \in Months |->
                            IF m \in Between(frozenMonth, MonthOf(cutover)) THEN old[k][1] ELSE NoVal]]
          /\ yearRow = [k \in Keys |-> [y \in Years |->
                            IF y \in Between(frozenYear, YearOf(cutover)) THEN old[k][2] ELSE NoVal]]
    BY DEF Init
  <2>2. \A k \in Keys : old[k][1] \in Nat \cup {NoVal} /\ old[k][2] \in Nat \cup {NoVal}
    BY <2>1, AggregatorAssumption
  <2> QED BY <2>1, <2>2
<1>8. ASSUME NEW k \in Keys
      PROVE  /\ rows[k] \in DailyRows
             /\ \A m \in Months : sumDaily(k, MonthFirst(m), minDay(MonthLast(m), cutover)) \in Nat
             /\ \A y \in Years : sumDaily(k, YearFirst(y), minDay(YearLast(y), cutover)) \in Nat
  <2>1. rows[k] \in DailyRows
    <3>1. rows[k] \in [Days -> Values \cup {NoVal}]
      BY <1>5
    <3>2. Values \cup {NoVal} \subseteq Nat \cup {NoVal}
      BY <1>3
    <3> QED BY <3>1, <3>2 DEF DailyRows
  <2>2. cutover \in Int
    BY <1>2
  <2>3. \A m \in Months : MonthFirst(m) \in Int /\ minDay(MonthLast(m), cutover) \in Int
    <3>1. \A m \in Months : MonthFirst(m) \in Int /\ MonthLast(m) \in Int
      BY <1>4, MonthOrder
    <3> QED BY <2>2, <3>1, MinDay
  <2>4. \A y \in Years : YearFirst(y) \in Int /\ minDay(YearLast(y), cutover) \in Int
    <3>1. \A y \in Years : YearFirst(y) \in Int /\ YearLast(y) \in Int
      BY <1>4, YearOrder
    <3> QED BY <2>2, <3>1, MinDay
  <2> QED BY <2>1, <2>3, <2>4, SumRowsNat DEF sumDaily
<1>9. offset = [month |-> [k \in Keys |-> [m \in Months |-> CutoverOffset(monthRow[k][m],
                              sumDaily(k, MonthFirst(m), minDay(MonthLast(m), cutover)))]],
                year  |-> [k \in Keys |-> [y \in Years |-> CutoverOffset(yearRow[k][y],
                              sumDaily(k, YearFirst(y), minDay(YearLast(y), cutover)))]]]
  BY DEF Init
<1>10. ASSUME NEW k \in Keys, NEW m \in Months
       PROVE  /\ offset.month[k][m] \in Nat
              /\ monthRow[k][m] <= sumDaily(k, MonthFirst(m), minDay(MonthLast(m), cutover)) + offset.month[k][m]
  <2>1. monthRow[k][m] \in Nat \cup {NoVal} /\ sumDaily(k, MonthFirst(m), minDay(MonthLast(m), cutover)) \in Nat
    BY <1>7, <1>8
  <2>2. offset.month[k][m] = CutoverOffset(monthRow[k][m], sumDaily(k, MonthFirst(m), minDay(MonthLast(m), cutover)))
    BY <1>9
  <2> QED BY <2>1, <2>2, CutoverOffsetFacts
<1>11. ASSUME NEW k \in Keys, NEW y \in Years
       PROVE  /\ offset.year[k][y] \in Nat
              /\ yearRow[k][y] <= sumDaily(k, YearFirst(y), minDay(YearLast(y), cutover)) + offset.year[k][y]
  <2>1. yearRow[k][y] \in Nat \cup {NoVal} /\ sumDaily(k, YearFirst(y), minDay(YearLast(y), cutover)) \in Nat
    BY <1>7, <1>8
  <2>2. offset.year[k][y] = CutoverOffset(yearRow[k][y], sumDaily(k, YearFirst(y), minDay(YearLast(y), cutover)))
    BY <1>9
  <2> QED BY <2>1, <2>2, CutoverOffsetFacts
<1>12. AggregatorTypeOK
  <2>1. offset \in [month : [Keys -> [Months -> Nat]], year : [Keys -> [Years -> Nat]]]
    <3>1. /\ \A k \in Keys, m \in Months : CutoverOffset(monthRow[k][m],
                   sumDaily(k, MonthFirst(m), minDay(MonthLast(m), cutover))) \in Nat
          /\ \A k \in Keys, y \in Years : CutoverOffset(yearRow[k][y],
                   sumDaily(k, YearFirst(y), minDay(YearLast(y), cutover))) \in Nat
      BY <1>7, <1>8, CutoverOffsetFacts
    <3> QED BY <1>9, <3>1
  <2>2. DOMAIN netRow \subseteq Days /\ \A d \in DOMAIN netRow : netRow[d] \in Int
    <3>1. DOMAIN netRow = {}
      BY <1>1
    <3> QED BY <3>1
  <2>3. frozenMonth \in Nat /\ frozenYear \in Nat /\ baselineYear \in Nat /\ frozenNet \in Days
    <3>1. frozenMonth \in Nat
      BY <1>a
    <3>2. frozenYear \in Nat
      BY <1>b
    <3>3. baselineYear \in Nat /\ frozenNet \in Days
      BY <1>1, <1>2
    <3> QED BY <3>1, <3>2, <3>3
  <2>4. baseline \in [Keys -> Nat] /\ totalRow \in [Keys -> Nat \cup {NoVal}]
    BY <1>1
  <2> QED BY <1>1, <1>2, <1>5, <1>6, <1>7, <2>1, <2>2, <2>3, <2>4 DEF AggregatorTypeOK, LedgerTypeOK
<1>13. Seen = cutover
  BY <1>1 DEF Seen
<1>14. Placed
  <2>1. YearOf(cutover - 2) - 1 <= YearOf(cutover) - 1 /\ Origin - 1 <= cutover
    BY <1>2
  <2>2. cutover <= today /\ cutover - 2 <= frozenNet /\ MonthOf(cutover - 2) - 1 <= frozenMonth
        /\ YearOf(cutover - 2) - 1 <= frozenYear /\ YearOf(cutover) - 1 <= baselineYear
    <3>1. MonthOf(cutover - 2) - 1 <= frozenMonth
      BY <1>a
    <3>2. YearOf(cutover - 2) - 1 <= frozenYear
      BY <1>b
    <3>3. cutover \in Nat /\ cutover = today /\ frozenNet = cutover - 2
      BY <1>1, <1>2
    <3>4. YearOf(cutover) - 1 \in Nat /\ baselineYear = YearOf(cutover) - 1
      BY <1>1, <1>2
    <3> QED BY <3>1, <3>2, <3>3, <3>4
  <2>3. frozenYear <= baselineYear /\ YearLast(baselineYear) <= Seen
    BY <1>1, <1>2, <1>13, <2>1
  <2> QED BY <1>6, <2>2, <2>3 DEF Placed
<1>15. Closed
  BY <1>1 DEF Closed
<1>16. Kept
  BY <1>1 DEF Kept
<1>17. Running /\ Collected
  BY <1>1 DEF Running, NoWrite, Collected, NetDone, MonthDone, YearDone, FoldDone, TotalDone
<1>18. Bounded
  <2>1. SUFFICES ASSUME NEW k \in Keys
                 PROVE  /\ \A m \in Months : monthRow[k][m] <= MonthSum(k, m, Seen)
                        /\ \A y \in Years : yearRow[k][y] <= YearSum(k, y, Seen)
    BY DEF Bounded
  <2>2. history[k] = rows[k]
    BY <1>1
  <2>5. \A m \in Months : monthRow[k][m] <= MonthSum(k, m, Seen)
    BY <1>10, <1>13, <2>2 DEF MonthSum, sumDaily
  <2>6. \A y \in Years : yearRow[k][y] <= YearSum(k, y, Seen)
    BY <1>11, <1>13, <2>2 DEF YearSum, sumDaily
  <2> QED BY <2>5, <2>6
<1>19. FrozenExact
  <2>1. MonthOf(cutover - 2) .. frozenMonth = {}
    BY <1>a
  <2>2. YearOf(cutover - 2) .. frozenYear = {}
    BY <1>b
  <2> QED BY <2>1, <2>2 DEF FrozenExact
<1>20. NetFinal
  <2>1. cutover - 1 .. frozenNet = {}
    BY <1>1, <1>2
  <2> QED BY <2>1 DEF NetFinal
<1> QED
  BY <1>12, <1>14, <1>15, <1>16, <1>17, <1>18, <1>19, <1>20 DEF CoreInv

-----------------------------------------------------------------------------
\* Every step.

LEMMA CoreStep ==
  ASSUME CoreInv, [Next]_vars
  PROVE  CoreInv'
<1>1. ASSUME NEW k \in Keys, NEW d \in Days, NEW v \in Values, StoreRow(k, d, v) PROVE CoreInv'
  BY <1>1, StoreRowMoves, LedgerMovesKeeps
<1>2. ASSUME NEW k \in Keys, NEW d \in Days, StoreClose(k, d) PROVE CoreInv'
  BY <1>2, StoreCloseMoves, LedgerMovesKeeps
<1>3. CASE Midnight
  BY <1>3, MidnightMoves, LedgerMovesKeeps
<1>4. CASE RunStep
  BY <1>4, BeginRunKeeps, NetDaysKeeps, MonthsKeeps, YearsKeeps, TotalsKeeps, WriteKeeps DEF RunStep
<1>5. CASE RunFails
  BY <1>5, RunFailsKeeps
<1>6. CASE cleanupPeriods
  BY <1>6, CleanupKeeps
<1>7. CASE UNCHANGED vars
  <2>1. LedgerMoves
    <3>1. UNCHANGED <<history, offset, today, rows, closedDaily>>
      BY <1>7 DEF vars, past, meta, ledger
    <3>2. HistoryGrows
      BY <3>1, HistoryStays
    <3>3. /\ today \in Days /\ today <= today
          /\ rows \in [Keys -> [Days -> Values \cup {NoVal}]]
          /\ closedDaily \in [Keys -> Days \cup {NoDay}]
          /\ \A k \in Keys : closedDaily[k] <= closedDaily[k] /\ closedDaily[k] <= today
      BY Basics DEF CoreInv, AggregatorTypeOK, LedgerTypeOK, Placed
    <3>4. UNCHANGED <<meta, tables, run, skipped>>
      BY <1>7 DEF vars, past
    <3> QED BY <3>1, <3>2, <3>3, <3>4 DEF LedgerMoves
  <2> QED BY <2>1, LedgerMovesKeeps
<1> QED
  BY <1>1, <1>2, <1>3, <1>4, <1>5, <1>6, <1>7 DEF Next

\* What a step does to the rows and to the baseline.
LEMMA StepFacts ==
  ASSUME CoreInv, [Next]_vars
  PROVE  /\ HistoryGrows /\ UNCHANGED cutover
         /\ \/ WriteComputed /\ history' = history
            \/ UNCHANGED <<baseline, baselineYear>>
<1>1. CASE \E k \in Keys, d \in Days, v \in Values : StoreRow(k, d, v)
  <2>1. LedgerMoves
    BY <1>1, StoreRowMoves
  <2> QED BY <2>1 DEF LedgerMoves, meta
<1>2. CASE \E k \in Keys, d \in Days : StoreClose(k, d)
  <2>1. LedgerMoves
    BY <1>2, StoreCloseMoves
  <2> QED BY <2>1 DEF LedgerMoves, meta
<1>3. CASE Midnight
  <2>1. LedgerMoves
    BY <1>3, MidnightMoves
  <2> QED BY <2>1 DEF LedgerMoves, meta
<1>4. CASE RunStep \/ RunFails \/ cleanupPeriods \/ UNCHANGED vars
  <2>1. /\ UNCHANGED <<history, offset, cutover>>
        /\ WriteComputed \/ UNCHANGED <<baseline, baselineYear>>
    BY <1>4 DEF RunStep, BeginRun, netDays, months, years, totals, WriteComputed, RunFails, cleanupPeriods,
                vars, ledger, meta, past
  <2>2. HistoryGrows
    BY <2>1, HistoryStays
  <2> QED BY <2>1, <2>2
<1> QED
  BY <1>1, <1>2, <1>3, <1>4 DEF Next

-----------------------------------------------------------------------------
\* The baseline.

\* What the rows from a day on to the last folded year sum up to.
Counted(k, from) == SumRows(history[k], from, YearLast(baselineYear))

\* None of these rows can change any more.
Settled(k, from) ==
    \/ YearLast(baselineYear) < from
    \/ YearLast(baselineYear) <= closedDaily[k]
    \/ YearLast(baselineYear) < cutover - 1

\* A baseline that counts settled rows stays exact, any other one too low.
LEMMA BaselineStep ==
  ASSUME CoreInv, [Next]_vars, NEW k \in Keys, NEW from \in Int, from <= YearLast(baselineYear) + 1
  PROVE  /\ Counted(k, from) \in Nat /\ Counted(k, from)' \in Nat
         /\ baseline[k] = Counted(k, from) /\ Settled(k, from) => baseline'[k] = Counted(k, from)'
         /\ baseline[k] <= Counted(k, from) => baseline'[k] <= Counted(k, from)'
<1>1. /\ history[k] \in DailyRows /\ YearLast(baselineYear) \in Nat /\ baselineYear \in Nat
      /\ baseline[k] \in Nat
  BY Basics DEF CoreInv, AggregatorTypeOK
<1>2. Counted(k, from) \in Nat
  BY <1>1, SumRowsNat DEF Counted
<1>3. CASE WriteComputed /\ history' = history
  <2>1. /\ FoldedYear \in Nat /\ YearLast(FoldedYear) \in Nat
        /\ YearLast(baselineYear) <= YearLast(FoldedYear)
        /\ Folded(k) = baseline[k] + SumRows(history[k], YearLast(baselineYear) + 1, YearLast(FoldedYear))
    BY <1>3, FoldRange, FoldedSum DEF WriteComputed
  <2>2. baseline'[k] = Folded(k) /\ baselineYear' = FoldedYear
    BY <1>3 DEF WriteComputed
  <2>3. SumRows(history[k], from, YearLast(FoldedYear))
          = Counted(k, from) + SumRows(history[k], YearLast(baselineYear) + 1, YearLast(FoldedYear))
    BY <1>1, <2>1, SumRowsSplit DEF Counted
  <2>4. SumRows(history[k], YearLast(baselineYear) + 1, YearLast(FoldedYear)) \in Nat
    BY <1>1, <2>1, SumRowsNat
  <2>5. Counted(k, from)' = SumRows(history[k], from, YearLast(FoldedYear))
    BY <1>3, <2>2 DEF Counted
  <2> QED BY <1>1, <1>2, <2>1, <2>2, <2>3, <2>4, <2>5
<1>4. CASE UNCHANGED <<baseline, baselineYear>>
  <2> DEFINE last == YearLast(baselineYear)
  <2>1. last \in Int /\ HistoryGrows
    BY <1>1, StepFacts
  <2>2. Counted(k, from) = SumRows(history[k], from, last) /\ Counted(k, from)' = SumRows(history'[k], from, last)
    BY <1>4 DEF Counted
  <2>3. Settled(k, from) <=> last < from \/ last <= closedDaily[k] \/ last < cutover - 1
    BY DEF Settled
  <2> HIDE DEF last
  <2>4. /\ SumRows(history'[k], from, last) \in Nat
        /\ SumRows(history[k], from, last) <= SumRows(history'[k], from, last)
        /\ last <= closedDaily[k] \/ last < cutover - 1 =>
              SumRows(history'[k], from, last) = SumRows(history[k], from, last)
        /\ last < from => SumRows(history'[k], from, last) = SumRows(history[k], from, last)
    BY <2>1, SumsMove
  <2>5. Settled(k, from) => Counted(k, from)' = Counted(k, from)
    BY <2>2, <2>3, <2>4
  <2>6. Counted(k, from)' \in Nat /\ Counted(k, from) <= Counted(k, from)'
    BY <2>2, <2>4
  <2>7. baseline'[k] = baseline[k]
    BY <1>4
  <2> QED BY <1>1, <1>2, <2>5, <2>6, <2>7
<1> QED
  BY <1>3, <1>4, StepFacts

\* The rows since the year of the cutover are settled, and so are all rows when
\* the cutover was not on the first of January: no poll writes that far back.
LEMMA BaselineSettled ==
  ASSUME CoreInv, NEW k \in Keys
  PROVE  /\ Settled(k, Origin)
         /\ Origin # cutover => Settled(k, 1)
         /\ Origin \in Nat /\ 1 <= Origin /\ Origin <= YearLast(baselineYear) + 1
<1>1. /\ Origin \in Nat \ {0} /\ Origin <= cutover /\ cutover \in Nat
      /\ YearLast(baselineYear) \in Nat /\ YearLast(baselineYear) >= Origin - 1
  BY Basics
<1>2. YearLast(baselineYear) = Origin - 1 \/ YearLast(baselineYear) <= closedDaily[k]
  BY FrozenClosed
<1> QED
  BY <1>1, <1>2 DEF Settled

-----------------------------------------------------------------------------
\* The baseline and the totals of a server.

\* The baseline counts every day of the folded years.
BaselineCounts == \A k \in Keys : baseline[k] = Counted(k, Origin)

\* No total, stored or computed, is above what the ledger holds, and a run does
\* not compute less than is stored.
TotalsBounded ==
    \A k \in Keys :
        /\ totalRow[k] <= SumRows(history[k], Origin, Seen)
        /\ phase = "write" => /\ totalRow[k] <= write.total[k]
                              /\ write.total[k] <= SumRows(history[k], Origin, runDay)

AggregatorInv == CoreInv /\ BaselineCounts /\ TotalsBounded

\* A step that neither computes nor writes the totals.
LEMMA TotalsStay ==
  ASSUME CoreInv, TotalsBounded, HistoryGrows, UNCHANGED <<totalRow, cutover>>,
         Seen' \in Nat, Seen <= Seen',
         phase' = "write" => phase = "write" /\ write'.total = write.total /\ runDay' = runDay
  PROVE  TotalsBounded'
<1>1. /\ Origin' = Origin /\ Origin \in Nat /\ Seen \in Nat /\ runDay \in Nat
  BY Basics DEF Origin
<1> SUFFICES ASSUME NEW k \in Keys
             PROVE  /\ totalRow[k] <= SumRows(history'[k], Origin, Seen')
                    /\ phase' = "write" => /\ totalRow[k] <= write'.total[k]
                                           /\ write'.total[k] <= SumRows(history'[k], Origin, runDay')
  BY <1>1 DEF TotalsBounded
<1>2. /\ totalRow[k] \in Nat \cup {NoVal} /\ totalRow[k] <= SumRows(history[k], Origin, Seen)
      /\ phase = "write" => /\ write.total[k] \in Nat /\ totalRow[k] <= write.total[k]
                            /\ write.total[k] <= SumRows(history[k], Origin, runDay)
  BY DEF CoreInv, AggregatorTypeOK, Collected, TotalDone, TotalsBounded
<1>3. SumRows(history[k], Origin, Seen) <= SumRows(history'[k], Origin, Seen')
  <2>1. history[k] \in DailyRows
    BY Basics
  <2>2. history'[k] \in DailyRows
    <3>1. history'[k] \in [Days -> Values \cup {NoVal}]
      BY DEF HistoryGrows
    <3>2. Values \cup {NoVal} \subseteq Nat \cup {NoVal}
      BY LedgerAssumption
    <3> QED BY <3>1, <3>2 DEF DailyRows
  <2>3. \A d \in Days : Origin <= d /\ d <= Seen => history[k][d] <= history'[k][d]
    BY DEF HistoryGrows
  <2>4. Origin \in Int /\ Seen \in Int /\ Seen' \in Int
    BY <1>1
  <2> QED BY <2>1, <2>2, <2>3, <2>4, SumRowsGrows
<1>4. /\ SumRows(history[k], Origin, Seen) \in Nat
      /\ SumRows(history[k], Origin, runDay) \in Nat /\ SumRows(history'[k], Origin, runDay) \in Nat
      /\ SumRows(history[k], Origin, runDay) <= SumRows(history'[k], Origin, runDay)
  <2>1. Origin \in Int /\ Seen \in Int /\ runDay \in Int
    BY <1>1
  <2>2. SumRows(history[k], Origin, Seen) \in Nat
    BY <2>1, SumsMove
  <2> QED BY <2>1, <2>2, SumsMove
<1>5. SumRows(history'[k], Origin, Seen') \in Nat
  <2>1. Origin \in Int /\ Seen' \in Int
    BY <1>1
  <2> QED BY <2>1, SumsMove
<1> QED
  BY <1>2, <1>3, <1>4, <1>5 DEF NoVal

\* totals: the baseline, the folded years and the days since are all days.
LEMMA TotalsComputed ==
  ASSUME AggregatorInv, totals
  PROVE  TotalsBounded'
<1>1. /\ CoreInv /\ phase = "totals" /\ phase' = "write" /\ phase # "idle" /\ RunReads
      /\ write' = [write EXCEPT !.total =
            [k \in Keys |-> Folded(k) + sumDaily(k, YearFirst(FoldedYear + 1), runDay)]]
  BY DEF totals, RunReads, StoreStays, AggregatorInv
<1>2. /\ history' = history /\ totalRow' = totalRow /\ Origin' = Origin /\ runDay' = runDay
      /\ runDay \in Nat /\ Seen = runDay
  BY <1>1, RunReadsKeeps
<1>3. Seen' = runDay
  BY <1>1, <1>2 DEF Seen
<1>4. write'.total = [k \in Keys |-> Folded(k) + sumDaily(k, YearFirst(FoldedYear + 1), runDay)]
  <2>1. write = [net |-> write.net, month |-> write.month, year |-> write.year,
                 fold |-> write.fold, total |-> write.total]
    BY <1>1 DEF CoreInv, Running
  <2> QED BY <1>1, <2>1
<1>5. ASSUME NEW k \in Keys
      PROVE  /\ write'.total[k] = SumRows(history[k], Origin, runDay)
             /\ SumRows(history[k], Origin, runDay) \in Nat
             /\ totalRow[k] <= SumRows(history[k], Origin, runDay)
  <2>1. /\ YearLast(FoldedYear) \in Nat /\ YearLast(FoldedYear) <= runDay
        /\ YearFirst(FoldedYear + 1) = YearLast(FoldedYear) + 1
        /\ YearLast(baselineYear) <= YearLast(FoldedYear)
    BY <1>1, FoldRange
  <2>2. /\ history[k] \in DailyRows /\ Origin \in Nat /\ YearLast(baselineYear) \in Nat
        /\ YearLast(baselineYear) >= Origin - 1 /\ baselineYear \in Nat
    BY <1>1, Basics
  <2>3. Needed(YearFirst(FoldedYear + 1))
    <3>1. YearFirst(baselineYear + 1) = YearLast(baselineYear) + 1
      BY <2>2, YearOrder
    <3>2. YearFirst(FoldedYear + 1) >= YearFirst(baselineYear + 1)
      BY <2>1, <2>2, <3>1
    <3> QED BY <3>2 DEF Needed
  <2>4. sumDaily(k, YearFirst(FoldedYear + 1), runDay)
          = SumRows(history[k], YearLast(FoldedYear) + 1, runDay)
    <3>1. YearFirst(FoldedYear + 1) \in Int
      BY <2>1
    <3>2. sumDaily(k, YearFirst(FoldedYear + 1), runDay) = SumRows(history[k], YearFirst(FoldedYear + 1), runDay)
      BY <1>1, <2>3, <3>1, SumKept
    <3> QED BY <2>1, <3>2
  <2>5. Folded(k) = SumRows(history[k], Origin, YearLast(FoldedYear))
    <3>1. Folded(k) = baseline[k] + SumRows(history[k], YearLast(baselineYear) + 1, YearLast(FoldedYear))
      BY <1>1, FoldedSum
    <3>2. baseline[k] = SumRows(history[k], Origin, YearLast(baselineYear))
      BY DEF AggregatorInv, BaselineCounts, Counted
    <3> QED BY <2>1, <2>2, <3>1, <3>2, SumRowsSplit
  <2>6. SumRows(history[k], Origin, runDay)
          = SumRows(history[k], Origin, YearLast(FoldedYear))
              + SumRows(history[k], YearLast(FoldedYear) + 1, runDay)
    BY <1>2, <2>1, <2>2, SumRowsSplit
  <2>7. SumRows(history[k], Origin, runDay) \in Nat
    BY <1>2, <2>2, SumRowsNat
  <2>8. totalRow[k] <= SumRows(history[k], Origin, runDay)
    BY <1>2 DEF AggregatorInv, TotalsBounded
  <2> QED BY <1>4, <2>4, <2>5, <2>6, <2>7, <2>8
<1>6. \A k \in Keys : SumRows(history[k], Origin, runDay) <= SumRows(history[k], Origin, runDay)
  BY <1>5
<1> QED
  BY <1>2, <1>3, <1>5, <1>6 DEF TotalsBounded

\* WriteComputed stores what totals has computed.
LEMMA TotalsWritten ==
  ASSUME AggregatorInv, WriteComputed
  PROVE  TotalsBounded'
<1>1. /\ phase = "write" /\ phase' = "idle" /\ totalRow' = write.total
      /\ history' = history /\ cutover' = cutover /\ today' = today /\ CoreInv
  BY DEF WriteComputed, ledger, AggregatorInv
<1>2. Origin' = Origin /\ Seen' = today
  BY <1>1 DEF Origin, Seen
<1>3. /\ Origin \in Nat /\ today \in Nat /\ runDay \in Nat /\ runDay <= today
  BY <1>1, Basics DEF CoreInv, Running
<1>4. ASSUME NEW k \in Keys PROVE write.total[k] <= SumRows(history[k], Origin, today)
  <2>1. write.total[k] \in Nat /\ write.total[k] <= SumRows(history[k], Origin, runDay)
    BY <1>1 DEF AggregatorInv, CoreInv, Collected, TotalDone, TotalsBounded
  <2>2. history[k] \in DailyRows
    BY <1>1, Basics
  <2>3. SumRows(history[k], Origin, runDay) \in Nat /\ SumRows(history[k], Origin, today) \in Nat
    BY <1>3, <2>2, SumRowsNat
  <2>4. \A d \in Days : history[k][d] <= history[k][d]
    <3>1. \A d \in Days : history[k][d] \in Int
      BY <2>2 DEF DailyRows, NoVal
    <3> QED BY <3>1
  <2>5. SumRows(history[k], Origin, runDay) <= SumRows(history[k], Origin, today)
    BY <1>3, <2>2, <2>4, SumRowsGrows
  <2> QED BY <2>1, <2>3, <2>5
<1> QED
  BY <1>1, <1>2, <1>4 DEF TotalsBounded

LEMMA StepInv ==
  ASSUME AggregatorInv, [Next]_vars
  PROVE  AggregatorInv'
<1>1. CoreInv /\ CoreInv'
  BY CoreStep DEF AggregatorInv
<1>2. /\ HistoryGrows /\ cutover' = cutover /\ Origin' = Origin
  BY <1>1, StepFacts DEF Origin
<1>3. BaselineCounts'
  <2>1. PICK first \in Int : first = Origin
    BY <1>1, Basics
  <2>2. ASSUME NEW k \in Keys PROVE baseline'[k] = Counted(k, first)'
    <3>1. Settled(k, first) /\ first <= YearLast(baselineYear) + 1
      BY <1>1, <2>1, BaselineSettled
    <3>2. baseline[k] = Counted(k, first)
      BY <2>1 DEF AggregatorInv, BaselineCounts, Counted
    <3> QED BY <1>1, <3>1, <3>2, BaselineStep
  <2> QED BY <1>2, <2>1, <2>2 DEF BaselineCounts, Counted
<1>4. TotalsBounded'
  <2>1. CASE totals
    BY <2>1, TotalsComputed
  <2>2. CASE WriteComputed
    BY <2>2, TotalsWritten
  <2>3. CASE ~totals /\ ~WriteComputed
    <3>1. Seen \in Nat /\ Seen' \in Nat /\ Seen <= today /\ today \in Nat
      <4>1. Seen \in Nat /\ Seen <= today /\ today \in Nat
        BY <1>1, Basics
      <4>2. today' \in Days /\ runDay' \in Days \cup {NoDay}
        BY <1>1 DEF CoreInv, AggregatorTypeOK, LedgerTypeOK
      <4>3. Days \subseteq Nat /\ NoDay \in Nat
        BY LedgerAssumption DEF NoDay
      <4> QED BY <4>1, <4>2, <4>3 DEF Seen
    <3>2. CASE BeginRun
      <4>1. phase = "idle" /\ phase' = "net" /\ runDay' = today /\ totalRow' = totalRow
        BY <3>2 DEF BeginRun, tables
      <4> QED BY <1>1, <1>2, <3>1, <4>1, TotalsStay DEF Seen, AggregatorInv
    <3>3. CASE netDays \/ months \/ years
      <4>1. phase # "idle" /\ phase' \in {"months", "years", "totals"} /\ runDay' = runDay /\ totalRow' = totalRow
        BY <3>3 DEF netDays, months, years, tables
      <4>2. Seen' = Seen /\ Seen <= Seen'
        BY <3>1, <4>1 DEF Seen
      <4> QED BY <1>1, <1>2, <3>1, <4>1, <4>2, TotalsStay DEF AggregatorInv
    <3>4. CASE RunFails
      <4>1. phase' = "idle" /\ today' = today /\ totalRow' = totalRow
        BY <3>4 DEF RunFails, ledger, tables
      <4>2. Seen <= Seen'
        BY <3>1, <4>1 DEF Seen
      <4> QED BY <1>1, <1>2, <3>1, <4>1, <4>2, TotalsStay DEF AggregatorInv
    <3>5. CASE UNCHANGED run /\ totalRow' = totalRow
      <4>1. phase' = phase /\ write' = write /\ runDay' = runDay
        BY <3>5 DEF run
      <4>2. today <= today'
        <5>1. today' = today \/ today' > today
          BY DEF Next, RunStep, StoreRow, StoreClose, Midnight, WritePoll, DayPasses, BeginRun, netDays,
                 months, years, totals, WriteComputed, RunFails, cleanupPeriods, vars, ledger
        <5>2. today' \in Nat
          BY <1>1, LedgerAssumption DEF CoreInv, AggregatorTypeOK, LedgerTypeOK
        <5> QED BY <3>1, <5>1, <5>2
      <4>3. Seen <= Seen'
        BY <3>1, <4>1, <4>2 DEF Seen
      <4> QED BY <1>1, <1>2, <3>1, <3>5, <4>1, <4>3, TotalsStay DEF AggregatorInv
    <3>6. \/ BeginRun \/ netDays \/ months \/ years \/ RunFails
          \/ UNCHANGED run /\ totalRow' = totalRow
      BY <2>3 DEF Next, RunStep, StoreRow, StoreClose, Midnight, cleanupPeriods, vars, tables
    <3> QED BY <3>2, <3>3, <3>4, <3>5, <3>6
  <2> QED BY <2>1, <2>2, <2>3
<1> QED
  BY <1>1, <1>3, <1>4 DEF AggregatorInv

\* The first v3 start: nothing is folded and no total stored.
LEMMA ServerInit ==
  ASSUME Init
  PROVE  AggregatorInv
<1>1. CoreInv
  BY InitInv
<1>2. /\ baseline = [k \in Keys |-> 0] /\ baselineYear = YearOf(cutover) - 1
      /\ totalRow = [k \in Keys |-> NoVal] /\ phase = "idle"
  BY DEF Init
<1>3. /\ Origin \in Nat /\ Seen \in Nat /\ YearLast(YearOf(cutover) - 1) = Origin - 1
      /\ \A k \in Keys : history[k] \in DailyRows
  BY <1>1, Basics
<1>4. \A k \in Keys : Counted(k, Origin) = 0
  BY <1>2, <1>3, SumRowsEmpty DEF Counted
<1>5. \A k \in Keys : SumRows(history[k], Origin, Seen) \in Nat
  BY <1>3, SumRowsNat
<1> QED
  BY <1>1, <1>2, <1>4, <1>5 DEF AggregatorInv, BaselineCounts, TotalsBounded, NoVal

-----------------------------------------------------------------------------
\* Theorems.

\* The inductive invariant: what is frozen is closed, what is computed of open
\* periods is behind the ledger, and no row that is still needed is deleted.
THEOREM AggregatorInvariant == Spec => []AggregatorInv
<1>1. Init => AggregatorInv
  BY ServerInit
<1>2. AggregatorInv /\ [Next]_vars => AggregatorInv'
  BY StepInv
<1> QED
  BY <1>1, <1>2, PTL DEF Spec

\* The meta and computed tables hold what their columns allow, in particular no
\* negative offset, month, year or total (EnsureCutover, WriteComputed,
\* cleanupPeriods).
THEOREM AggregatorTypes == Spec => []AggregatorTypeOK
<1>1. AggregatorInv => AggregatorTypeOK
  BY DEF AggregatorInv, CoreInv
<1> QED
  BY <1>1, AggregatorInvariant, PTL

\* A frozen month or year holds what its days ended with and its offset, until
\* retention removes it (BuildPlan, WriteComputed, cleanupPeriods).
THEOREM FrozenPeriodsExact == Spec => []FrozenExact
<1>1. AggregatorInv => FrozenExact
  BY DEF AggregatorInv, CoreInv
<1> QED
  BY <1>1, AggregatorInvariant, PTL

\* A net day a run has frozen is the difference of the final rows (netDays).
THEOREM NetDaysFinal == Spec => []NetFinal
<1>1. AggregatorInv => NetFinal
  BY DEF AggregatorInv, CoreInv
<1> QED
  BY <1>1, AggregatorInvariant, PTL

\* Every closed year is folded into the baseline once and completely, and no
\* total is above what was ever stored (applyFold, totals).
THEOREM BaselineIsExact == Spec => []BaselineExact
<1>1. ASSUME AggregatorInv PROVE BaselineExact
  <2>1. SUFFICES ASSUME NEW k \in Keys
                 PROVE  totalRow[k] <= SumRows(history[k], Origin, today)
    BY <1>1 DEF BaselineExact, AggregatorInv, BaselineCounts, Counted, Origin
  <2>2. /\ history[k] \in DailyRows /\ Origin \in Int /\ Seen \in Int /\ today \in Int /\ Seen <= today
    BY <1>1, Basics DEF AggregatorInv
  <2>3. totalRow[k] \in Nat \cup {NoVal} /\ totalRow[k] <= SumRows(history[k], Origin, Seen)
    BY <1>1 DEF AggregatorInv, CoreInv, AggregatorTypeOK, TotalsBounded
  <2>4. SumRows(history[k], Origin, Seen) \in Nat /\ SumRows(history[k], Origin, today) \in Nat
    BY <2>2, SumRowsNat
  <2>5. SumRows(history[k], Origin, Seen) <= SumRows(history[k], Origin, today)
    <3>1. \A d \in Days : history[k][d] <= history[k][d]
      <4>1. \A d \in Days : history[k][d] \in Int
        BY <2>2 DEF DailyRows, NoVal
      <4> QED BY <4>1
    <3> QED BY <2>2, <3>1, SumRowsGrows
  <2> QED BY <2>3, <2>4, <2>5 DEF NoVal
<1> QED
  BY <1>1, AggregatorInvariant, PTL

\* No step makes a stored month, year or total smaller: what a run writes is at
\* least what an earlier one has stored (CleanupAll: "computed values therefore
\* never shrink").
THEOREM ComputedValuesGrow == Spec => ComputedNeverShrink
<1> DEFINE Grows == \A k \in Keys :
                       /\ totalRow'[k] >= totalRow[k]
                       /\ \A m \in Months : monthRow'[k][m] # NoVal => monthRow'[k][m] >= monthRow[k][m]
                       /\ \A y \in Years : yearRow'[k][y] # NoVal => yearRow'[k][y] >= yearRow[k][y]
<1>1. ASSUME AggregatorInv, [Next]_vars PROVE [Grows]_vars
  <2>1. SUFFICES ASSUME NEW k \in Keys
                 PROVE  /\ totalRow'[k] >= totalRow[k]
                        /\ \A m \in Months : monthRow'[k][m] # NoVal => monthRow'[k][m] >= monthRow[k][m]
                        /\ \A y \in Years : yearRow'[k][y] # NoVal => yearRow'[k][y] >= yearRow[k][y]
    OBVIOUS
  <2>2. /\ totalRow[k] \in Int
        /\ \A m \in Months : monthRow[k][m] \in Int
        /\ \A y \in Years : yearRow[k][y] \in Int
    BY <1>1 DEF AggregatorInv, CoreInv, AggregatorTypeOK, NoVal
  <2>3. CASE UNCHANGED tables
    BY <2>2, <2>3 DEF tables
  <2>4. CASE cleanupPeriods
    <3>1. /\ totalRow' = totalRow
          /\ \A m \in Months : monthRow'[k][m] \in {NoVal, monthRow[k][m]}
          /\ \A y \in Years : yearRow'[k][y] \in {NoVal, yearRow[k][y]}
      BY <2>4 DEF cleanupPeriods
    <3> QED BY <2>2, <3>1
  <2>5. CASE WriteComputed
    <3>1. phase = "write" /\ totalRow' = write.total
      BY <2>5 DEF WriteComputed
    <3>2. /\ write.total[k] \in Nat /\ totalRow[k] <= write.total[k]
          /\ \A m \in OpenMonths : write.month[m][k] \in Nat /\ monthRow[k][m] <= write.month[m][k]
          /\ \A y \in OpenYears : write.year[y][k] \in Nat /\ yearRow[k][y] <= write.year[y][k]
      BY <1>1, <3>1 DEF AggregatorInv, CoreInv, Collected, MonthDone, YearDone, TotalDone, TotalsBounded
    <3>3. /\ \A m \in Months : monthRow'[k][m] = IF m \in OpenMonths THEN write.month[m][k] ELSE monthRow[k][m]
          /\ \A y \in Years : yearRow'[k][y] = IF y \in OpenYears THEN write.year[y][k] ELSE yearRow[k][y]
      BY <1>1, <2>5, WriteRows DEF AggregatorInv
    <3> QED BY <2>2, <3>1, <3>2, <3>3
  <2>6. UNCHANGED tables \/ cleanupPeriods \/ WriteComputed
    BY <1>1 DEF Next, vars, RunStep, StoreRow, StoreClose, Midnight, BeginRun, netDays, months, years,
                totals, RunFails
  <2> QED BY <2>3, <2>4, <2>5, <2>6
<1> QED
  BY <1>1, AggregatorInvariant, PTL DEF Spec, ComputedNeverShrink

-----------------------------------------------------------------------------
\* The maintenance job.

\* Retention has deleted no row from the day on it has noted.
Unpurged == \A k \in Keys, d \in Days : purgedBefore <= d => rows[k][d] = history[k][d]

BackfillInv == CoreInv /\ Unpurged /\ countedFrom \in {1, Origin} /\ BaselineSound

\* The aggregator, the poller and cleanup keep what the job relies on.
LEMMA UnpurgedStep ==
  ASSUME CoreInv, Unpurged, [Next]_vars
  PROVE  Unpurged'
<1>1. CASE LedgerMoves
  BY <1>1 DEF LedgerMoves, meta, Unpurged
<1>2. CASE UNCHANGED <<rows, history, purgedBefore>>
  BY <1>2 DEF Unpurged
<1>3. CASE cleanupPeriods
  <2> DEFINE cutoff == minDay(today - Retention, firstOpenDay)
             old == {d \in Days : d < cutoff /\ \E k \in Keys : rows[k][d] # NoVal}
                    \cup {d \in DOMAIN netRow : d < cutoff}
  <2>1. /\ firstOpenDay # NoDay /\ cutoff > purgedBefore
        /\ rows' = [k \in Keys |-> [d \in Days |-> IF d < cutoff THEN NoVal ELSE rows[k][d]]]
        /\ purgedBefore' = IF old # {} THEN cutoff ELSE purgedBefore
        /\ history' = history
    BY <1>3 DEF cleanupPeriods, past
  <2>2. cutoff \in Nat
    <3> HIDE DEF cutoff
    <3>1. cutoff = minDay(today - Retention, firstOpenDay)
      BY DEF cutoff
    <3> QED BY <2>1, <3>1, CutoffFacts
  <2>3. purgedBefore \in Nat /\ Days \subseteq Nat
    BY LedgerAssumption DEF CoreInv, AggregatorTypeOK, NoDay
  <2>4. ASSUME NEW k \in Keys, NEW d \in Days, purgedBefore' <= d PROVE rows'[k][d] = history[k][d]
    <3>1. CASE old # {}
      <4>1. ~(d < cutoff) /\ purgedBefore <= d
        <5> HIDE DEF cutoff, old
        <5> QED BY <2>1, <2>2, <2>3, <2>4, <3>1
      <4> QED BY <2>1, <4>1 DEF Unpurged
    <3>2. CASE old = {}
      <4>1. d < cutoff => rows[k][d] = NoVal
        BY <3>2
      <4>2. rows'[k][d] = rows[k][d]
        BY <2>1, <4>1
      <4>3. purgedBefore <= d
        BY <2>1, <2>4, <3>2
      <4> QED BY <4>2, <4>3 DEF Unpurged
    <3> QED BY <3>1, <3>2
  <2> QED BY <2>1, <2>4 DEF Unpurged
<1>4. LedgerMoves \/ UNCHANGED <<rows, history, purgedBefore>> \/ cleanupPeriods
  <2>1. CASE \E k \in Keys, d \in Days, v \in Values : StoreRow(k, d, v)
    BY <2>1, StoreRowMoves
  <2>2. CASE \E k \in Keys, d \in Days : StoreClose(k, d)
    BY <2>2, StoreCloseMoves
  <2>3. CASE Midnight
    BY <2>3, MidnightMoves
  <2>4. CASE RunStep \/ RunFails \/ UNCHANGED vars
    BY <2>4 DEF RunStep, BeginRun, netDays, months, years, totals, WriteComputed, RunFails, vars, ledger,
                meta, past
  <2> QED BY <2>1, <2>2, <2>3, <2>4 DEF Next
<1> QED
  BY <1>1, <1>2, <1>3, <1>4

\* So the baseline stays what the last job has made it count.
LEMMA ServerStep ==
  ASSUME BackfillInv, [Next]_vars, UNCHANGED countedFrom
  PROVE  BackfillInv'
<1>1. CoreInv /\ CoreInv' /\ Unpurged'
  BY CoreStep, UnpurgedStep DEF BackfillInv
<1>2. Origin' = Origin /\ cutover' = cutover
  BY <1>1, StepFacts DEF Origin
<1>3. PICK from \in Int : from = countedFrom /\ from \in {1, Origin}
  BY <1>1, Basics DEF BackfillInv
<1>4. ASSUME NEW k \in Keys
      PROVE  /\ baseline'[k] <= Counted(k, from)'
             /\ (from = 1 /\ cutover = Origin) \/ baseline'[k] = Counted(k, from)'
  <2>1. /\ baseline[k] <= Counted(k, from)
        /\ (from = 1 /\ cutover = Origin) \/ baseline[k] = Counted(k, from)
    BY <1>3 DEF BackfillInv, BaselineSound, Counted, Origin
  <2>2. /\ from <= YearLast(baselineYear) + 1
        /\ ~(from = 1 /\ cutover = Origin) => Settled(k, from)
    <3>1. /\ Settled(k, Origin)
          /\ Origin # cutover => Settled(k, 1)
          /\ Origin \in Nat /\ 1 <= Origin /\ Origin <= YearLast(baselineYear) + 1
      BY <1>1, BaselineSettled
    <3>2. YearLast(baselineYear) \in Nat
      BY <1>1, Basics
    <3>3. CASE from = Origin
      BY <3>1, <3>3
    <3>4. CASE from = 1
      <4>1. from <= YearLast(baselineYear) + 1
        BY <3>2, <3>4
      <4>2. cutover # Origin => Settled(k, from)
        BY <3>1, <3>4
      <4> QED BY <3>4, <4>1, <4>2
    <3> QED BY <1>3, <3>3, <3>4
  <2> QED BY <1>1, <2>1, <2>2, BaselineStep
<1>5. BaselineSound'
  BY <1>2, <1>3, <1>4 DEF BaselineSound, Counted, Origin
<1> QED
  BY <1>1, <1>2, <1>5 DEF BackfillInv

\* Years before the first one begin before the others too.
LEMMA YearFirstOrder ==
  ASSUME NEW y \in Int, NEW z \in Int, y <= z
  PROVE  YearFirst(y) \in Int /\ YearFirst(z) \in Int /\ YearFirst(y) <= YearFirst(z)
<1>1. DaysPerMonth \in Nat /\ MonthsPerYear \in Nat
  BY AggregatorAssumption
<1> DEFINE p == (y - 1) * MonthsPerYear
           q == (z - 1) * MonthsPerYear
<1>2. p \in Int /\ q \in Int /\ p <= q
  BY <1>1, TimesMonotone
<1>3. /\ YearFirst(y) = ((p + 1) - 1) * DaysPerMonth + 1
      /\ YearFirst(z) = ((q + 1) - 1) * DaysPerMonth + 1
  BY DEF YearFirst, MonthFirst
<1> HIDE DEF p, q
<1>4. (p + 1) - 1 = p /\ (q + 1) - 1 = q
  BY <1>2
<1>5. p * DaysPerMonth \in Int /\ q * DaysPerMonth \in Int /\ p * DaysPerMonth <= q * DaysPerMonth
  BY <1>1, <1>2, TimesMonotone
<1> QED
  BY <1>3, <1>4, <1>5

\* checkPurged: the job finds every row it sums.
LEMMA JobRows ==
  ASSUME CoreInv, Unpurged, NEW n \in Nat, NEW force \in BOOLEAN, checkPurged(n, force),
         NEW k \in Keys, NEW to
  PROVE  /\ \A m \in MonthJobs(n, force) :
               sumDaily(k, MonthFirst(m), to) = SumRows(history[k], MonthFirst(m), to)
         /\ \A y \in YearJobs(n, force) :
               sumDaily(k, YearFirst(y), to) = SumRows(history[k], YearFirst(y), to)
         /\ n > 0 /\ HasBaseline(force) =>
               sumDaily(k, baselineFrom(force), to) = SumRows(history[k], baselineFrom(force), to)
<1>1. /\ Days \subseteq Nat \ {0} /\ Months \subseteq Nat \ {0} /\ Years \subseteq Nat \ {0}
      /\ today \in Nat \ {0} /\ YearOf(today) \in Nat \ {0} /\ Origin \in Nat
      /\ purgedBefore \in Nat
  <2>1. purgedBefore \in Days \cup {NoDay} /\ NoDay \in Nat
    BY DEF CoreInv, AggregatorTypeOK, NoDay
  <2> QED BY <2>1, Basics, JobsTyped, YearHolds
<1>2. \A from \in Int : purgedBefore <= from =>
                           sumDaily(k, from, to) = SumRows(history[k], from, to)
  <2>1. SUFFICES ASSUME NEW from \in Int, purgedBefore <= from
                 PROVE  SumRows(rows[k], from, to) = SumRows(history[k], from, to)
    BY DEF sumDaily
  <2>2. ASSUME NEW d \in Days, from <= d PROVE rows[k][d] = history[k][d]
    <3>1. purgedBefore <= d
      BY <1>1, <2>1, <2>2
    <3> QED BY <3>1 DEF Unpurged
  <2> QED BY <2>2, SumRowsSame
<1>3. ASSUME NEW y \in Nat \ {0}, YearOf(today) - n <= y
      PROVE  YearFirst(y) \in Int /\ purgedBefore <= YearFirst(y)
  <2>1. /\ YearFirst(YearOf(today) - n) \in Int /\ YearFirst(y) \in Int
        /\ YearFirst(YearOf(today) - n) <= YearFirst(y)
    BY <1>1, <1>3, YearFirstOrder
  <2>2. YearFirst(y) \in Nat
    BY YearOrder
  <2>3. CASE purgedBefore = NoDay
    BY <2>2, <2>3 DEF NoDay
  <2>4. CASE YearFirst(YearOf(today) - n) >= purgedBefore
    BY <1>1, <2>1, <2>4
  <2> QED BY <2>1, <2>3, <2>4 DEF checkPurged
<1>4. ASSUME NEW m \in MonthJobs(n, force)
      PROVE  MonthFirst(m) \in Int /\ purgedBefore <= MonthFirst(m)
  <2>1. m \in Nat \ {0} /\ YearOf(today) - n <= YearOf(MonthFirst(m))
    BY <1>1 DEF MonthJobs, TouchedYears
  <2>2. MonthFirst(m) \in Nat \ {0}
    <3>1. m - 1 \in Nat /\ m = (m - 1) + 1
      BY <2>1
    <3>2. MonthFirst((m - 1) + 1) = MonthLast(m - 1) + 1 /\ MonthLast(m - 1) \in Nat
      BY <3>1, MonthOrder
    <3> QED BY <3>1, <3>2
  <2>3. YearOf(MonthFirst(m)) \in Nat \ {0} /\ YearFirst(YearOf(MonthFirst(m))) <= MonthFirst(m)
    BY <2>2, YearHolds
  <2>4. YearFirst(YearOf(MonthFirst(m))) \in Int /\ purgedBefore <= YearFirst(YearOf(MonthFirst(m)))
    BY <1>3, <2>1, <2>3
  <2> QED BY <1>1, <2>2, <2>3, <2>4
<1>5. ASSUME NEW y \in YearJobs(n, force)
      PROVE  YearFirst(y) \in Int /\ purgedBefore <= YearFirst(y)
  <2>1. y \in Nat \ {0} /\ YearOf(today) - n <= y
    BY <1>1 DEF YearJobs, TouchedYears
  <2> QED BY <1>3, <2>1
<1>6. ASSUME n > 0, HasBaseline(force)
      PROVE  baselineFrom(force) \in Int /\ purgedBefore <= baselineFrom(force)
  <2>1. baselineFrom(force) \in Nat
    BY <1>1 DEF baselineFrom, Origin
  <2>2. purgedBefore = 0 \/ baselineFrom(force) >= purgedBefore
    BY <1>6 DEF checkPurged, NoDay
  <2> QED BY <1>1, <2>1, <2>2
<1> QED
  BY <1>2, <1>4, <1>5, <1>6

\* What the job leaves in the tables and in the offsets.
LEMMA JobTables ==
  ASSUME CoreInv, Unpurged, NEW n \in Nat, NEW force \in BOOLEAN, Backfill(n, force), NEW k \in Keys
  PROVE  /\ \A m \in Months :
               IF m \in MonthJobs(n, force)
               THEN /\ monthRow'[k][m] = SumRows(history[k], MonthFirst(m), minDay(MonthLast(m), today))
                    /\ monthRow'[k][m] \in Nat /\ offset'.month[k][m] = 0
               ELSE monthRow'[k][m] = monthRow[k][m] /\ offset'.month[k][m] = offset.month[k][m]
         /\ \A y \in Years :
               IF y \in YearJobs(n, force)
               THEN /\ yearRow'[k][y] = SumRows(history[k], YearFirst(y), minDay(YearLast(y), today))
                    /\ yearRow'[k][y] \in Nat /\ offset'.year[k][y] = 0
               ELSE yearRow'[k][y] = yearRow[k][y] /\ offset'.year[k][y] = offset.year[k][y]
<1>1. /\ checkPurged(n, force)
      /\ monthRow' = RecomputedMonths(MonthJobs(n, force))
      /\ yearRow' = RecomputedYears(YearJobs(n, force))
      /\ offset'.month = Cleared(offset.month, MonthJobs(n, force))
      /\ offset'.year = Cleared(offset.year, YearJobs(n, force))
  BY DEF Backfill
<1>2. /\ offset.month \in [Keys -> [Months -> Nat]] /\ offset.year \in [Keys -> [Years -> Nat]]
      /\ today \in Int /\ history[k] \in DailyRows
      /\ Months \subseteq Nat \ {0} /\ Years \subseteq Nat \ {0}
  BY Basics, JobsTyped DEF CoreInv, AggregatorTypeOK
<1>3. ASSUME NEW m \in Months
      PROVE  IF m \in MonthJobs(n, force)
             THEN /\ monthRow'[k][m] = SumRows(history[k], MonthFirst(m), minDay(MonthLast(m), today))
                  /\ monthRow'[k][m] \in Nat /\ offset'.month[k][m] = 0
             ELSE monthRow'[k][m] = monthRow[k][m] /\ offset'.month[k][m] = offset.month[k][m]
  <2>1. /\ monthRow'[k][m] = IF m \in MonthJobs(n, force)
                             THEN sumDaily(k, MonthFirst(m), minDay(MonthLast(m), today))
                             ELSE monthRow[k][m]
        /\ offset'.month[k][m] = IF m \in MonthJobs(n, force) THEN 0 ELSE offset.month[k][m]
    BY <1>1, <1>2 DEF RecomputedMonths, Cleared
  <2>2. MonthFirst(m) \in Int /\ minDay(MonthLast(m), today) \in Int
    <3>1. MonthFirst(m) \in Int /\ MonthLast(m) \in Int
      BY <1>2, MonthOrder
    <3> QED BY <1>2, <3>1, MinDay
  <2>3. SumRows(history[k], MonthFirst(m), minDay(MonthLast(m), today)) \in Nat
    BY <1>2, <2>2, SumRowsNat
  <2>4. m \in MonthJobs(n, force) =>
           sumDaily(k, MonthFirst(m), minDay(MonthLast(m), today))
             = SumRows(history[k], MonthFirst(m), minDay(MonthLast(m), today))
    BY <1>1, JobRows
  <2> QED BY <2>1, <2>3, <2>4
<1>4. ASSUME NEW y \in Years
      PROVE  IF y \in YearJobs(n, force)
             THEN /\ yearRow'[k][y] = SumRows(history[k], YearFirst(y), minDay(YearLast(y), today))
                  /\ yearRow'[k][y] \in Nat /\ offset'.year[k][y] = 0
             ELSE yearRow'[k][y] = yearRow[k][y] /\ offset'.year[k][y] = offset.year[k][y]
  <2>1. /\ yearRow'[k][y] = IF y \in YearJobs(n, force)
                            THEN sumDaily(k, YearFirst(y), minDay(YearLast(y), today))
                            ELSE yearRow[k][y]
        /\ offset'.year[k][y] = IF y \in YearJobs(n, force) THEN 0 ELSE offset.year[k][y]
    BY <1>1, <1>2 DEF RecomputedYears, Cleared
  <2>2. YearFirst(y) \in Int /\ minDay(YearLast(y), today) \in Int
    <3>1. YearFirst(y) \in Int /\ YearLast(y) \in Int
      BY <1>2, YearOrder
    <3> QED BY <1>2, <3>1, MinDay
  <2>3. SumRows(history[k], YearFirst(y), minDay(YearLast(y), today)) \in Nat
    BY <1>2, <2>2, SumRowsNat
  <2>4. y \in YearJobs(n, force) =>
           sumDaily(k, YearFirst(y), minDay(YearLast(y), today))
             = SumRows(history[k], YearFirst(y), minDay(YearLast(y), today))
    BY <1>1, JobRows
  <2> QED BY <2>1, <2>3, <2>4
<1> QED
  BY <1>3, <1>4

\* What the job does not touch: everything but the months and years, their
\* offsets and the baseline.
LEMMA JobLeaves ==
  ASSUME CoreInv, NEW n \in Nat, NEW force \in BOOLEAN, Backfill(n, force)
  PROVE  /\ phase = "idle" /\ phase' = "idle" /\ Seen = today /\ Seen' = today
         /\ today' = today /\ rows' = rows /\ closedDaily' = closedDaily /\ cutover' = cutover
         /\ frozenNet' = frozenNet /\ frozenMonth' = frozenMonth /\ frozenYear' = frozenYear
         /\ baselineYear' = baselineYear /\ purgedBefore' = purgedBefore
         /\ netRow' = netRow /\ totalRow' = totalRow
         /\ runDay' = runDay /\ closedThrough' = closedThrough /\ write' = write
         /\ history' = history /\ skipped' = skipped
         /\ Origin' = Origin
<1>1. /\ phase = "idle" /\ phase' = phase
      /\ today' = today /\ rows' = rows /\ closedDaily' = closedDaily /\ cutover' = cutover
      /\ frozenNet' = frozenNet /\ frozenMonth' = frozenMonth /\ frozenYear' = frozenYear
      /\ baselineYear' = baselineYear /\ purgedBefore' = purgedBefore
      /\ netRow' = netRow /\ totalRow' = totalRow
      /\ runDay' = runDay /\ closedThrough' = closedThrough /\ write' = write
      /\ history' = history /\ skipped' = skipped
  BY DEF Backfill, ledger, run, past
<1> QED
  BY <1>1 DEF Seen, Origin

\* The baseline it leaves counts every row of the folded years.
LEMMA JobBaseline ==
  ASSUME CoreInv, Unpurged, NEW n \in Nat, NEW force \in BOOLEAN, Backfill(n, force), NEW k \in Keys
  PROVE  IF n > 0 /\ HasBaseline(force)
         THEN /\ countedFrom' = baselineFrom(force) /\ countedFrom' \in {1, Origin}
              /\ baseline'[k] = Counted(k, baselineFrom(force)) /\ baseline'[k] \in Nat
         ELSE countedFrom' = countedFrom /\ baseline' = baseline
<1>1. CASE n > 0 /\ HasBaseline(force)
  <2>1. /\ checkPurged(n, force)
        /\ baseline'[k] = sumDaily(k, baselineFrom(force), YearLast(baselineYear))
        /\ countedFrom' = IF force THEN 1 ELSE YearFirst(YearOf(cutover))
    BY <1>1 DEF Backfill
  <2>2. countedFrom' = baselineFrom(force) /\ countedFrom' \in {1, Origin}
    BY <2>1 DEF baselineFrom, Origin
  <2>3. baseline'[k] = Counted(k, baselineFrom(force))
    BY <1>1, <2>1, JobRows DEF Counted
  <2>4. Counted(k, baselineFrom(force)) \in Nat
    <3>1. history[k] \in DailyRows /\ YearLast(baselineYear) \in Int /\ Origin \in Int
      BY Basics
    <3>2. baselineFrom(force) \in Int
      BY <2>2, <3>1
    <3> QED BY <3>1, <3>2, SumRowsNat DEF Counted
  <2> QED BY <1>1, <2>2, <2>3, <2>4
<1>2. CASE ~(n > 0 /\ HasBaseline(force))
  BY <1>2 DEF Backfill
<1> QED
  BY <1>1, <1>2

\* The tables and the meta table keep their types.
LEMMA JobTypes ==
  ASSUME CoreInv, Unpurged, NEW n \in Nat, NEW force \in BOOLEAN, Backfill(n, force)
  PROVE  AggregatorTypeOK'
<1>1. AggregatorTypeOK
  BY DEF CoreInv
<1>2. baseline' \in [Keys -> Nat]
  <2>1. CASE n > 0 /\ HasBaseline(force)
    <3>1. baseline' = [k \in Keys |-> sumDaily(k, baselineFrom(force), YearLast(baselineYear))]
      BY <2>1 DEF Backfill
    <3>2. \A k \in Keys : baseline'[k] \in Nat
      BY <2>1, JobBaseline
    <3> QED BY <3>1, <3>2
  <2>2. CASE ~(n > 0 /\ HasBaseline(force))
    BY <1>1, <2>2 DEF Backfill, AggregatorTypeOK
  <2> QED BY <2>1, <2>2
<1>3. monthRow' \in [Keys -> [Months -> Nat \cup {NoVal}]]
  <2>1. \A k \in Keys, m \in Months : monthRow'[k][m] \in Nat \cup {NoVal}
    <3>1. \A k \in Keys, m \in Months : monthRow[k][m] \in Nat \cup {NoVal}
      BY <1>1 DEF AggregatorTypeOK
    <3> QED BY <3>1, JobTables
  <2>2. monthRow' = RecomputedMonths(MonthJobs(n, force))
    BY DEF Backfill
  <2> QED BY <2>1, <2>2 DEF RecomputedMonths
<1>4. yearRow' \in [Keys -> [Years -> Nat \cup {NoVal}]]
  <2>1. \A k \in Keys, y \in Years : yearRow'[k][y] \in Nat \cup {NoVal}
    <3>1. \A k \in Keys, y \in Years : yearRow[k][y] \in Nat \cup {NoVal}
      BY <1>1 DEF AggregatorTypeOK
    <3> QED BY <3>1, JobTables
  <2>2. yearRow' = RecomputedYears(YearJobs(n, force))
    BY DEF Backfill
  <2> QED BY <2>1, <2>2 DEF RecomputedYears
<1>5. offset' \in [month : [Keys -> [Months -> Nat]], year : [Keys -> [Years -> Nat]]]
  <2>1. offset.month \in [Keys -> [Months -> Nat]] /\ offset.year \in [Keys -> [Years -> Nat]]
    BY <1>1 DEF AggregatorTypeOK
  <2>2. offset' = [month |-> Cleared(offset.month, MonthJobs(n, force)),
                   year  |-> Cleared(offset.year, YearJobs(n, force))]
    BY DEF Backfill
  <2>3. Cleared(offset.month, MonthJobs(n, force)) \in [Keys -> [Months -> Nat]]
    BY <2>1 DEF Cleared
  <2>4. Cleared(offset.year, YearJobs(n, force)) \in [Keys -> [Years -> Nat]]
    BY <2>1 DEF Cleared
  <2> QED BY <2>2, <2>3, <2>4
<1> QED
  BY <1>1, <1>2, <1>3, <1>4, <1>5, JobLeaves DEF AggregatorTypeOK, LedgerTypeOK

\* It replaces a frozen period by the sum of all its days, an open one by what
\* the ledger holds of it.
LEMMA JobPeriods ==
  ASSUME CoreInv, Unpurged, NEW n \in Nat, NEW force \in BOOLEAN, Backfill(n, force)
  PROVE  Bounded' /\ FrozenExact'
<1>1. /\ Seen = today /\ Seen' = today /\ today' = today /\ cutover' = cutover
      /\ frozenMonth' = frozenMonth /\ frozenYear' = frozenYear /\ history' = history
  BY JobLeaves
<1>2. /\ today \in Int /\ Months \subseteq Nat \ {0} /\ Years \subseteq Nat \ {0}
      /\ MonthOf(cutover - 2) .. frozenMonth \subseteq Months
      /\ YearOf(cutover - 2) .. frozenYear \subseteq Years
  BY Basics, JobsTyped
<1>3. ASSUME NEW k \in Keys
      PROVE  /\ \A m \in Months : m > frozenMonth => monthRow'[k][m] <= MonthSum(k, m, Seen)'
             /\ \A y \in Years : y > frozenYear => yearRow'[k][y] <= YearSum(k, y, Seen)'
  <2>1. ASSUME NEW m \in Months, m > frozenMonth PROVE monthRow'[k][m] <= MonthSum(k, m, Seen)'
    <3>1. MonthSum(k, m, Seen)' = SumRows(history[k], MonthFirst(m), minDay(MonthLast(m), today)) + offset'.month[k][m]
      BY <1>1 DEF MonthSum
    <3>2. MonthSum(k, m, Seen) = SumRows(history[k], MonthFirst(m), minDay(MonthLast(m), today)) + offset.month[k][m]
      BY <1>1 DEF MonthSum
    <3>3. monthRow[k][m] <= MonthSum(k, m, Seen)
      BY <2>1 DEF CoreInv, Bounded
    <3>4. CASE m \in MonthJobs(n, force)
      <4>1. /\ monthRow'[k][m] = SumRows(history[k], MonthFirst(m), minDay(MonthLast(m), today))
            /\ monthRow'[k][m] \in Nat /\ offset'.month[k][m] = 0
        BY <3>4, JobTables
      <4> QED BY <3>1, <4>1
    <3>5. CASE m \notin MonthJobs(n, force)
      <4>1. monthRow'[k][m] = monthRow[k][m] /\ offset'.month[k][m] = offset.month[k][m]
        BY <3>5, JobTables
      <4> QED BY <3>1, <3>2, <3>3, <4>1
    <3> QED BY <3>4, <3>5
  <2>2. ASSUME NEW y \in Years, y > frozenYear PROVE yearRow'[k][y] <= YearSum(k, y, Seen)'
    <3>1. YearSum(k, y, Seen)' = SumRows(history[k], YearFirst(y), minDay(YearLast(y), today)) + offset'.year[k][y]
      BY <1>1 DEF YearSum
    <3>2. YearSum(k, y, Seen) = SumRows(history[k], YearFirst(y), minDay(YearLast(y), today)) + offset.year[k][y]
      BY <1>1 DEF YearSum
    <3>3. yearRow[k][y] <= YearSum(k, y, Seen)
      BY <2>2 DEF CoreInv, Bounded
    <3>4. CASE y \in YearJobs(n, force)
      <4>1. /\ yearRow'[k][y] = SumRows(history[k], YearFirst(y), minDay(YearLast(y), today))
            /\ yearRow'[k][y] \in Nat /\ offset'.year[k][y] = 0
        BY <3>4, JobTables
      <4> QED BY <3>1, <4>1
    <3>5. CASE y \notin YearJobs(n, force)
      <4>1. yearRow'[k][y] = yearRow[k][y] /\ offset'.year[k][y] = offset.year[k][y]
        BY <3>5, JobTables
      <4> QED BY <3>1, <3>2, <3>3, <4>1
    <3> QED BY <3>4, <3>5
  <2> QED BY <2>1, <2>2
<1>4. ASSUME NEW k \in Keys, NEW m \in MonthOf(cutover - 2) .. frozenMonth
      PROVE  IF monthRow'[k][m] = NoVal THEN MonthLast(m) < today - Retention
             ELSE monthRow'[k][m] = SumRows(history[k], MonthFirst(m), MonthLast(m)) + offset'.month[k][m]
  <2>1. m \in Months
    BY <1>2
  <2>2. IF monthRow[k][m] = NoVal THEN MonthLast(m) < today - Retention
        ELSE monthRow[k][m] = SumRows(history[k], MonthFirst(m), MonthLast(m)) + offset.month[k][m]
    BY DEF CoreInv, FrozenExact
  <2>3. minDay(MonthLast(m), today) = MonthLast(m)
    <3>1. MonthLast(m) <= closedDaily[k] /\ closedDaily[k] <= today /\ closedDaily[k] \in Nat
      BY FrozenClosed, Basics DEF CoreInv, Placed
    <3>2. MonthLast(m) \in Int
      BY <1>2, <2>1, MonthOrder
    <3>3. MonthLast(m) <= today
      BY <1>2, <3>1, <3>2
    <3> QED BY <1>2, <3>2, <3>3, MinDay
  <2>4. CASE m \in MonthJobs(n, force)
    <3>1. /\ monthRow'[k][m] = SumRows(history[k], MonthFirst(m), MonthLast(m))
          /\ monthRow'[k][m] \in Nat /\ offset'.month[k][m] = 0
      BY <2>1, <2>3, <2>4, JobTables
    <3> QED BY <3>1 DEF NoVal
  <2>5. CASE m \notin MonthJobs(n, force)
    <3>1. monthRow'[k][m] = monthRow[k][m] /\ offset'.month[k][m] = offset.month[k][m]
      BY <2>1, <2>5, JobTables
    <3> QED BY <2>2, <3>1
  <2> QED BY <2>4, <2>5
<1>5. ASSUME NEW k \in Keys, NEW y \in YearOf(cutover - 2) .. frozenYear
      PROVE  IF yearRow'[k][y] = NoVal THEN YearLast(y) < today - Retention
             ELSE yearRow'[k][y] = SumRows(history[k], YearFirst(y), YearLast(y)) + offset'.year[k][y]
  <2>1. y \in Years
    BY <1>2
  <2>2. IF yearRow[k][y] = NoVal THEN YearLast(y) < today - Retention
        ELSE yearRow[k][y] = SumRows(history[k], YearFirst(y), YearLast(y)) + offset.year[k][y]
    BY DEF CoreInv, FrozenExact
  <2>3. minDay(YearLast(y), today) = YearLast(y)
    <3>1. YearLast(y) <= closedDaily[k] /\ closedDaily[k] <= today /\ closedDaily[k] \in Nat
      BY FrozenClosed, Basics DEF CoreInv, Placed
    <3>2. YearLast(y) \in Int
      BY <1>2, <2>1, YearOrder
    <3>3. YearLast(y) <= today
      BY <1>2, <3>1, <3>2
    <3> QED BY <1>2, <3>2, <3>3, MinDay
  <2>4. CASE y \in YearJobs(n, force)
    <3>1. /\ yearRow'[k][y] = SumRows(history[k], YearFirst(y), YearLast(y))
          /\ yearRow'[k][y] \in Nat /\ offset'.year[k][y] = 0
      BY <2>1, <2>3, <2>4, JobTables
    <3> QED BY <3>1 DEF NoVal
  <2>5. CASE y \notin YearJobs(n, force)
    <3>1. yearRow'[k][y] = yearRow[k][y] /\ offset'.year[k][y] = offset.year[k][y]
      BY <2>1, <2>5, JobTables
    <3> QED BY <2>2, <3>1
  <2> QED BY <2>4, <2>5
<1>6. Bounded'
  BY <1>1, <1>3 DEF Bounded
<1>7. FrozenExact'
  BY <1>1, <1>4, <1>5 DEF FrozenExact
<1> QED
  BY <1>6, <1>7

\* The job keeps the invariant.
LEMMA JobKeeps ==
  ASSUME BackfillInv, NEW n \in Nat, NEW force \in BOOLEAN, Backfill(n, force)
  PROVE  BackfillInv'
<1>1. CoreInv /\ Unpurged /\ countedFrom \in {1, Origin} /\ BaselineSound
  BY DEF BackfillInv
<1>2. /\ phase = "idle" /\ phase' = "idle" /\ Seen = today /\ Seen' = today
      /\ today' = today /\ rows' = rows /\ closedDaily' = closedDaily /\ cutover' = cutover
      /\ frozenNet' = frozenNet /\ frozenMonth' = frozenMonth /\ frozenYear' = frozenYear
      /\ baselineYear' = baselineYear /\ purgedBefore' = purgedBefore
      /\ netRow' = netRow /\ write' = write
      /\ history' = history /\ skipped' = skipped
      /\ Origin' = Origin
  BY <1>1, JobLeaves
<1>3. AggregatorTypeOK'
  BY <1>1, JobTypes
<1>4. Placed'
  BY <1>1, <1>2 DEF CoreInv, Placed
<1>5. Closed'
  BY <1>1, <1>2 DEF CoreInv, Closed
<1>6. Kept'
  <2>1. \A d : Needed(d)' <=> Needed(d)
    BY <1>2 DEF Needed
  <2> QED BY <1>1, <1>2, <2>1 DEF CoreInv, Kept
<1>7. Running'
  BY <1>1, <1>2 DEF CoreInv, Running
<1>8. Collected'
  BY <1>2 DEF Collected, NetDone, MonthDone, YearDone, FoldDone, TotalDone
<1>9. Bounded' /\ FrozenExact'
  BY <1>1, JobPeriods
<1>10. NetFinal'
  BY <1>1, <1>2 DEF CoreInv, NetFinal
<1>11. Unpurged'
  BY <1>1, <1>2 DEF Unpurged
<1>12. /\ countedFrom' \in {1, Origin'}
       /\ \A k \in Keys : /\ baseline'[k] <= Counted(k, countedFrom)'
                          /\ \/ countedFrom' = 1 /\ cutover' = Origin'
                             \/ baseline'[k] = Counted(k, countedFrom)'
  <2>1. CASE n > 0 /\ HasBaseline(force)
    <3>1. \A k \in Keys : /\ countedFrom' = baselineFrom(force) /\ countedFrom' \in {1, Origin}
                          /\ baseline'[k] = Counted(k, baselineFrom(force)) /\ baseline'[k] \in Nat
      BY <1>1, <2>1, JobBaseline
    <3>2. \A k \in Keys : Counted(k, countedFrom)' = Counted(k, baselineFrom(force))
      BY <1>2, <3>1 DEF Counted
    <3>3. \A k \in Keys : /\ baseline'[k] = Counted(k, countedFrom)'
                          /\ baseline'[k] <= Counted(k, countedFrom)'
      BY <3>1, <3>2
    <3>4. countedFrom' \in {1, Origin}
      BY <3>1, AggregatorAssumption
    <3> QED BY <1>2, <3>3, <3>4
  <2>2. CASE ~(n > 0 /\ HasBaseline(force))
    <3>1. countedFrom' = countedFrom /\ baseline' = baseline
      BY <2>2 DEF Backfill
    <3>2. \A k \in Keys : Counted(k, countedFrom)' = Counted(k, countedFrom)
      BY <1>2, <3>1 DEF Counted
    <3>3. \A k \in Keys : /\ baseline[k] <= Counted(k, countedFrom)
                          /\ \/ countedFrom = 1 /\ cutover = Origin
                             \/ baseline[k] = Counted(k, countedFrom)
      BY <1>1 DEF BaselineSound, Counted, Origin
    <3> QED BY <1>1, <1>2, <3>1, <3>2, <3>3
  <2> QED BY <2>1, <2>2
<1>13. BaselineSound'
  BY <1>12 DEF BaselineSound, Counted, Origin
<1>14. CoreInv'
  BY <1>3, <1>4, <1>5, <1>6, <1>7, <1>8, <1>9, <1>10 DEF CoreInv
<1> QED
  BY <1>11, <1>12, <1>13, <1>14 DEF BackfillInv

\* The first v3 start: nothing is deleted and nothing is folded.
LEMMA BackfillStart ==
  ASSUME BackfillInit
  PROVE  BackfillInv
<1>1. AggregatorInv /\ countedFrom = Origin
  BY ServerInit DEF BackfillInit, Origin
<1>2. CoreInv /\ BaselineCounts
  BY <1>1 DEF AggregatorInv
<1>3. Unpurged
  <2>1. history = rows
    BY DEF BackfillInit, Init
  <2> QED BY <2>1 DEF Unpurged
<1>4. BaselineSound
  <2>1. ASSUME NEW k \in Keys
        PROVE  baseline[k] = Counted(k, countedFrom) /\ baseline[k] <= Counted(k, countedFrom)
    <3>1. baseline[k] = Counted(k, countedFrom) /\ baseline[k] \in Nat
      BY <1>1, <1>2 DEF BaselineCounts, CoreInv, AggregatorTypeOK
    <3> QED BY <3>1
  <2> QED BY <2>1 DEF BaselineSound, Counted
<1> QED
  BY <1>1, <1>2, <1>3, <1>4 DEF BackfillInv

\* Every step keeps the invariant, the server's and the job's.
LEMMA BackfillStep ==
  ASSUME BackfillInv, [BackfillNext]_backfillVars
  PROVE  BackfillInv'
<1>1. CASE [Next]_vars /\ UNCHANGED countedFrom
  BY <1>1, ServerStep
<1>2. ASSUME NEW n \in 0 .. MaxYears, NEW force \in BOOLEAN, Backfill(n, force)
      PROVE  BackfillInv'
  <2>1. n \in Nat
    BY BackfillAssumption
  <2> QED BY <1>2, <2>1, JobKeeps
<1>3. \/ [Next]_vars /\ UNCHANGED countedFrom
      \/ \E n \in 0 .. MaxYears, force \in BOOLEAN : Backfill(n, force)
  BY DEF BackfillNext, backfillVars
<1> QED
  BY <1>1, <1>2, <1>3

\* The inductive invariant with the job: retention has deleted nothing from the
\* day on it has noted, and the baseline counts what the last job made it count.
THEOREM BackfillInvariant == BackfillSpec => []BackfillInv
<1>1. BackfillInit => BackfillInv
  BY BackfillStart
<1>2. BackfillInv /\ [BackfillNext]_backfillVars => BackfillInv'
  BY BackfillStep
<1> QED
  BY <1>1, <1>2, PTL DEF BackfillSpec

\* A frozen month or year holds what its days ended with whatever jobs rewrote
\* it: never the sum of rows retention has already thinned out (checkPurged,
\* period, clearOffset).
THEOREM BackfilledPeriodsExact == BackfillSpec => []FrozenExact
<1>1. BackfillInv => FrozenExact
  BY DEF BackfillInv, CoreInv
<1> QED
  BY <1>1, BackfillInvariant, PTL

\* The baseline counts every day of the folded years once, whatever the server
\* folded, jobs refreshed and retention deleted (applyFold, refreshBaseline).
THEOREM BaselineIsSound == BackfillSpec => []BaselineSound
<1>1. BackfillInv => BaselineSound
  BY DEF BackfillInv
<1> QED
  BY <1>1, BackfillInvariant, PTL
=============================================================================
