----------------------------- MODULE SumTheorems ----------------------------
(***************************************************************************)
(* What SumFunction of the community modules, with which the model writes  *)
(* the SUM of a query, returns: a sum over a finite domain does not depend *)
(* on the order of its elements, is additive over disjoint domains, and    *)
(* grows with its summands.  The induction is over the number of elements, *)
(* as a least counterexample in a set of natural numbers.                  *)
(***************************************************************************)
EXTENDS Integers, Functions, FiniteSetTheorems, WellFoundedInduction, TLAPS

-----------------------------------------------------------------------------
\* Induction on the natural numbers, for a set of them.

Below == {ss \in Nat \X Nat : ss[1] < ss[2]}

\* The natural numbers are well-founded.
LEMMA BelowWellFounded == IsWellFoundedOn(Below, Nat)
  BY NatLessThanWellFounded, Zenon DEF OpToRel, Below

\* A set of numbers with 0 and the successor of each is the set of all of them.
LEMMA NatSetInduction ==
  ASSUME NEW P \in SUBSET Nat, 0 \in P, \A n \in P : n + 1 \in P
  PROVE  P = Nat
<1>1. SUFFICES ASSUME Nat \ P # {} PROVE FALSE
  OBVIOUS
<1>2. PICK n \in Nat \ P : \A y \in Nat \ P : <<y, n>> \notin Below
  <2>1. Nat \ P \subseteq Nat
    OBVIOUS
  <2> QED BY <2>1, <1>1, BelowWellFounded, WFMin
<1>3. n \in Nat /\ n # 0 /\ n \notin P
  BY <1>2
<1>4. n - 1 \in Nat /\ (n - 1) + 1 = n /\ <<n - 1, n>> \in Below
  BY <1>3 DEF Below
<1>5. n - 1 \in P
  BY <1>2, <1>4
<1>6. (n - 1) + 1 \in P
  BY <1>5
<1> QED
  BY <1>3, <1>4, <1>6

-----------------------------------------------------------------------------
\* The recursion SumFunction is defined by.

pick(s) == CHOOSE x \in s : TRUE

Step(f, it, s) == IF s = {} THEN 0 ELSE f[pick(s)] + it[s \ {pick(s)}]

IsSum(f, it) == it = [s \in SUBSET DOMAIN f |-> Step(f, it, s)]

\* What is used of it: it[s] is the sum of f over s.
Sums(f, it) ==
    /\ it[{}] = 0
    /\ \A s \in SUBSET DOMAIN f : s # {} => it[s] = f[pick(s)] + it[s \ {pick(s)}]

\* The subsets of D of at most n elements.
Small(D, n) == {s \in SUBSET D : Cardinality(s) <= n}

\* An element is picked from a set that has one.
LEMMA PickIn == ASSUME NEW s, s # {} PROVE pick(s) \in s
  BY DEF pick

\* Taking an element out of a small set leaves a smaller one.
LEMMA SmallRemove ==
  ASSUME NEW D, IsFiniteSet(D), NEW n \in Nat, NEW s \in Small(D, n + 1), NEW x \in s
  PROVE  s \ {x} \in Small(D, n)
<1>1. s \in SUBSET D /\ IsFiniteSet(s) /\ Cardinality(s) \in Nat /\ Cardinality(s) <= n + 1
  BY FS_Subset, FS_CardinalityType DEF Small
<1>2. Cardinality(s \ {x}) = Cardinality(s) - 1
  BY <1>1, FS_RemoveElement
<1> QED
  BY <1>1, <1>2 DEF Small

\* The empty set is the only one of no element.
LEMMA SmallZero ==
  ASSUME NEW D, IsFiniteSet(D)
  PROVE  Small(D, 0) = {{}}
<1>1. ASSUME NEW s \in SUBSET D PROVE Cardinality(s) <= 0 <=> s = {}
  <2>1. IsFiniteSet(s) /\ Cardinality(s) \in Nat
    BY FS_Subset, FS_CardinalityType
  <2> QED BY <2>1, FS_EmptySet
<1> QED
  BY <1>1 DEF Small

\* Every subset of a finite set is small.
LEMMA SmallAll ==
  ASSUME NEW D, IsFiniteSet(D)
  PROVE  Cardinality(D) \in Nat /\ Small(D, Cardinality(D)) = SUBSET D
<1>1. Cardinality(D) \in Nat
  BY FS_CardinalityType
<1>2. ASSUME NEW s \in SUBSET D PROVE Cardinality(s) <= Cardinality(D)
  BY FS_Subset
<1> QED
  BY <1>1, <1>2 DEF Small

\* The recursion has a solution: it is built up from the empty set.
LEMMA SumExists ==
  ASSUME NEW f, IsFiniteSet(DOMAIN f)
  PROVE  \E it : IsSum(f, it)
<1> DEFINE D == DOMAIN f
           Upto(n, it) == it = [s \in Small(D, n) |-> Step(f, it, s)]
           P == {n \in Nat : \E it : Upto(n, it)}
<1>1. 0 \in P
  <2> DEFINE zero == [s \in Small(D, 0) |-> 0]
  <2>1. \A s \in Small(D, 0) : Step(f, zero, s) = 0
    BY SmallZero DEF Step
  <2>2. Upto(0, zero)
    BY <2>1
  <2> QED BY <2>2
<1>2. ASSUME NEW n \in P PROVE n + 1 \in P
  <2>1. PICK it : Upto(n, it)
    OBVIOUS
  <2> DEFINE jt == [s \in Small(D, n + 1) |-> Step(f, it, s)]
  <2>2. ASSUME NEW s \in Small(D, n + 1) PROVE Step(f, jt, s) = Step(f, it, s)
    <3>1. CASE s = {}
      BY <3>1 DEF Step
    <3>2. CASE s # {}
      <4> DEFINE r == s \ {pick(s)}
      <4>1. r \in Small(D, n)
        BY <3>2, PickIn, SmallRemove
      <4>2. r \in Small(D, n + 1)
        <5>1. r \in SUBSET D /\ IsFiniteSet(r) /\ Cardinality(r) <= n
          BY <4>1, FS_Subset DEF Small
        <5>2. Cardinality(r) \in Nat
          BY <5>1, FS_CardinalityType
        <5> QED BY <5>1, <5>2 DEF Small
      <4>3. jt[r] = Step(f, it, r)
        BY <4>2
      <4>4. it[r] = Step(f, it, r)
        BY <2>1, <4>1
      <4> HIDE DEF jt, r
      <4>5. jt[r] = it[r]
        BY <4>3, <4>4
      <4> QED BY <4>5 DEF Step, r
    <3> QED BY <3>1, <3>2
  <2>3. Upto(n + 1, jt)
    BY <2>2
  <2> HIDE DEF jt
  <2>4. \E kt : Upto(n + 1, kt)
    BY <2>3, Zenon
  <2>5. n + 1 \in Nat
    OBVIOUS
  <2> QED BY <2>4, <2>5
<1>3. P = Nat
  <2> HIDE DEF P
  <2>1. P \in SUBSET Nat
    BY DEF P
  <2> QED BY <1>1, <1>2, <2>1, NatSetInduction
<1>4. Cardinality(D) \in Nat /\ Small(D, Cardinality(D)) = SUBSET D
  BY SmallAll
<1>5. PICK it : Upto(Cardinality(D), it)
  BY <1>3, <1>4
<1>6. it = [s \in SUBSET D |-> Step(f, it, s)]
  BY <1>4, <1>5
<1> QED
  BY <1>6 DEF IsSum

\* SumFunction(f) is the sum of f over its domain.
LEMMA SumIs ==
  ASSUME NEW f, IsFiniteSet(DOMAIN f)
  PROVE  \E it : Sums(f, it) /\ SumFunction(f) = it[DOMAIN f]
<1> DEFINE it == CHOOSE jt : IsSum(f, jt)
<1>1. IsSum(f, it)
  BY SumExists
<1>2. SumFunction(f) = it[DOMAIN f]
  BY DEF SumFunction, SumFunctionOnSet, FoldFunctionOnSet, MapThenFoldSet, IsSum, Step, pick
<1> HIDE DEF it
<1>3. \A s \in SUBSET DOMAIN f : it[s] = Step(f, it, s)
  BY <1>1, Zenon DEF IsSum
<1>4. Sums(f, it)
  BY <1>3 DEF Sums, Step
<1> QED
  BY <1>2, <1>4

-----------------------------------------------------------------------------
\* The laws of the sum, for it with Sums(f, it).

\* The sum of integers is an integer, of naturals a natural.
LEMMA SumsIn ==
  ASSUME NEW f, IsFiniteSet(DOMAIN f), NEW it, Sums(f, it),
         NEW N, N = Int \/ N = Nat, f \in [DOMAIN f -> N]
  PROVE  \A s \in SUBSET DOMAIN f : it[s] \in N
<1> DEFINE D == DOMAIN f
           P == {n \in Nat : \A s \in Small(D, n) : it[s] \in N}
<1>1. 0 \in P
  <2>1. it[{}] \in N
    BY DEF Sums
  <2> QED BY <2>1, SmallZero
<1>2. ASSUME NEW n \in P PROVE n + 1 \in P
  <2>1. SUFFICES ASSUME NEW s \in Small(D, n + 1) PROVE it[s] \in N
    OBVIOUS
  <2>2. CASE s = {}
    BY <2>2 DEF Sums
  <2>3. CASE s # {}
    <3>1. pick(s) \in s /\ s \in SUBSET D
      BY <2>3, PickIn DEF Small
    <3>2. it[s \ {pick(s)}] \in N
      BY <3>1, SmallRemove
    <3>3. it[s] = f[pick(s)] + it[s \ {pick(s)}] /\ f[pick(s)] \in N
      BY <2>3, <3>1 DEF Sums
    <3> QED BY <3>2, <3>3
  <2> QED BY <2>2, <2>3
<1>3. P = Nat
  <2> HIDE DEF P
  <2>1. P \in SUBSET Nat
    BY DEF P
  <2> QED BY <1>1, <1>2, <2>1, NatSetInduction
<1> QED
  BY <1>3, SmallAll

\* Any element may be taken out of a sum, not just the one picked.
LEMMA SumsAny ==
  ASSUME NEW f, IsFiniteSet(DOMAIN f), f \in [DOMAIN f -> Int], NEW it, Sums(f, it),
         NEW a \in SUBSET DOMAIN f, NEW y \in a
  PROVE  it[a] = f[y] + it[a \ {y}]
<1> DEFINE D == DOMAIN f
           P == {n \in Nat : \A s \in Small(D, n) : \A x \in s : it[s] = f[x] + it[s \ {x}]}
<1>1. 0 \in P
  BY SmallZero
<1>2. ASSUME NEW n \in P PROVE n + 1 \in P
  <2>0. n \in Nat /\ n + 1 \in Nat
    OBVIOUS
  <2>1. SUFFICES ASSUME NEW s \in Small(D, n + 1), NEW x \in s PROVE it[s] = f[x] + it[s \ {x}]
    BY <2>0, Zenon
  <2> DEFINE p == pick(s)
  <2>2. p \in s /\ s \in SUBSET D /\ it[s] = f[p] + it[s \ {p}]
    BY PickIn DEF Sums, Small
  <2> HIDE DEF p
  <2>3. CASE p = x
    BY <2>2, <2>3
  <2>4. CASE p # x
    <3>1. s \ {p} \in Small(D, n) /\ s \ {x} \in Small(D, n)
      BY <2>2, SmallRemove
    <3> DEFINE sp == s \ {p}
               sx == s \ {x}
               r == sp \ {x}
    <3>2. it[sp] = f[x] + it[r]
      BY <3>1, <2>4
    <3>3. it[sx] = f[p] + it[sx \ {p}]
      BY <3>1, <2>2, <2>4
    <3>4. sx \ {p} = r
      OBVIOUS
    <3>5. f[p] \in Int /\ f[x] \in Int /\ it[r] \in Int
      <4>1. \A t \in SUBSET D : it[t] \in Int
        BY SumsIn
      <4> QED BY <2>2, <4>1
    <3>6. it[s] = f[p] + it[sp]
      BY <2>2
    <3> HIDE DEF sp, sx, r
    <3>7. it[sx] = f[p] + it[r]
      BY <3>3, <3>4
    <3>8. it[s] = f[x] + it[sx]
      BY <3>2, <3>5, <3>6, <3>7
    <3> QED BY <3>8 DEF sx
  <2> QED BY <2>3, <2>4
<1>3. P = Nat
  <2> HIDE DEF P
  <2>1. P \in SUBSET Nat
    BY DEF P
  <2> QED BY <1>1, <1>2, <2>1, NatSetInduction
<1> QED
  BY <1>3, SmallAll

\* The sum over a set grows with the summands in it.
LEMMA SumsLeq ==
  ASSUME NEW f, IsFiniteSet(DOMAIN f), f \in [DOMAIN f -> Int], NEW it, Sums(f, it),
         NEW g, IsFiniteSet(DOMAIN g), g \in [DOMAIN g -> Int], NEW jt, Sums(g, jt),
         NEW E, E \subseteq DOMAIN f, E \subseteq DOMAIN g, \A x \in E : f[x] <= g[x]
  PROVE  it[E] <= jt[E]
<1> DEFINE P == {n \in Nat : \A s \in Small(E, n) : it[s] <= jt[s]}
<1>0. IsFiniteSet(E)
  BY FS_Subset
<1>1. 0 \in P
  <2>1. it[{}] <= jt[{}]
    BY DEF Sums
  <2> QED BY <1>0, <2>1, SmallZero
<1>2. ASSUME NEW n \in P PROVE n + 1 \in P
  <2>1. SUFFICES ASSUME NEW s \in Small(E, n + 1) PROVE it[s] <= jt[s]
    OBVIOUS
  <2>2. CASE s = {}
    BY <2>2 DEF Sums
  <2>3. CASE s # {}
    <3> DEFINE p == pick(s)
               r == s \ {p}
    <3>1. p \in s /\ s \in SUBSET E
      BY <2>3, PickIn DEF Small
    <3>2. it[s] = f[p] + it[r] /\ jt[s] = g[p] + jt[r]
      BY <2>3, <3>1 DEF Sums
    <3>3. r \in Small(E, n)
      BY <1>0, <3>1, SmallRemove
    <3>4. r \in SUBSET DOMAIN f /\ r \in SUBSET DOMAIN g
      BY <3>1
    <3>5. it[r] \in Int /\ jt[r] \in Int
      <4>1. \A t \in SUBSET DOMAIN f : it[t] \in Int
        BY SumsIn
      <4>2. \A t \in SUBSET DOMAIN g : jt[t] \in Int
        BY SumsIn
      <4> QED BY <3>4, <4>1, <4>2
    <3>6. f[p] \in Int /\ g[p] \in Int /\ f[p] <= g[p]
      BY <3>1
    <3>7. it[r] <= jt[r]
      BY <3>3
    <3> HIDE DEF p, r
    <3> QED BY <3>2, <3>5, <3>6, <3>7
  <2> QED BY <2>2, <2>3
<1>3. P = Nat
  <2> HIDE DEF P
  <2>1. P \in SUBSET Nat
    BY DEF P
  <2> QED BY <1>1, <1>2, <2>1, NatSetInduction
<1>4. Cardinality(E) \in Nat /\ Small(E, Cardinality(E)) = SUBSET E
  BY <1>0, SmallAll
<1> QED
  BY <1>3, <1>4

\* The sum over two disjoint sets is the sum of the sums.
LEMMA SumsUnion ==
  ASSUME NEW f, IsFiniteSet(DOMAIN f), f \in [DOMAIN f -> Int], NEW it, Sums(f, it),
         NEW A \in SUBSET DOMAIN f, NEW B \in SUBSET DOMAIN f, A \cap B = {}
  PROVE  it[A \cup B] = it[A] + it[B]
<1> DEFINE P == {n \in Nat : \A s \in Small(B, n) : it[A \cup s] = it[A] + it[s]}
<1>0. IsFiniteSet(B)
  BY FS_Subset
<1>1. \A t \in SUBSET DOMAIN f : it[t] \in Int
  BY SumsIn
<1>3. 0 \in P
  <2>1. A \cup {} = A
    OBVIOUS
  <2>2. it[A] \in Int /\ it[{}] = 0
    BY <1>1 DEF Sums
  <2>3. it[A \cup {}] = it[A] + it[{}]
    BY <2>1, <2>2
  <2> QED BY <1>0, <2>3, SmallZero
<1>4. ASSUME NEW n \in P PROVE n + 1 \in P
  <2>1. SUFFICES ASSUME NEW s \in Small(B, n + 1) PROVE it[A \cup s] = it[A] + it[s]
    OBVIOUS
  <2>2. CASE s = {}
    <3>1. A \cup s = A
      BY <2>2
    <3>2. it[A] \in Int /\ it[s] = 0
      BY <1>1, <2>2 DEF Sums
    <3>3. it[A] = it[A] + it[s]
      BY <3>2
    <3> QED BY <3>1, <3>3
  <2>3. CASE s # {}
    <3> DEFINE p == pick(s)
               r == s \ {p}
    <3>1. p \in s /\ s \in SUBSET B
      BY <2>3, PickIn DEF Small
    <3>2. r \in Small(B, n)
      BY <1>0, <3>1, SmallRemove
    <3>3. it[A \cup r] = it[A] + it[r]
      BY <3>2
    <3>4. (A \cup s) \ {p} = A \cup r
      BY <3>1
    <3>5. A \cup s \in SUBSET DOMAIN f /\ p \in A \cup s /\ s \in SUBSET DOMAIN f
      BY <3>1
    <3>6. it[A \cup s] = f[p] + it[A \cup r]
      <4>1. it[A \cup s] = f[p] + it[(A \cup s) \ {p}]
        BY <3>5, SumsAny
      <4> QED BY <3>4, <4>1
    <3>7. it[s] = f[p] + it[r]
      BY <3>1, <3>5, SumsAny
    <3>8. f[p] \in Int /\ it[A] \in Int /\ it[r] \in Int
      BY <1>1, <3>1, <3>5
    <3> HIDE DEF p, r
    <3>9. f[p] + (it[A] + it[r]) = it[A] + (f[p] + it[r])
      BY <3>8
    <3> QED BY <3>3, <3>6, <3>7, <3>9
  <2> QED BY <2>2, <2>3
<1>5. P = Nat
  <2> HIDE DEF P
  <2>1. P \in SUBSET Nat
    BY DEF P
  <2> QED BY <1>3, <1>4, <2>1, NatSetInduction
<1>6. Cardinality(B) \in Nat /\ Small(B, Cardinality(B)) = SUBSET B
  BY <1>0, SmallAll
<1> QED
  BY <1>5, <1>6

-----------------------------------------------------------------------------
\* The laws of SumFunction.

\* The sum of naturals is a natural.
THEOREM SumNat ==
  ASSUME NEW f, IsFiniteSet(DOMAIN f), f \in [DOMAIN f -> Nat]
  PROVE  SumFunction(f) \in Nat
<1>1. PICK it : Sums(f, it) /\ SumFunction(f) = it[DOMAIN f]
  BY SumIs
<1>2. \A s \in SUBSET DOMAIN f : it[s] \in Nat
  BY <1>1, SumsIn
<1> QED
  BY <1>1, <1>2

\* The sum over no element is 0.
THEOREM SumEmpty ==
  ASSUME NEW f, DOMAIN f = {}
  PROVE  SumFunction(f) = 0
<1>1. IsFiniteSet(DOMAIN f)
  BY FS_EmptySet
<1> QED
  BY <1>1, SumIs DEF Sums

\* The sum over one element is its value.
THEOREM SumOne ==
  ASSUME NEW f, NEW x, DOMAIN f = {x}, f \in [DOMAIN f -> Int]
  PROVE  SumFunction(f) = f[x]
<1>1. IsFiniteSet(DOMAIN f)
  BY FS_Singleton
<1>2. PICK it : Sums(f, it) /\ SumFunction(f) = it[DOMAIN f]
  BY <1>1, SumIs
<1>3. it[{x}] = f[x] + it[{x} \ {x}]
  <2>1. {x} \in SUBSET DOMAIN f /\ x \in {x}
    OBVIOUS
  <2> QED BY <1>1, <1>2, <2>1, SumsAny
<1>4. {x} \ {x} = {} /\ it[{}] = 0 /\ f[x] \in Int
  BY <1>2 DEF Sums
<1>5. it[{x}] = f[x] + it[{}]
  BY <1>3, <1>4
<1>6. f[x] + 0 = f[x]
  BY <1>4
<1> QED
  BY <1>2, <1>4, <1>5, <1>6

\* Two sums with equal summands over a set are equal over it.
LEMMA SumsSame ==
  ASSUME NEW f, IsFiniteSet(DOMAIN f), f \in [DOMAIN f -> Int], NEW it, Sums(f, it),
         NEW g, IsFiniteSet(DOMAIN g), g \in [DOMAIN g -> Int], NEW jt, Sums(g, jt),
         NEW E, E \subseteq DOMAIN f, E \subseteq DOMAIN g, \A x \in E : f[x] = g[x]
  PROVE  it[E] = jt[E]
<1>1. \A x \in E : f[x] \in Int /\ g[x] \in Int /\ f[x] <= g[x] /\ g[x] <= f[x]
  OBVIOUS
<1>2. it[E] <= jt[E]
  BY <1>1, SumsLeq
<1>3. jt[E] <= it[E]
  BY <1>1, SumsLeq
<1>4. it[E] \in Int /\ jt[E] \in Int
  <2>1. \A t \in SUBSET DOMAIN f : it[t] \in Int
    BY SumsIn
  <2>2. \A t \in SUBSET DOMAIN g : jt[t] \in Int
    BY SumsIn
  <2> QED BY <2>1, <2>2
<1> QED
  BY <1>2, <1>3, <1>4

\* The sum over a domain of two disjoint parts is the sum of the sums over them.
THEOREM SumUnion ==
  ASSUME NEW f, IsFiniteSet(DOMAIN f), f \in [DOMAIN f -> Int],
         NEW a, NEW b, DOMAIN a \cap DOMAIN b = {}, DOMAIN f = DOMAIN a \cup DOMAIN b,
         a \in [DOMAIN a -> Int], b \in [DOMAIN b -> Int],
         \A x \in DOMAIN a : a[x] = f[x], \A x \in DOMAIN b : b[x] = f[x]
  PROVE  SumFunction(f) = SumFunction(a) + SumFunction(b)
<1>1. IsFiniteSet(DOMAIN a) /\ IsFiniteSet(DOMAIN b)
  BY FS_Subset
<1>2. PICK it : Sums(f, it) /\ SumFunction(f) = it[DOMAIN f]
  BY SumIs
<1>3. PICK jt : Sums(a, jt) /\ SumFunction(a) = jt[DOMAIN a]
  BY <1>1, SumIs
<1>4. PICK kt : Sums(b, kt) /\ SumFunction(b) = kt[DOMAIN b]
  BY <1>1, SumIs
<1>5. jt[DOMAIN a] = it[DOMAIN a]
  BY <1>1, <1>2, <1>3, SumsSame
<1>6. kt[DOMAIN b] = it[DOMAIN b]
  BY <1>1, <1>2, <1>4, SumsSame
<1>7. it[DOMAIN a \cup DOMAIN b] = it[DOMAIN a] + it[DOMAIN b]
  BY <1>2, SumsUnion
<1> QED
  BY <1>2, <1>3, <1>4, <1>5, <1>6, <1>7

\* The sum of naturals grows with them and with the domain.
THEOREM SumLeq ==
  ASSUME NEW f, f \in [DOMAIN f -> Nat], NEW g, IsFiniteSet(DOMAIN g), g \in [DOMAIN g -> Nat],
         DOMAIN f \subseteq DOMAIN g, \A x \in DOMAIN f : f[x] <= g[x]
  PROVE  SumFunction(f) <= SumFunction(g)
<1> DEFINE r == DOMAIN g \ DOMAIN f
<1>1. IsFiniteSet(DOMAIN f) /\ IsFiniteSet(r)
  BY FS_Subset
<1>2. PICK it : Sums(f, it) /\ SumFunction(f) = it[DOMAIN f]
  BY <1>1, SumIs
<1>3. PICK jt : Sums(g, jt) /\ SumFunction(g) = jt[DOMAIN g]
  BY SumIs
<1>4. f \in [DOMAIN f -> Int] /\ g \in [DOMAIN g -> Int]
  OBVIOUS
<1>5. it[DOMAIN f] <= jt[DOMAIN f]
  BY <1>1, <1>2, <1>3, <1>4, SumsLeq
<1>6. jt[DOMAIN f \cup r] = jt[DOMAIN f] + jt[r]
  <2>1. DOMAIN f \cap r = {} /\ r \in SUBSET DOMAIN g
    OBVIOUS
  <2> HIDE DEF r
  <2> QED BY <1>3, <1>4, <2>1, SumsUnion
<1>7. jt[r] \in Nat /\ jt[DOMAIN f] \in Nat
  <2>1. \A t \in SUBSET DOMAIN g : jt[t] \in Nat
    BY <1>3, SumsIn
  <2> QED BY <2>1
<1>8. it[DOMAIN f] \in Nat
  <2>1. \A t \in SUBSET DOMAIN f : it[t] \in Nat
    BY <1>1, <1>2, SumsIn
  <2> QED BY <2>1
<1>9. DOMAIN f \cup r = DOMAIN g
  OBVIOUS
<1> HIDE DEF r
<1> QED
  BY <1>2, <1>3, <1>5, <1>6, <1>7, <1>8, <1>9
=============================================================================
