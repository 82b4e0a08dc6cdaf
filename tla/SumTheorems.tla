----------------------------- MODULE SumTheorems -----------------------------
(***************************************************************************)
(* Facts about sums over finite sets, for the proofs of MemoryLimits       *)
(* (memory of NUMA nodes) and AssignCpus (CPUs of nodes and jobs).         *)
(*                                                                         *)
(* A sum is a fold over a set, which the community modules define by a     *)
(* function of all its subsets.  SumUpTo shows that there is such a        *)
(* function; SumTable describes it.  Every other fact is proved from the   *)
(* table: were there a subset for which it fails, there would be a least   *)
(* one (LeastSubset), and taking an element off it gives a contradiction.  *)
(***************************************************************************)
EXTENDS Integers, FiniteSets, Functions, FiniteSetTheorems, WellFoundedInduction, TLAPS

\* A set of numbers has a least one.
LEMMA LeastNat ==
  ASSUME NEW T, T \subseteq Nat, T # {}
  PROVE  \E n \in T: \A m \in T: n <= m
<1>1. PICK n \in T: \A m \in T: <<m, n>> \notin OpToRel(<, Nat)
  BY NatLessThanWellFounded, WFMin
<1>2. ASSUME NEW m \in T PROVE ~(m < n)
  BY <1>1, <1>2 DEF OpToRel
<1> QED
  BY <1>2

\* The sum over s is an element and the sum over the others.
Pick(s) == CHOOSE x \in s: TRUE
Step(f, s, g) == IF s = {} THEN 0 ELSE f[Pick(s)] + g[s \ {Pick(s)}]
Sums(f, D, g) == g = [s \in D |-> Step(f, s, g)]
UpTo(S, n) == {s \in SUBSET S: Cardinality(s) <= n}

\* There is a table of the sums over all subsets: by their size.
LEMMA SumUpTo ==
  ASSUME NEW S, IsFiniteSet(S), NEW f
  PROVE  \A n \in Nat: \E g: Sums(f, UpTo(S, n), g)
<1> DEFINE Has(n) == \E g: Sums(f, UpTo(S, n), g)
           Bad == {n \in Nat: ~Has(n)}
<1>0. ASSUME NEW s \in SUBSET S PROVE IsFiniteSet(s) /\ Cardinality(s) \in Nat
  BY FS_Subset, FS_CardinalityType
<1> SUFFICES ASSUME Bad # {} PROVE FALSE
  OBVIOUS
<1>1. PICK n \in Bad: \A m \in Bad: n <= m
  BY LeastNat
<1>2. n \in Nat /\ ~Has(n)
  OBVIOUS
<1>3. CASE n = 0
  <2>1. \A s \in UpTo(S, 0): s = {}
    BY <1>0, FS_EmptySet DEF UpTo
  <2> DEFINE g == [s \in UpTo(S, 0) |-> 0]
  <2>2. g = [s \in UpTo(S, 0) |-> Step(f, s, g)]
    BY <2>1 DEF Step
  <2> QED
    BY <1>2, <1>3, <2>2 DEF Sums
<1>4. CASE n # 0
  <2>1. n - 1 \in Nat /\ n - 1 \notin Bad
    BY <1>1, <1>2, <1>4
  <2>2. PICK h: h = [s \in UpTo(S, n - 1) |-> Step(f, s, h)]
    BY <2>1 DEF Sums
  <2> DEFINE g == [s \in UpTo(S, n) |-> Step(f, s, h)]
  <2>3. ASSUME NEW s \in UpTo(S, n) PROVE Step(f, s, h) = Step(f, s, g)
    <3>1. CASE s = {}
      BY <3>1 DEF Step
    <3>2. CASE s # {}
      <4> DEFINE x == Pick(s)
      <4>1. x \in s
        BY <3>2 DEF Pick
      <4>2. s \in SUBSET S /\ IsFiniteSet(s) /\ Cardinality(s) \in Nat /\ Cardinality(s) <= n
        BY <1>0 DEF UpTo
      <4>3. Cardinality(s \ {x}) = Cardinality(s) - 1
        BY <4>1, <4>2, FS_RemoveElement
      <4>4. s \ {x} \in UpTo(S, n - 1) /\ s \ {x} \in UpTo(S, n)
        BY <4>2, <4>3, <1>2 DEF UpTo
      <4>5. g[s \ {x}] = Step(f, s \ {x}, h)
        BY <4>4
      <4>6. h[s \ {x}] = Step(f, s \ {x}, h)
        BY <4>4, <2>2
      <4>7. Step(f, s, h) = f[x] + h[s \ {x}] /\ Step(f, s, g) = f[x] + g[s \ {x}]
        BY <3>2 DEF Step
      <4> QED
        BY <4>5, <4>6, <4>7
    <3> QED
      BY <3>1, <3>2
  <2>4. g = [s \in UpTo(S, n) |-> Step(f, s, g)]
    BY <2>3
  <2> HIDE DEF g
  <2> QED
    BY <1>2, <2>4 DEF Sums
<1> QED
  BY <1>3, <1>4

\* The fold is such a table.
LEMMA SumEquation ==
  ASSUME NEW S, IsFiniteSet(S), NEW f
  PROVE  \E g: SumFunctionOnSet(f, S) = g[S] /\ Sums(f, SUBSET S, g)
<1> DEFINE It == CHOOSE g: g = [s \in SUBSET S |-> IF s = {} THEN 0 ELSE f[CHOOSE x \in s: TRUE] + g[s \ {CHOOSE x \in s: TRUE}]]
<1>1. SumFunctionOnSet(f, S) = It[S]
  BY DEF SumFunctionOnSet, FoldFunctionOnSet, MapThenFoldSet
<1>2. \E g: g = [s \in SUBSET S |-> IF s = {} THEN 0 ELSE f[CHOOSE x \in s: TRUE] + g[s \ {CHOOSE x \in s: TRUE}]]
  <2>1. Cardinality(S) \in Nat /\ \A s \in SUBSET S: Cardinality(s) <= Cardinality(S)
    BY FS_CardinalityType, FS_Subset
  <2>2. UpTo(S, Cardinality(S)) = SUBSET S
    BY <2>1 DEF UpTo
  <2>3. \A n \in Nat: \E g: Sums(f, UpTo(S, n), g)
    BY SumUpTo
  <2>4. \E g: Sums(f, SUBSET S, g)
    BY <2>1, <2>2, <2>3
  <2> QED
    BY <2>4 DEF Sums, Step, Pick
<1>3. Sums(f, SUBSET S, It)
  BY <1>2 DEF Step, Pick, Sums
<1> HIDE DEF It
<1> QED
  BY <1>1, <1>3

\* Of a set of finite sets there is one that is in it with no element less.
LEMMA LeastSubset ==
  ASSUME NEW S, IsFiniteSet(S), NEW B \in SUBSET (SUBSET S), B # {}
  PROVE  \E s \in B: \A x \in s: s \ {x} \notin B
<1>1. B \subseteq FiniteSubsetsOf(S)
  BY FS_Subset DEF FiniteSubsetsOf
<1>2. PICK s \in B: \A u \in B: <<u, s>> \notin StrictSubsetOrdering(S)
  BY <1>1, FS_StrictSubsetOrderingWellFounded, WFMin
<1>3. ASSUME NEW x \in s PROVE s \ {x} \notin B
  BY <1>2 DEF StrictSubsetOrdering
<1> QED
  BY <1>3

\* g has the sum of f over each subset of S.
Table(f, S, g) ==
  /\ g[{}] = 0
  /\ \A s \in SUBSET S: s # {} =>
       Pick(s) \in s /\ s \ {Pick(s)} \in SUBSET S /\ g[s] = f[Pick(s)] + g[s \ {Pick(s)}]

\* Sums of integers are integers.
LEMMA SumsInt ==
  ASSUME NEW S, IsFiniteSet(S), NEW f, \A x \in S: f[x] \in Int, NEW g, Table(f, S, g)
  PROVE  \A s \in SUBSET S: g[s] \in Int
<1> DEFINE B == {s \in SUBSET S: g[s] \notin Int}
<1> SUFFICES ASSUME B # {} PROVE FALSE
  OBVIOUS
<1>0. B \in SUBSET (SUBSET S) /\ \A s \in SUBSET S: s \in B <=> g[s] \notin Int
  OBVIOUS
<1> HIDE DEF B
<1>1. PICK s \in B: \A x \in s: s \ {x} \notin B
  BY <1>0, LeastSubset
<1>2. s \in SUBSET S /\ s # {}
  <2>1. g[{}] \in Int
    BY DEF Table
  <2> QED
    BY <1>0, <2>1
<1>3. Pick(s) \in s /\ s \ {Pick(s)} \in SUBSET S /\ g[s] = f[Pick(s)] + g[s \ {Pick(s)}]
  BY <1>2 DEF Table
<1>4. g[s \ {Pick(s)}] \in Int /\ f[Pick(s)] \in Int
  BY <1>0, <1>1, <1>2, <1>3
<1> QED
  BY <1>0, <1>3, <1>4
\* The sum over a finite set is found in such a table.
LEMMA SumTable ==
  ASSUME NEW S, IsFiniteSet(S), NEW f
  PROVE  \E g: SumFunctionOnSet(f, S) = g[S] /\ Table(f, S, g)
<1>1. PICK g: SumFunctionOnSet(f, S) = g[S] /\ Sums(f, SUBSET S, g)
  BY SumEquation
<1>2. \A s \in SUBSET S: g[s] = Step(f, s, g)
  BY <1>1 DEF Sums
<1>3. \A s \in SUBSET S: s # {} => Pick(s) \in s
  BY DEF Pick
<1>4. Table(f, S, g)
  BY <1>2, <1>3 DEF Step, Table
<1> QED
  BY <1>1, <1>4

LEMMA SumIsInt ==
  ASSUME NEW S, IsFiniteSet(S), NEW f, \A x \in S: f[x] \in Int
  PROVE  SumFunctionOnSet(f, S) \in Int
<1>1. PICK g: SumFunctionOnSet(f, S) = g[S] /\ Table(f, S, g)
  BY SumTable
<1> QED
  BY <1>1, SumsInt

\* Multiples of terms compare as those of the sums.
LEMMA SumAtMost ==
  ASSUME NEW S, IsFiniteSet(S), NEW a \in Nat, NEW b \in Nat,
         NEW f, \A x \in S: f[x] \in Int, NEW h, \A x \in S: h[x] \in Int,
         \A x \in S: a * f[x] <= b * h[x]
  PROVE  a * SumFunctionOnSet(f, S) <= b * SumFunctionOnSet(h, S)
<1>1. PICK g: SumFunctionOnSet(f, S) = g[S] /\ Table(f, S, g)
  BY SumTable
<1>2. PICK k: SumFunctionOnSet(h, S) = k[S] /\ Table(h, S, k)
  BY SumTable
<1>3. \A s \in SUBSET S: g[s] \in Int /\ k[s] \in Int
  BY <1>1, <1>2, SumsInt
<1> DEFINE B == {s \in SUBSET S: ~(a * g[s] <= b * k[s])}
<1> SUFFICES ASSUME B # {} PROVE FALSE
  BY <1>1, <1>2
<1>0. B \in SUBSET (SUBSET S) /\ \A s \in SUBSET S: s \in B <=> ~(a * g[s] <= b * k[s])
  OBVIOUS
<1> HIDE DEF B
<1>4. PICK s \in B: \A x \in s: s \ {x} \notin B
  BY <1>0, LeastSubset
<1>5. s \in SUBSET S /\ s # {}
  <2>1. a * g[{}] <= b * k[{}]
    <3>1. g[{}] = 0 /\ k[{}] = 0 /\ a * 0 = 0 /\ b * 0 = 0
      BY <1>1, <1>2 DEF Table
    <3> QED
      BY <3>1
  <2> QED
    BY <1>0, <2>1
<1> DEFINE x == Pick(s)
           u == s \ {x}
<1>6. x \in s /\ x \in S /\ u \in SUBSET S /\ g[s] = f[x] + g[u] /\ k[s] = h[x] + k[u]
  BY <1>1, <1>2, <1>5 DEF Table
<1>7. a * g[u] <= b * k[u] /\ a * f[x] <= b * h[x]
  BY <1>0, <1>4, <1>6
<1>8. g[u] \in Int /\ k[u] \in Int /\ f[x] \in Int /\ h[x] \in Int
  BY <1>3, <1>6
<1> HIDE DEF x, u
<1>9. /\ a * (f[x] + g[u]) = a * f[x] + a * g[u] /\ a * f[x] \in Int /\ a * g[u] \in Int
      /\ b * (h[x] + k[u]) = b * h[x] + b * k[u] /\ b * h[x] \in Int /\ b * k[u] \in Int
  BY <1>8
<1>10. a * g[s] <= b * k[s]
  BY <1>6, <1>7, <1>8, <1>9
<1> QED
  BY <1>0, <1>5, <1>10

\* A sum of numbers is at least each of them.
LEMMA SumAtLeast ==
  ASSUME NEW S, IsFiniteSet(S), NEW f, \A x \in S: f[x] \in Nat
  PROVE  SumFunctionOnSet(f, S) \in Nat /\ \A x \in S: f[x] <= SumFunctionOnSet(f, S)
<1>1. PICK g: SumFunctionOnSet(f, S) = g[S] /\ Table(f, S, g)
  BY SumTable
<1> DEFINE Fine(s) == g[s] \in Nat /\ \A x \in s: f[x] <= g[s]
           B == {s \in SUBSET S: ~Fine(s)}
<1> SUFFICES ASSUME B # {} PROVE FALSE
  BY <1>1
<1>0. B \in SUBSET (SUBSET S) /\ \A s \in SUBSET S: s \in B <=> ~Fine(s)
  OBVIOUS
<1> HIDE DEF B
<1>4. PICK s \in B: \A x \in s: s \ {x} \notin B
  BY <1>0, LeastSubset
<1>5. s \in SUBSET S /\ s # {}
  <2>1. Fine({})
    BY <1>1 DEF Table
  <2> QED
    BY <1>0, <2>1
<1> DEFINE x == Pick(s)
           u == s \ {x}
<1>6. x \in s /\ x \in S /\ u \in SUBSET S /\ g[s] = f[x] + g[u]
  BY <1>1, <1>5 DEF Table
<1>7. Fine(u) /\ f[x] \in Nat
  BY <1>0, <1>4, <1>6
<1>8. ASSUME NEW y \in s PROVE f[y] <= g[s]
  <2>1. f[y] \in Nat
    BY <1>5
  <2>2. y = x \/ y \in u
    OBVIOUS
  <2> HIDE DEF x, u
  <2> QED
    BY <1>6, <1>7, <2>1, <2>2
<1>9. g[s] \in Nat
  BY <1>6, <1>7
<1> QED
  BY <1>0, <1>5, <1>8, <1>9

-----------------------------------------------------------------------------
(* Counting.                                                               *)

\* The elements of finitely many sets, and what is known of their number.
Members(A, s) == UNION {A[x]: x \in s}
Counts(A, S, f) == \A x \in S: IsFiniteSet(A[x]) /\ f[x] = Cardinality(A[x])

\* Together finitely many finite sets have no more elements than each by itself,
\* and as many when they are disjoint.
LEMMA CountUnion ==
  ASSUME NEW S, IsFiniteSet(S), NEW A, NEW f, Counts(A, S, f)
  PROVE  /\ IsFiniteSet(Members(A, S))
         /\ Cardinality(Members(A, S)) \in Nat /\ SumFunctionOnSet(f, S) \in Int
         /\ Cardinality(Members(A, S)) <= SumFunctionOnSet(f, S)
         /\ (\A x, y \in S: x # y => A[x] \cap A[y] = {})
              => Cardinality(Members(A, S)) = SumFunctionOnSet(f, S)
<1>1. PICK g: SumFunctionOnSet(f, S) = g[S] /\ Table(f, S, g)
  BY SumTable
<1>2. \A x \in S: f[x] \in Int
  BY FS_CardinalityType DEF Counts
<1>3. \A s \in SUBSET S: g[s] \in Int
  BY <1>1, <1>2, SumsInt
<1> DEFINE Disjoint == \A x, y \in S: x # y => A[x] \cap A[y] = {}
           Fine(s) ==
             /\ IsFiniteSet(Members(A, s))
             /\ Cardinality(Members(A, s)) <= g[s]
             /\ Disjoint => Cardinality(Members(A, s)) = g[s]
           B == {s \in SUBSET S: ~Fine(s)}
<1> SUFFICES ASSUME B # {} PROVE FALSE
  BY <1>1, <1>3, FS_CardinalityType
<1>0. B \in SUBSET (SUBSET S) /\ \A s \in SUBSET S: s \in B <=> ~Fine(s)
  OBVIOUS
<1> HIDE DEF B
<1>4. PICK s \in B: \A x \in s: s \ {x} \notin B
  BY <1>0, LeastSubset
<1>5. s \in SUBSET S /\ s # {}
  <2>1. Members(A, {}) = {}
    BY DEF Members
  <2>2. Fine({})
    BY <1>1, <2>1, FS_EmptySet DEF Table
  <2> QED
    BY <1>0, <2>2
<1> DEFINE x == Pick(s)
           u == s \ {x}
<1>6. x \in s /\ x \in S /\ u \in SUBSET S /\ g[s] = f[x] + g[u]
  BY <1>1, <1>5 DEF Table
<1>7. Fine(u)
  BY <1>0, <1>4, <1>6
<1> DEFINE a == A[x]
           m == Members(A, u)
<1>8. IsFiniteSet(a) /\ IsFiniteSet(m) /\ f[x] = Cardinality(a) /\ Cardinality(a) \in Nat /\ Cardinality(m) \in Nat
  BY <1>6, <1>7, FS_CardinalityType DEF Counts
<1>9. Members(A, s) = a \cup m
  <2>1. x \in s /\ u = s \ {x}
    BY <1>6
  <2> HIDE DEF x, u
  <2> QED
    BY <2>1 DEF Members
<1>10. /\ IsFiniteSet(a \cup m)
       /\ Cardinality(a \cup m) = Cardinality(a) + Cardinality(m) - Cardinality(a \cap m)
       /\ Cardinality(a \cap m) \in Nat
  BY <1>8, FS_Union, FS_Intersection, FS_CardinalityType
<1>11. Disjoint => a \cap m = {}
  BY <1>6 DEF Members
<1>12. Cardinality({}) = 0
  BY FS_EmptySet
<1>13. g[u] \in Int /\ Cardinality(m) <= g[u] /\ (Disjoint => Cardinality(m) = g[u])
  BY <1>3, <1>6, <1>7
<1> HIDE DEF x, u, a, m, Disjoint
<1>14. Cardinality(a \cup m) <= g[s]
  BY <1>6, <1>8, <1>10, <1>13
<1>15. Disjoint => Cardinality(a \cup m) = g[s]
  <2> SUFFICES ASSUME Disjoint PROVE Cardinality(a \cup m) = g[s]
    OBVIOUS
  <2>1. Cardinality(a \cap m) = 0 /\ Cardinality(m) = g[u]
    BY <1>11, <1>12, <1>13
  <2> QED
    BY <1>6, <1>8, <1>10, <2>1
<1>16. Fine(s)
  BY <1>9, <1>10, <1>14, <1>15
<1> QED
  BY <1>0, <1>5, <1>16

=============================================================================
