------------------------- MODULE AssignCpus_proofs -------------------------
(***************************************************************************)
(* The properties of AssignCpus, for every topology, set of jobs and       *)
(* requests.                                                               *)
(*                                                                         *)
(* First that the two passes over the CPUs give as many as are asked for   *)
(* (ForemostIs, PickedIs), and where the hook places a job (Placed); then  *)
(* the invariant (PlacementInv): a job has the memory of all nodes         *)
(* its CPUs are on, so that striking off the CPUs of a job node by node    *)
(* misses none (FreeIs).  From it follow the lease and the offer.          *)
(***************************************************************************)
EXTENDS AssignCpus, SumTheorems

-----------------------------------------------------------------------------
(* CPUs, cores and threads.                                                *)

LEMMA CpusFinite ==
  /\ Cpus \subseteq AllCpus /\ AllCpus \subseteq Nat
  /\ IsFiniteSet(AllCpus) /\ IsFiniteSet(Cpus)
  /\ \A S \in SUBSET Cpus: IsFiniteSet(S) /\ Cardinality(S) \in Nat /\ Cardinality(S) <= Cardinality(Cpus)
<1>1. Cpus \subseteq AllCpus /\ AllCpus \subseteq Nat /\ IsFiniteSet(AllCpus)
  BY TopologyOK DEF Cpus, AllCpus
<1>2. IsFiniteSet(Cpus)
  BY <1>1, FS_Subset
<1> QED
  BY <1>1, <1>2, FS_Subset, FS_CardinalityType

LEMMA MinIs ==
  ASSUME NEW T, T \subseteq Nat, T # {}
  PROVE  Min(T) \in T
BY LeastNat DEF Min

LEMMA FirstThreadNat == \A c \in AllCpus: FirstThread(c) \in Nat
<1> SUFFICES ASSUME NEW c \in AllCpus PROVE FirstThread(c) \in Nat
  OBVIOUS
<1>1. c \in Siblings(c) /\ Siblings(c) \subseteq AllCpus
  BY DEF Siblings
<1>2. Min(Siblings(c)) \in Siblings(c)
  BY <1>1, CpusFinite, MinIs
<1> QED
  BY <1>1, <1>2, CpusFinite DEF FirstThread

LEMMA ThreadsPerCoreNat == ThreadsPerCore \in Nat \ {0}
<1>1. CASE AllCpus = {}
  BY <1>1 DEF ThreadsPerCore
<1>2. CASE AllCpus # {}
  <2> DEFINE c == Min(AllCpus)
  <2>1. c \in AllCpus
    BY <1>2, CpusFinite, MinIs
  <2>2. c \in Siblings(c) /\ Siblings(c) \subseteq AllCpus
    BY <2>1 DEF Siblings
  <2>3. IsFiniteSet(Siblings(c)) /\ Cardinality(Siblings(c)) \in Nat
    BY <2>2, CpusFinite, FS_Subset, FS_CardinalityType
  <2>4. Cardinality(Siblings(c)) # 0
    BY <2>2, <2>3, FS_EmptySet
  <2> QED
    BY <1>2, <2>3, <2>4 DEF ThreadsPerCore
<1> QED
  BY <1>1, <1>2

\* The CPUs a job takes for each of its ncpus.
PerCpu == IF UseHyperthreads /\ NcpusAreCores THEN ThreadsPerCore ELSE 1

LEMMA NeededIs ==
  /\ PerCpu \in Nat \ {0}
  /\ \A r \in Requests: /\ r.ncpus \in Nat \ {0} /\ r.mem \in Nat
                        /\ Needed(r) = r.ncpus * PerCpu /\ Needed(r) \in Nat \ {0}
<1>1. PerCpu \in Nat \ {0}
  BY ThreadsPerCoreNat DEF PerCpu
<1>2. ASSUME NEW r \in Requests
      PROVE  r.ncpus \in Nat \ {0} /\ r.mem \in Nat /\ Needed(r) = r.ncpus * PerCpu
  BY RequestsOK DEF Needed, PerCpu
<1>3. \A n \in Nat \ {0}, b \in Nat \ {0}: n * b \in Nat \ {0}
  OBVIOUS
<1> QED
  BY <1>1, <1>2, <1>3

LEMMA UsableIs ==
  ASSUME NEW avail \in SUBSET Cpus
  PROVE  /\ Usable(avail) \in SUBSET avail /\ Usable(avail) \in SUBSET Cpus
         /\ IsFiniteSet(Usable(avail)) /\ Cardinality(Usable(avail)) \in Nat
<1>1. Usable(avail) \in SUBSET avail
  BY DEF Usable
<1> QED
  BY <1>1, CpusFinite

\* With more CPUs available more are usable.
LEMMA UsableMore ==
  ASSUME NEW more \in SUBSET Cpus, NEW avail \in SUBSET more
  PROVE  Usable(avail) \subseteq Usable(more) /\ Cardinality(Usable(avail)) <= Cardinality(Usable(more))
<1>1. Usable(avail) \subseteq Usable(more)
  BY DEF Usable
<1> QED
  BY <1>1, UsableIs, FS_Subset

-----------------------------------------------------------------------------
(* The order in which CPUs are given out.                                  *)

\* A strict order of the CPUs S, no two of which come at once.
OrderOf(S, R) ==
  \A c \in S, d \in S:
    /\ <<c, c>> \notin R
    /\ c # d => <<c, d>> \in R \/ <<d, c>> \in R
    /\ \A e \in S: <<c, d>> \in R /\ <<d, e>> \in R => <<c, e>> \in R

LEMMA Ordered ==
  ASSUME NEW S \in SUBSET Cpus
  PROVE  OrderOf(S, CoreByCore(S)) /\ OrderOf(S, ByNumber(S))
<1>1. \A a \in S: a \in Nat /\ FirstThread(a) \in Nat
  BY CpusFinite, FirstThreadNat
<1>2. ASSUME NEW c \in S, NEW d \in S
      PROVE  /\ <<c, d>> \in ByNumber(S) <=> c < d
             /\ <<c, d>> \in CoreByCore(S) <=>
                  \/ FirstThread(c) < FirstThread(d)
                  \/ FirstThread(c) = FirstThread(d) /\ c < d
  BY DEF ByNumber, CoreByCore
<1>3. ASSUME NEW c \in S, NEW d \in S
      PROVE  /\ <<c, c>> \notin ByNumber(S)
             /\ c # d => <<c, d>> \in ByNumber(S) \/ <<d, c>> \in ByNumber(S)
             /\ \A e \in S: <<c, d>> \in ByNumber(S) /\ <<d, e>> \in ByNumber(S) => <<c, e>> \in ByNumber(S)
  BY <1>1, <1>2
<1>4. ASSUME NEW c \in S, NEW d \in S
      PROVE  /\ <<c, c>> \notin CoreByCore(S)
             /\ c # d => <<c, d>> \in CoreByCore(S) \/ <<d, c>> \in CoreByCore(S)
             /\ \A e \in S: <<c, d>> \in CoreByCore(S) /\ <<d, e>> \in CoreByCore(S) => <<c, e>> \in CoreByCore(S)
  BY <1>1, <1>2
<1> QED
  BY <1>3, <1>4 DEF OrderOf

\* Of some CPUs there is one that comes first.
LEMMA FirstOne ==
  ASSUME NEW S \in SUBSET Cpus, NEW R, OrderOf(S, R), NEW T \in SUBSET S, T # {}
  PROVE  \E x \in T: \A y \in T \ {x}: <<x, y>> \in R
<1> DEFINE Below(x) == {y \in T: <<y, x>> \in R}
           N == {Cardinality(Below(x)): x \in T}
<1>1. ASSUME NEW x \in T
      PROVE  /\ IsFiniteSet(Below(x)) /\ Cardinality(Below(x)) \in Nat
             /\ \A y: y \in Below(x) <=> y \in T /\ <<y, x>> \in R
  <2>1. Below(x) \in SUBSET Cpus
    OBVIOUS
  <2>2. \A y: y \in Below(x) <=> y \in T /\ <<y, x>> \in R
    OBVIOUS
  <2> HIDE DEF Below
  <2> QED
    BY <2>1, <2>2, CpusFinite
<1> HIDE DEF Below
<1>2. PICK n \in N: \A m \in N: n <= m
  <2>1. N \subseteq Nat /\ N # {}
    BY <1>1
  <2> HIDE DEF N
  <2> QED
    BY <2>1, LeastNat
<1>3. PICK x \in T: n = Cardinality(Below(x))
  OBVIOUS
<1>4. ASSUME NEW y \in T \ {x}, <<x, y>> \notin R PROVE FALSE
  <2>0. x \in S /\ y \in S /\ T \subseteq S
    OBVIOUS
  <2>1. <<y, x>> \in R /\ <<y, y>> \notin R
    BY <1>4, <2>0 DEF OrderOf
  <2>2. \A z \in T: <<z, y>> \in R => <<z, x>> \in R
    BY <2>0, <2>1 DEF OrderOf
  <2>3. Below(y) \in SUBSET Below(x) /\ y \in Below(x) /\ y \notin Below(y)
    BY <1>1, <2>1, <2>2
  <2>4. Cardinality(Below(y)) <= Cardinality(Below(x)) /\ Cardinality(Below(y)) # Cardinality(Below(x))
    BY <1>1, <2>3, FS_Subset
  <2>5. Cardinality(Below(x)) <= Cardinality(Below(y))
    BY <1>2, <1>3
  <2> QED
    BY <1>1, <2>4, <2>5
<1> QED
  BY <1>4

Prefix(S, R, k, P) ==
  /\ P \in SUBSET S /\ Cardinality(P) = k
  /\ \A c \in P, d \in S \ P: <<c, d>> \in R

\* However many of them are asked for, there are that many that come first.
LEMMA PrefixExists ==
  ASSUME NEW S \in SUBSET Cpus, NEW R, OrderOf(S, R), NEW k \in Nat, k <= Cardinality(S)
  PROVE  \E P: Prefix(S, R, k, P)
<1> DEFINE Bad == {n \in Nat: n <= Cardinality(S) /\ ~\E P: Prefix(S, R, n, P)}
<1>0. IsFiniteSet(S) /\ Cardinality(S) \in Nat
  BY CpusFinite
<1>1. ASSUME Bad # {} PROVE FALSE
  <2>1. PICK n \in Bad: \A m \in Bad: n <= m
    BY <1>1, LeastNat
  <2>2. n \in Nat /\ n <= Cardinality(S) /\ ~\E P: Prefix(S, R, n, P)
    OBVIOUS
  <2>3. n # 0
    <3>1. Prefix(S, R, 0, {})
      BY FS_EmptySet DEF Prefix
    <3> QED
      BY <2>2, <3>1
  <2>4. n - 1 \in Nat /\ n - 1 \notin Bad
    BY <2>1, <2>2, <2>3
  <2>5. PICK P: Prefix(S, R, n - 1, P)
    BY <1>0, <2>2, <2>4
  <2>6. P \in SUBSET S /\ Cardinality(P) = n - 1 /\ \A c \in P, d \in S \ P: <<c, d>> \in R
    BY <2>5 DEF Prefix
  <2> HIDE DEF Bad
  <2>7. S \ P # {} /\ S \ P \in SUBSET S
    <3>1. ASSUME S \ P = {} PROVE FALSE
      <4>1. P = S
        BY <2>6, <3>1
      <4>2. Cardinality(S) = n - 1
        BY <2>6, <4>1
      <4> QED
        BY <1>0, <2>2, <4>2
    <3> QED
      BY <3>1
  <2>8. PICK x \in S \ P: \A y \in (S \ P) \ {x}: <<x, y>> \in R
    BY <2>7, FirstOne
  <2> DEFINE Q == P \cup {x}
  <2>9. Q \in SUBSET S /\ \A c \in Q, d \in S \ Q: <<c, d>> \in R
    <3>1. ASSUME NEW c \in P, NEW d \in S \ Q PROVE <<c, d>> \in R
      BY <2>6, d \in S \ P
    <3>2. ASSUME NEW d \in S \ Q PROVE <<x, d>> \in R
      BY <2>8, d \in (S \ P) \ {x}
    <3>3. Q \in SUBSET S
      BY <2>6, <2>8
    <3>4. ASSUME NEW c \in Q PROVE c \in P \/ c = x
      OBVIOUS
    <3> QED
      BY <3>1, <3>2, <3>3, <3>4, Zenon
  <2>10. Cardinality(Q) = n
    <3>1. IsFiniteSet(P) /\ Cardinality(P) \in Nat
      BY <1>0, <2>6, FS_Subset, FS_CardinalityType
    <3>2. x \notin P
      BY <2>8
    <3>3. Cardinality(Q) = Cardinality(P) + 1
      BY <3>1, <3>2, FS_AddElement
    <3>4. n \in Nat /\ Cardinality(P) = n - 1
      BY <2>2, <2>6
    <3> HIDE DEF Q
    <3> QED
      BY <3>3, <3>4
  <2>11. Prefix(S, R, n, Q)
    BY <2>9, <2>10 DEF Prefix
  <2> QED
    BY <2>2, <2>11
<1> QED
  BY <1>1

\* A loop that stops once it has n of the CPUs S has n of them, or all.
LEMMA ForemostIs ==
  ASSUME NEW S \in SUBSET Cpus, NEW R, OrderOf(S, R), NEW n \in Nat
  PROVE  /\ Foremost(S, n, R) \in SUBSET S
         /\ n <= Cardinality(S) => Cardinality(Foremost(S, n, R)) = n
         /\ n >= Cardinality(S) => Foremost(S, n, R) = S
<1> DEFINE Below(x) == {d \in S: <<d, x>> \in R}
<1>0. IsFiniteSet(S) /\ Cardinality(S) \in Nat
  BY CpusFinite
<1>1. ASSUME NEW x \in S
      PROVE  /\ IsFiniteSet(Below(x)) /\ Cardinality(Below(x)) \in Nat
             /\ Below(x) \in SUBSET S /\ x \notin Below(x)
  <2>1. Below(x) \in SUBSET S /\ x \notin Below(x)
    BY DEF OrderOf
  <2> HIDE DEF Below
  <2> QED
    BY <1>0, <2>1, FS_Subset, FS_CardinalityType
<1>2. \A x: x \in Foremost(S, n, R) <=> x \in S /\ Cardinality(Below(x)) < n
  BY DEF Foremost
<1>3. ASSUME n >= Cardinality(S), NEW x \in S PROVE Cardinality(Below(x)) < n
  <2>1. Cardinality(Below(x)) <= Cardinality(S) /\ Cardinality(Below(x)) # Cardinality(S)
    BY <1>0, <1>1, FS_Subset
  <2> HIDE DEF Below
  <2> QED
    BY <1>0, <1>1, <1>3, <2>1
<1>4. ASSUME n <= Cardinality(S) PROVE Cardinality(Foremost(S, n, R)) = n
  <2>1. PICK P: Prefix(S, R, n, P)
    BY <1>4, PrefixExists
  <2>2. P \in SUBSET S /\ Cardinality(P) = n /\ IsFiniteSet(P)
        /\ \A c \in P, d \in S \ P: <<c, d>> \in R
    BY <1>0, <2>1, FS_Subset DEF Prefix
  <2>3. ASSUME NEW x \in P PROVE Cardinality(Below(x)) < n
    <3>1. Below(x) \in SUBSET P
      BY <2>2 DEF OrderOf
    <3>2. x \in P /\ x \notin Below(x) /\ Cardinality(Below(x)) \in Nat
      BY <1>1, <2>2
    <3> HIDE DEF Below
    <3>3. Cardinality(Below(x)) <= n /\ Cardinality(Below(x)) # n
      BY <2>2, <3>1, <3>2, FS_Subset
    <3> QED
      BY <3>2, <3>3
  <2>4. ASSUME NEW x \in S \ P PROVE ~(Cardinality(Below(x)) < n)
    <3>1. P \in SUBSET Below(x)
      BY <2>2
    <3>2. IsFiniteSet(Below(x)) /\ Cardinality(Below(x)) \in Nat
      BY <1>1
    <3> HIDE DEF Below
    <3>3. n <= Cardinality(Below(x))
      BY <2>2, <3>1, <3>2, FS_Subset
    <3> QED
      BY <3>2, <3>3
  <2> HIDE DEF Below
  <2>5. Foremost(S, n, R) = P
    BY <1>2, <2>2, <2>3, <2>4
  <2> QED
    BY <2>2, <2>5
<1> HIDE DEF Below
<1> QED
  BY <1>2, <1>3, <1>4

\* The two passes give out just as many CPUs as are asked for, whenever that many
\* are usable: the count of the first is right for the second.
LEMMA PickedIs ==
  ASSUME NEW avail \in SUBSET Cpus, NEW k \in Nat, k <= Cardinality(Usable(avail))
  PROVE  Picked(avail, k) \in SUBSET Usable(avail) /\ Cardinality(Picked(avail, k)) = k
<1> DEFINE threads == UNION {Threads(e): e \in EmptyCores(avail)}
           given == Foremost(threads, k, CoreByCore(threads))
           rest == Usable(avail) \ given
           left == k - Cardinality(given)
           then == Foremost(rest, left, ByNumber(rest))
<1>1. Usable(avail) \in SUBSET Cpus /\ IsFiniteSet(Usable(avail)) /\ Cardinality(Usable(avail)) \in Nat
  BY UsableIs
<1>2. threads \in SUBSET Usable(avail)
  BY DEF EmptyCores, Usable
<1>3. Picked(avail, k) = IF left > Cardinality(rest) THEN {} ELSE given \cup then
  BY DEF Picked
<1> HIDE DEF threads
<1>4. IsFiniteSet(threads) /\ Cardinality(threads) \in Nat /\ threads \in SUBSET Cpus
  BY <1>1, <1>2, FS_Subset, FS_CardinalityType
<1>5. /\ given \in SUBSET threads
      /\ k <= Cardinality(threads) => Cardinality(given) = k
      /\ k >= Cardinality(threads) => given = threads
  BY <1>4, Ordered, ForemostIs
<1> HIDE DEF given
<1>6. /\ given \in SUBSET Usable(avail) /\ IsFiniteSet(given)
      /\ Cardinality(given) \in Nat /\ Cardinality(given) <= k
  <2>1. given \in SUBSET Usable(avail) /\ IsFiniteSet(given) /\ Cardinality(given) \in Nat
    BY <1>1, <1>2, <1>5, FS_Subset, FS_CardinalityType
  <2> QED
    BY <1>4, <1>5, <2>1
<1>7. left \in Nat
  BY <1>6
<1>8. /\ rest \in SUBSET Cpus /\ IsFiniteSet(rest) /\ Cardinality(rest) \in Nat
      /\ Cardinality(rest) = Cardinality(Usable(avail)) - Cardinality(given)
  <2>1. Usable(avail) \cap given = given
    BY <1>6
  <2>2. Cardinality(rest) = Cardinality(Usable(avail)) - Cardinality(Usable(avail) \cap given)
    BY <1>1, FS_Difference
  <2>3. rest \in SUBSET Usable(avail)
    OBVIOUS
  <2> HIDE DEF rest
  <2> QED
    BY <1>1, <2>1, <2>2, <2>3, FS_Subset, FS_CardinalityType
<1>9. left <= Cardinality(rest)
  BY <1>1, <1>6, <1>8
<1>10. given \cap rest = {} /\ rest \in SUBSET Usable(avail)
  OBVIOUS
<1> HIDE DEF rest, left
<1>11. then \in SUBSET rest /\ Cardinality(then) = left
  BY <1>7, <1>8, <1>9, Ordered, ForemostIs
<1> HIDE DEF then
<1>12. IsFiniteSet(then) /\ given \cap then = {}
  BY <1>8, <1>10, <1>11, FS_Subset
<1>13. Cardinality(given \cup then) = Cardinality(given) + Cardinality(then)
  <2>1. Cardinality(given \cup then) = Cardinality(given) + Cardinality(then) - Cardinality(given \cap then)
    BY <1>6, <1>12, FS_Union
  <2> QED
    BY <1>6, <1>7, <1>11, <1>12, <2>1, FS_EmptySet
<1>14. Picked(avail, k) = given \cup then
  BY <1>3, <1>7, <1>8, <1>9
<1>15. left = k - Cardinality(given)
  BY DEF left
<1> QED
  BY <1>6, <1>10, <1>11, <1>13, <1>14, <1>15

-----------------------------------------------------------------------------
(* What the hook gives a job.                                              *)

Fits(r, avail, mem) == Needed(r) <= Cardinality(Usable(avail)) /\ r.mem <= mem

LEMMA AssignedIs ==
  ASSUME NEW r \in Requests, NEW avail \in SUBSET Cpus, NEW mem \in Nat, NEW nodes,
         NEW new, new = AssignResources(r, avail, mem, nodes)
  PROVE  /\ Fits(r, avail, mem) =>
              /\ new.cpus \in SUBSET Usable(avail) /\ Cardinality(new.cpus) = Needed(r)
              /\ new.cpus # {} /\ new.mems = nodes /\ new # NoResources
         /\ ~Fits(r, avail, mem) => new = NoResources
<1>1. Needed(r) \in Nat \ {0} /\ r.mem \in Nat /\ Cardinality(Usable(avail)) \in Nat
  BY NeededIs, UsableIs
<1>2. CASE Fits(r, avail, mem)
  <2> DEFINE picked == Picked(avail, Needed(r))
  <2>1. picked \in SUBSET Usable(avail) /\ Cardinality(picked) = Needed(r)
    BY <1>1, <1>2, PickedIs DEF Fits
  <2> HIDE DEF picked
  <2>5. picked # {}
    BY <1>1, <2>1, FS_EmptySet
  <2>2. new = [cpus |-> picked, mems |-> nodes]
    BY <1>1, <1>2, <2>5 DEF AssignResources, Fits, picked
  <2>3. new.cpus \in SUBSET Usable(avail) /\ Cardinality(new.cpus) = Needed(r) /\ new.mems = nodes
    BY <2>1, <2>2
  <2>4. new.cpus # {}
    BY <1>1, <2>3, FS_EmptySet
  <2> QED
    BY <1>2, <2>3, <2>4 DEF NoResources
<1>3. CASE ~Fits(r, avail, mem)
  BY <1>1, <1>3 DEF AssignResources, Fits
<1> QED
  BY <1>2, <1>3

LEMMA AvailableSub ==
  ASSUME NEW except
  PROVE  /\ \A n \in Nodes: AvailableOn(n, except) \in SUBSET CpusOf[n] /\ AvailableOn(n, except) \in SUBSET Cpus
         /\ Free(except) \in SUBSET Cpus
         /\ \A n \in Nodes: AvailableOn(n, except) \in SUBSET Free(except)
BY DEF AvailableOn, Free, Cpus

HostMem == SumFunctionOnSet(MemOf, Nodes)

LEMMA HostMemIs == HostMem \in Nat /\ \A n \in Nodes: MemOf[n] \in Nat /\ MemOf[n] <= HostMem
<1>1. IsFiniteSet(Nodes) /\ \A n \in Nodes: MemOf[n] \in Nat
  BY TopologyOK
<1> QED
  BY <1>1, SumAtLeast DEF HostMem

\* The memory nodes of a job are those its CPUs are on, at least.
Covers(S, nodes) == \A n \in Nodes: S \cap CpusOf[n] # {} => n \in nodes

FitsOn(r, n, except) == Fits(r, AvailableOn(n, except), MemOf[n])

\* The host takes a job just when what it asks for is there, on one node or on all;
\* then the job gets that many CPUs, with the memory of their nodes, and of one
\* node only where one has enough.
LEMMA Placed ==
  ASSUME NEW r \in Requests, NEW except, NEW new, new = AssignJob(r, except)
  PROVE  /\ Fits(r, Free(except), HostMem) =>
              /\ new # NoResources /\ new.cpus # {}
              /\ new.cpus \in SUBSET Usable(Free(except)) /\ Cardinality(new.cpus) = Needed(r)
              /\ new.mems \in SUBSET Nodes /\ Covers(new.cpus, new.mems)
              /\ (\E n \in Nodes: FitsOn(r, n, except)) => \E n \in Nodes: new.cpus \subseteq CpusOf[n]
         /\ ~Fits(r, Free(except), HostMem) => new = NoResources
         /\ (\E n \in Nodes: FitsOn(r, n, except)) => Fits(r, Free(except), HostMem)
<1> DEFINE fitting == {n \in Nodes: OnNode(r, n, except) # NoResources}
           all == Free(except)
           On(n) == AvailableOn(n, except)
<1>0. /\ all \in SUBSET Cpus
      /\ \A n \in Nodes: On(n) \in SUBSET all /\ On(n) \in SUBSET CpusOf[n] /\ On(n) \in SUBSET Cpus
      /\ HostMem \in Nat /\ \A n \in Nodes: MemOf[n] \in Nat /\ MemOf[n] <= HostMem
      /\ Needed(r) \in Nat /\ r.mem \in Nat /\ Cardinality(Usable(all)) \in Nat
  BY AvailableSub, HostMemIs, NeededIs, UsableIs
<1>1. ASSUME NEW n \in Nodes
      PROVE  /\ FitsOn(r, n, except) =>
                  LET one == OnNode(r, n, except)
                  IN /\ one.cpus \in SUBSET Usable(On(n)) /\ Cardinality(one.cpus) = Needed(r)
                     /\ one.cpus # {} /\ one.mems = {n} \cup MemoryOnly /\ one # NoResources
             /\ ~FitsOn(r, n, except) => OnNode(r, n, except) = NoResources
  <2> DEFINE one == OnNode(r, n, except)
             avail == On(n)
             nodes == {n} \cup MemoryOnly
  <2>1. one = AssignResources(r, avail, MemOf[n], nodes) /\ avail \in SUBSET Cpus /\ MemOf[n] \in Nat
    BY <1>0 DEF OnNode
  <2> HIDE DEF one, avail, nodes
  <2>2. /\ Fits(r, avail, MemOf[n]) =>
             /\ one.cpus \in SUBSET Usable(avail) /\ Cardinality(one.cpus) = Needed(r)
             /\ one.cpus # {} /\ one.mems = nodes /\ one # NoResources
        /\ ~Fits(r, avail, MemOf[n]) => one = NoResources
    BY <2>1, AssignedIs
  <2> QED
    BY <2>2 DEF FitsOn, one, avail, nodes
<1>2. ASSUME NEW n \in Nodes, FitsOn(r, n, except)
      PROVE  Fits(r, all, HostMem)
  <2>1. Cardinality(Usable(On(n))) <= Cardinality(Usable(all)) /\ Cardinality(Usable(On(n))) \in Nat
    BY <1>0, UsableMore, UsableIs
  <2> QED
    BY <1>0, <1>2, <2>1 DEF FitsOn, Fits
<1>3. CASE fitting # {}
  <2> DEFINE n == CHOOSE m \in fitting: \A k \in fitting \ {m}: Before(m, k)
  <2>1. n \in fitting
    <3>1. fitting \subseteq Nat
      BY TopologyOK
    <3> HIDE DEF fitting
    <3>2. \E m \in fitting: \A k \in fitting: m <= k
      BY <1>3, <3>1, LeastNat
    <3>3. \E m \in fitting: \A k \in fitting \ {m}: Before(m, k)
      BY <3>1, <3>2 DEF Before, JobCount
    <3> QED
      BY <3>3
  <2>2. new = OnNode(r, n, except)
    BY <1>3 DEF AssignJob
  <2> HIDE DEF n
  <2>3. n \in Nodes /\ FitsOn(r, n, except)
    BY <1>1, <2>1
  <2>4. /\ new.cpus \in SUBSET Usable(On(n)) /\ Cardinality(new.cpus) = Needed(r)
        /\ new.cpus # {} /\ new.mems = {n} \cup MemoryOnly /\ new # NoResources
    BY <1>1, <2>2, <2>3
  <2>5. Usable(On(n)) \subseteq Usable(all) /\ Usable(On(n)) \subseteq On(n)
    BY <1>0, <2>3, UsableMore, UsableIs
  <2>6. new.cpus \in SUBSET CpusOf[n] /\ new.cpus \in SUBSET Usable(all)
    BY <1>0, <2>3, <2>4, <2>5
  <2>7. Covers(new.cpus, new.mems) /\ new.mems \in SUBSET Nodes
    BY <2>3, <2>4, <2>6, TopologyOK DEF Covers, MemoryOnly
  <2>8. Fits(r, all, HostMem)
    BY <1>2, <2>3
  <2> QED
    BY <2>3, <2>4, <2>6, <2>7, <2>8
<1>4. CASE fitting = {}
  <2>1. \A n \in Nodes: ~FitsOn(r, n, except)
    BY <1>1, <1>4
  <2>2. new = AssignResources(r, all, HostMem, Nodes)
    BY <1>4 DEF AssignJob, Spanning, Free, HostMem
  <2>3. /\ Fits(r, all, HostMem) =>
             /\ new.cpus \in SUBSET Usable(all) /\ Cardinality(new.cpus) = Needed(r)
             /\ new.cpus # {} /\ new.mems = Nodes /\ new # NoResources
        /\ ~Fits(r, all, HostMem) => new = NoResources
    BY <1>0, <2>2, AssignedIs
  <2> QED
    BY <2>1, <2>3 DEF Covers
<1> QED
  BY <1>3, <1>4

\* A job is given what is free, as much as it needs, or goes back to the server.
LEMMA PlacementHolds == PlacementComplete
<1> SUFFICES ASSUME NEW r \in Requests, NEW except \in {{}} \cup {{j}: j \in Jobs}
             PROVE  LET new == AssignJob(r, except)
                    IN IF /\ Needed(r) <= Cardinality(Usable(Free(except)))
                          /\ r.mem <= SumFunctionOnSet(MemOf, Nodes)
                       THEN new.cpus \subseteq Free(except) /\ Cardinality(new.cpus) = Needed(r)
                       ELSE new = NoResources
  BY DEF PlacementComplete
<1>1. Usable(Free(except)) \subseteq Free(except)
  BY AvailableSub, UsableIs
<1> QED
  BY <1>1, Placed DEF Fits, HostMem

-----------------------------------------------------------------------------
(* The invariant.                                                          *)

\* Each job that is here has as many CPUs as a request asked for, usable ones, and
\* the memory of all their nodes; only such jobs are suspended.
PlacementInv ==
  /\ TypeOK
  /\ \A j \in Jobs: cpus[j] \subseteq Usable(Cpus) /\ Covers(cpus[j], mems[j])
  /\ \A j \in Jobs: cpus[j] # {} => \E r \in Requests: Cardinality(cpus[j]) = Needed(r)
  /\ \A j \in suspended: cpus[j] # {}

LEMMA InitPlacement == Init => PlacementInv
BY DEF Init, PlacementInv, TypeOK, Covers

\* What is free is struck off nowhere else than it is used.
LEMMA FreeIs ==
  ASSUME PlacementInv, NEW except
  PROVE  Free(except) = Cpus \ UNION {cpus[k]: k \in Jobs \ (suspended \cup except)}
<1>1. ASSUME NEW n \in Nodes, NEW c \in CpusOf[n], NEW k \in Jobs, c \in cpus[k]
      PROVE  n \in mems[k]
  BY <1>1 DEF PlacementInv, Covers
<1>2. ASSUME NEW n \in Nodes, NEW c \in CpusOf[n]
      PROVE  c \in AvailableOn(n, except) <=> c \notin UNION {cpus[k]: k \in Jobs \ (suspended \cup except)}
  BY <1>1 DEF AvailableOn
<1>3. \A n \in Nodes: AvailableOn(n, except) \subseteq CpusOf[n]
  BY DEF AvailableOn
<1> QED
  BY <1>2, <1>3 DEF Free, Cpus

LEMMA ConfigurePlacement ==
  ASSUME PlacementInv, NEW j \in Jobs, NEW r \in Requests, NEW except, j \notin suspended, Configure(j, r, except)
  PROVE  PlacementInv'
<1> DEFINE new == AssignJob(r, except)
<1>1. /\ new # NoResources
      /\ cpus' = [cpus EXCEPT ![j] = new.cpus] /\ mems' = [mems EXCEPT ![j] = new.mems]
      /\ preempted' = preempted \ {j} /\ suspended' = suspended
  BY DEF Configure
<1>2. /\ new.cpus # {} /\ new.cpus \in SUBSET Usable(Free(except)) /\ Cardinality(new.cpus) = Needed(r)
      /\ new.mems \in SUBSET Nodes /\ Covers(new.cpus, new.mems)
  BY <1>1, Placed
<1> HIDE DEF new
<1>3. new.cpus \in SUBSET Usable(Cpus) /\ new.cpus \in SUBSET Cpus
  <2>1. Free(except) \in SUBSET Cpus
    BY AvailableSub
  <2>2. Cpus \in SUBSET Cpus
    OBVIOUS
  <2> QED
    BY <1>2, <2>1, <2>2, UsableMore, UsableIs
<1>4. \A k \in Jobs: /\ cpus'[k] = IF k = j THEN new.cpus ELSE cpus[k]
                     /\ mems'[k] = IF k = j THEN new.mems ELSE mems[k]
  BY <1>1 DEF PlacementInv, TypeOK
<1>5. TypeOK'
  BY <1>1, <1>2, <1>3 DEF PlacementInv, TypeOK
<1>6. \A k \in Jobs: cpus'[k] \subseteq Usable(Cpus) /\ Covers(cpus'[k], mems'[k])
  BY <1>2, <1>3, <1>4 DEF PlacementInv
<1>7. \A k \in Jobs: cpus'[k] # {} => \E q \in Requests: Cardinality(cpus'[k]) = Needed(q)
  BY <1>2, <1>4 DEF PlacementInv
<1>8. \A k \in suspended': cpus'[k] # {}
  BY <1>1, <1>4 DEF PlacementInv, TypeOK
<1> QED
  BY <1>5, <1>6, <1>7, <1>8 DEF PlacementInv

LEMMA NextPlacement == PlacementInv /\ [Next]_vars => PlacementInv'
<1> SUFFICES ASSUME PlacementInv, [Next]_vars PROVE PlacementInv'
  OBVIOUS
<1>1. ASSUME NEW j \in Jobs, NEW r \in Requests, Begin(j, r) PROVE PlacementInv'
  <2>1. j \notin suspended
    BY <1>1 DEF Begin, PlacementInv
  <2> QED
    BY <1>1, <2>1, ConfigurePlacement DEF Begin
<1>2. ASSUME NEW j \in Jobs, NEW r \in Requests, Resize(j, r) PROVE PlacementInv'
  BY <1>2, ConfigurePlacement DEF Resize
<1>3. ASSUME NEW j \in Jobs, End(j) PROVE PlacementInv'
  <2>1. \A k \in Jobs: /\ cpus'[k] = IF k = j THEN {} ELSE cpus[k]
                       /\ mems'[k] = IF k = j THEN {} ELSE mems[k]
    BY <1>3 DEF End, PlacementInv, TypeOK
  <2>2. TypeOK' /\ \A k \in suspended': k # j /\ k \in suspended /\ k \in Jobs
    BY <1>3 DEF End, PlacementInv, TypeOK
  <2>3. \A k \in Jobs: cpus'[k] \subseteq Usable(Cpus) /\ Covers(cpus'[k], mems'[k])
    BY <2>1 DEF PlacementInv, Covers
  <2> QED
    BY <2>1, <2>2, <2>3 DEF PlacementInv
<1>4. ASSUME NEW j \in Jobs, Suspend(j) PROVE PlacementInv'
  BY <1>4 DEF Suspend, PlacementInv, TypeOK
<1>5. ASSUME NEW j \in Jobs, Resume(j) PROVE PlacementInv'
  BY <1>5 DEF Resume, PlacementInv, TypeOK
<1>6. CASE UNCHANGED vars
  BY <1>6 DEF vars, PlacementInv, TypeOK
<1> QED
  BY <1>1, <1>2, <1>3, <1>4, <1>5, <1>6 DEF Next

\* Whatever jobs were placed, spread, resized and suspended before, the hook knows
\* the memory nodes of all the CPUs that are in use, and gives out usable ones.
THEOREM PlacementInvariant == Spec => []PlacementInv
<1>1. Init => PlacementInv
  BY InitPlacement
<1>2. PlacementInv /\ [Next]_vars => PlacementInv'
  BY NextPlacement
<1> QED
  BY <1>1, <1>2, PTL DEF Spec

\* Every variable keeps its type, and only jobs that were suspended since they were
\* configured are suspended.
THEOREM TypeCorrect == Spec => []TypeOK
<1>1. PlacementInv => TypeOK
  BY DEF PlacementInv
<1> QED
  BY <1>1, PlacementInvariant, PTL

\* In every state a job that asks for no more than is free gets it.
THEOREM AlwaysComplete == Spec => []PlacementComplete
<1>1. PlacementComplete
  BY PlacementHolds
<1> QED
  BY <1>1, PTL

\* A job is spread over nodes only when no node has what it asks for.
THEOREM AlwaysStaysOnNode == Spec => StaysOnNode
<1>1. ASSUME NEW j \in Jobs, NEW r \in Requests, PlacementInv, Begin(j, r),
             NEW n \in Nodes, Needed(r) <= Cardinality(Usable(AvailableOn(n, {}))), r.mem <= MemOf[n]
      PROVE  \E m \in Nodes: cpus'[j] \subseteq CpusOf[m]
  <2> DEFINE new == AssignJob(r, {})
  <2>1. FitsOn(r, n, {})
    BY <1>1 DEF FitsOn, Fits
  <2>2. \E m \in Nodes: new.cpus \subseteq CpusOf[m]
    BY <2>1, Placed
  <2>3. cpus'[j] = new.cpus
    BY <1>1 DEF Begin, Configure, PlacementInv, TypeOK
  <2> QED
    BY <2>2, <2>3
<1> DEFINE Stays == \A j \in Jobs, r \in Requests:
                      Begin(j, r) /\ (\E n \in Nodes: /\ Needed(r) <= Cardinality(Usable(AvailableOn(n, {})))
                                                     /\ r.mem <= MemOf[n])
                        => \E n \in Nodes: cpus'[j] \subseteq CpusOf[n]
<1>2. PlacementInv /\ [Next]_vars => [Stays]_vars
  BY <1>1
<1> QED
  BY <1>2, PlacementInvariant, PTL DEF Spec, StaysOnNode

-----------------------------------------------------------------------------
(* The leases.                                                             *)

LEMMA ConfigureGrants ==
  ASSUME PlacementInv, NEW j \in Jobs, NEW r \in Requests, NEW except \in {{}, {j}},
         cpus[j] = {} \/ except = {j}, Configure(j, r, except)
  PROVE  Lease!Grant(j)
<1> DEFINE new == AssignJob(r, except)
<1>1. /\ new # NoResources /\ cpus' = [cpus EXCEPT ![j] = new.cpus] /\ preempted' = preempted \ {j}
  BY DEF Configure
<1>2. new.cpus # {} /\ new.cpus \subseteq Free(except)
  <2>1. new.cpus # {} /\ new.cpus \subseteq Usable(Free(except))
    BY <1>1, Placed
  <2> QED
    BY <2>1, AvailableSub, UsableIs
<1> HIDE DEF new
<1>3. Free(except) \subseteq Lease!Free(j)
  <2>1. suspended \subseteq preempted
    BY DEF PlacementInv, TypeOK
  <2> QED
    BY <2>1, FreeIs DEF Lease!Free
<1> QED
  BY <1>1, <1>2, <1>3 DEF Lease!Grant

\* Leases that are granted from what is free are shared by no two jobs, but for
\* parked ones: what CpuLease promises, from its own steps.
LEMMA LeaseStep ==
  ASSUME TypeOK, Lease!Exclusive, [Lease!Next]_<<cpus, preempted>>
  PROVE  Lease!Exclusive'
<1> SUFFICES ASSUME NEW j \in Jobs, NEW k \in Jobs, j # k, j \notin preempted', k \notin preempted'
             PROVE  cpus'[j] \cap cpus'[k] = {}
  BY DEF Lease!Exclusive
<1>0. cpus \in [Jobs -> SUBSET Cpus] /\ \A x, y \in Jobs \ preempted: x # y => cpus[x] \cap cpus[y] = {}
  BY DEF TypeOK, Lease!Exclusive
<1>1. ASSUME NEW i \in Jobs, Lease!Grant(i) PROVE cpus'[j] \cap cpus'[k] = {}
  <2>1. PICK S \in SUBSET Lease!Free(i): cpus' = [cpus EXCEPT ![i] = S]
    BY <1>1 DEF Lease!Grant
  <2>2. preempted' = preempted \ {i}
    BY <1>1 DEF Lease!Grant
  <2>3. \A x \in Jobs \ (preempted \cup {i}): S \cap cpus[x] = {}
    BY DEF Lease!Free
  <2>4. \A x \in Jobs: cpus'[x] = IF x = i THEN S ELSE cpus[x]
    BY <1>0, <2>1
  <2> QED
    BY <1>0, <2>2, <2>3, <2>4
<1>2. ASSUME NEW i \in Jobs, Lease!Return(i) PROVE cpus'[j] \cap cpus'[k] = {}
  BY <1>0, <1>2 DEF Lease!Return
<1>3. ASSUME NEW i \in Jobs, Lease!Park(i) PROVE cpus'[j] \cap cpus'[k] = {}
  BY <1>0, <1>3 DEF Lease!Park
<1>4. CASE UNCHANGED <<cpus, preempted>>
  BY <1>0, <1>4
<1> QED
  BY <1>1, <1>2, <1>3, <1>4 DEF Lease!Next

LEMMA NextLease == PlacementInv /\ [Next]_vars => [Lease!Next]_<<cpus, preempted>>
<1> SUFFICES ASSUME PlacementInv, [Next]_vars PROVE [Lease!Next]_<<cpus, preempted>>
  OBVIOUS
<1>1. ASSUME NEW j \in Jobs, NEW r \in Requests, Begin(j, r) PROVE Lease!Grant(j)
  BY <1>1, ConfigureGrants DEF Begin
<1>2. ASSUME NEW j \in Jobs, NEW r \in Requests, Resize(j, r) PROVE Lease!Grant(j)
  BY <1>2, ConfigureGrants DEF Resize
<1>3. ASSUME NEW j \in Jobs, End(j) PROVE Lease!Return(j)
  BY <1>3 DEF End, Lease!Return
<1>4. ASSUME NEW j \in Jobs, Suspend(j) PROVE Lease!Park(j)
  BY <1>4 DEF Suspend, Lease!Park
<1>5. ASSUME NEW j \in Jobs, Resume(j) PROVE UNCHANGED <<cpus, preempted>>
  BY <1>5 DEF Resume
<1>6. CASE UNCHANGED vars
  BY <1>6 DEF vars
<1> QED
  BY <1>1, <1>2, <1>3, <1>4, <1>5, <1>6 DEF Next, Lease!Next

\* The hook implements the leases of CpuLease: a job begins or is resized on CPUs
\* that no other job has, but for jobs that were suspended; it returns them when it
\* ends; suspending it parks its lease, and resuming it changes nothing.
THEOREM PlacementImplementsLease == Spec => ImplementsLease
<1>1. Init => Lease!Init
  BY DEF Init, Lease!Init
<1> QED
  BY <1>1, NextLease, PlacementInvariant, PTL DEF Spec, ImplementsLease, Lease!Spec

\* Jobs that were not suspended since they were configured share no CPU
\* (available_node_resources, assign_job), over resizes and jobs spread over nodes.
THEOREM JobsShareNothing == Spec => []Lease!Exclusive
<1>1. Init => Lease!Exclusive
  BY DEF Init, Lease!Exclusive
<1>2. PlacementInv /\ Lease!Exclusive /\ [Next]_vars => Lease!Exclusive'
  BY NextLease, LeaseStep DEF PlacementInv
<1> QED
  BY <1>1, <1>2, PlacementInvariant, PTL DEF Spec

\* What a job has, it may have again when it is resized, unless a suspended job
\* has been resumed.
LEMMA OwnCpusFree ==
  ASSUME PlacementInv, Lease!Exclusive, preempted \subseteq suspended, NEW j \in Jobs \ suspended
  PROVE  /\ cpus[j] \subseteq Usable(Free({j}))
         /\ Cardinality(cpus[j]) <= Cardinality(Usable(Free({j})))
         /\ Cardinality(cpus[j]) \in Nat /\ Cardinality(Usable(Free({j}))) \in Nat
<1> DEFINE E == {j}
<1>1. cpus[j] \subseteq Usable(Cpus) /\ cpus[j] \in SUBSET Cpus
  BY DEF PlacementInv, TypeOK
<1>2. Free(E) = Cpus \ UNION {cpus[k]: k \in Jobs \ (suspended \cup E)}
  <2> HIDE DEF E
  <2> QED
    BY FreeIs
<1>3. \A k \in Jobs \ (suspended \cup E): cpus[k] \cap cpus[j] = {}
  BY DEF Lease!Exclusive
<1>4. cpus[j] \subseteq Free(E)
  BY <1>1, <1>2, <1>3
<1>5. cpus[j] \subseteq Usable(Free(E))
  BY <1>1, <1>4 DEF Usable
<1>6. Free(E) \in SUBSET Cpus
  <2> HIDE DEF E
  <2> QED
    BY AvailableSub
<1> DEFINE U == Usable(Free(E))
<1>7. IsFiniteSet(U) /\ Cardinality(U) \in Nat
  BY <1>6, UsableIs
<1> HIDE DEF U
<1>8. Cardinality(cpus[j]) <= Cardinality(U) /\ Cardinality(cpus[j]) \in Nat
  BY <1>5, <1>7, FS_Subset, FS_CardinalityType DEF U
<1> QED
  BY <1>5, <1>7, <1>8 DEF U

\* The resize event of a job that gives CPUs back is not refused, however the
\* other jobs have been placed, as long as no suspended job has been resumed
\* (_execjob_resize_handler, available_node_resources).
THEOREM ShrinkAlwaysFits == Spec => []ShrinkFits
<1>1. ASSUME PlacementInv, Lease!Exclusive PROVE ShrinkFits
  <2> SUFFICES ASSUME preempted \subseteq suspended, NEW j \in Jobs \ suspended, NEW r \in Requests,
                      Needed(r) <= Cardinality(cpus[j]), r.mem <= HostMem
               PROVE  AssignJob(r, {j}) # NoResources
    BY DEF ShrinkFits, HostMem
  <2> DEFINE E == {j}
  <2>1. /\ Cardinality(cpus[j]) <= Cardinality(Usable(Free(E)))
        /\ Cardinality(cpus[j]) \in Nat /\ Cardinality(Usable(Free(E))) \in Nat
    BY <1>1, OwnCpusFree
  <2>2. Needed(r) \in Nat
    BY NeededIs
  <2> HIDE DEF E
  <2>3. Needed(r) <= Cardinality(Usable(Free(E)))
    BY <2>1, <2>2
  <2>4. Fits(r, Free(E), HostMem)
    BY <2>3 DEF Fits
  <2>5. AssignJob(r, E) # NoResources
    BY <2>4, Placed
  <2> QED
    BY <2>5 DEF E
<1> QED
  BY <1>1, PlacementInvariant, JobsShareNothing, PTL

\* CgroupsHook strikes off the CPUs of the other jobs that are not suspended,
\* whatever node they are on, and lets the hook pick any of the rest.
NotTaken(except) == Cpus \ UNION {cpus[k]: k \in Jobs \ (suspended \cup except)}

PicksAsMany ==
  \A r \in Requests: \A except \in {{}} \cup {{j}: j \in Jobs}:
    LET new == AssignJob(r, except)
    IN r.mem <= HostMem =>
         /\ new # NoResources <=> r.ncpus <= Cardinality(NotTaken(except))
         /\ new # NoResources => /\ new.cpus \subseteq NotTaken(except)
                                 /\ Cardinality(new.cpus) = r.ncpus

\* What CgroupsHook leaves open when it assigns CPUs, this module decides within
\* those bounds: where hyperthreads count as ncpus (use_hyperthreads true and
\* ncpus_are_cores false, as shipped), the hook takes a job just when as many CPUs
\* are not taken as the job has ncpus, and gives it that many of these.
THEOREM ChoiceOfCgroupsHook == ASSUME UseHyperthreads, ~NcpusAreCores PROVE Spec => []PicksAsMany
<1>1. ASSUME PlacementInv PROVE PicksAsMany
  <2> SUFFICES ASSUME NEW r \in Requests, NEW except, r.mem <= HostMem
               PROVE  LET new == AssignJob(r, except)
                      IN /\ new # NoResources <=> r.ncpus <= Cardinality(NotTaken(except))
                         /\ new # NoResources => /\ new.cpus \subseteq NotTaken(except)
                                                 /\ Cardinality(new.cpus) = r.ncpus
    BY DEF PicksAsMany
  <2> DEFINE free == NotTaken(except)
             new == AssignJob(r, except)
  <2>1. Free(except) = free
    BY <1>1, FreeIs DEF NotTaken
  <2>2. Usable(free) = free /\ Needed(r) = r.ncpus
    BY NeededIs DEF Usable, PerCpu
  <2>3. /\ Fits(r, Free(except), HostMem) => /\ new # NoResources /\ Cardinality(new.cpus) = Needed(r)
                                             /\ new.cpus \subseteq Usable(Free(except))
        /\ ~Fits(r, Free(except), HostMem) => new = NoResources
    BY Placed
  <2> HIDE DEF new, free
  <2>4. Fits(r, Free(except), HostMem) <=> r.ncpus <= Cardinality(free)
    BY <2>1, <2>2 DEF Fits
  <2>5. /\ new # NoResources <=> r.ncpus <= Cardinality(free)
        /\ new # NoResources => new.cpus \subseteq free /\ Cardinality(new.cpus) = r.ncpus
    BY <2>1, <2>2, <2>3, <2>4
  <2> QED
    BY <2>5 DEF new, free
<1> QED
  BY <1>1, PlacementInvariant, PTL

-----------------------------------------------------------------------------
(* What the server is offered.                                             *)

LEMMA DivTimes ==
  ASSUME NEW x \in Nat, NEW b \in Nat \ {0}
  PROVE  /\ (x \div b) \in Nat /\ b * (x \div b) <= x
         /\ \A n \in Nat: x = n * b => (x \div b) = n
<1>1. (x \div b) \in Int /\ (x % b) \in 0..(b - 1)
  OBVIOUS
<1>2. x = b * (x \div b) + (x % b)
  OBVIOUS
<1> DEFINE q == x \div b
           m == x % b
<1>3. q \in Int /\ m \in Nat /\ m < b /\ x = b * q + m
  BY <1>1, <1>2
<1> HIDE DEF q, m
<1>4. q \in Nat
  <2> SUFFICES ASSUME -1 - q \in Nat PROVE FALSE
    BY <1>3
  <2>1. b * (-1 - q) \in Nat /\ b * (-1 - q) = -b - b * q
    BY <1>3
  <2> QED
    BY <1>3, <2>1
<1>5. ASSUME NEW n \in Nat, x = n * b PROVE q = n
  <2>1. ASSUME n - q - 1 \in Nat PROVE FALSE
    <3>1. (n - q - 1) * b \in Nat /\ (n - q - 1) * b = n * b - b * q - b
      BY <1>3, <2>1
    <3> QED
      BY <1>3, <1>5, <3>1
  <2>2. ASSUME q - n - 1 \in Nat PROVE FALSE
    <3>1. (q - n - 1) * b \in Nat /\ (q - n - 1) * b = b * q - n * b - b
      BY <1>3, <2>2
    <3> QED
      BY <1>3, <1>5, <3>1
  <2> QED
    BY <1>3, <2>1, <2>2
<1>6. b * q <= x
  BY <1>3
<1> QED
  BY <1>4, <1>5, <1>6 DEF q

\* Where hyperthreads are not used, exclude_cpus leaves each node as many first
\* threads as create_vnodes counts cores, dividing what is left of its threads.
FirstThreadsLeft ==
  UseHyperthreads \/ \A n \in Nodes: (Cardinality(CpusOf[n]) \div ThreadsPerCore)
                                       <= Cardinality(CpusOf[n] \ Hyperthreads)

\* A node has the CPUs for what it adds to the offer.
LEMMA NodeOffer ==
  ASSUME FirstThreadsLeft, NEW n \in Nodes,
         NEW threads, threads = IF UseHyperthreads /\ ~NcpusAreCores THEN 1 ELSE ThreadsPerCore
  PROVE  /\ (Cardinality(CpusOf[n]) \div threads) \in Nat
         /\ PerCpu * (Cardinality(CpusOf[n]) \div threads) <= Cardinality(Usable(CpusOf[n]))
<1> DEFINE all == Cardinality(CpusOf[n])
<1>1. CpusOf[n] \in SUBSET Cpus /\ all \in Nat /\ threads \in Nat \ {0}
  BY CpusFinite, ThreadsPerCoreNat DEF Cpus
<1>2. (all \div threads) \in Nat /\ threads * (all \div threads) <= all
  BY <1>1, DivTimes
<1>3. Cardinality(Usable(CpusOf[n])) \in Nat
  BY <1>1, UsableIs
<1>4. CASE UseHyperthreads
  <2>1. PerCpu = threads /\ Usable(CpusOf[n]) = CpusOf[n]
    BY <1>4, ConfigOK DEF PerCpu, Usable
  <2> QED
    BY <1>2, <2>1
<1>5. CASE ~UseHyperthreads
  <2>1. PerCpu = 1 /\ threads = ThreadsPerCore /\ Usable(CpusOf[n]) = CpusOf[n] \ Hyperthreads
    BY <1>5 DEF PerCpu, Usable
  <2> QED
    BY <1>2, <1>3, <1>5, <2>1 DEF FirstThreadsLeft
<1> QED
  BY <1>2, <1>4, <1>5

LEMMA HostOffer ==
  ASSUME FirstThreadsLeft
  PROVE  Offered \in Nat /\ PerCpu * Offered <= Cardinality(Usable(Cpus))
<1> DEFINE threads == IF UseHyperthreads /\ ~NcpusAreCores THEN 1 ELSE ThreadsPerCore
           h == [n \in Nodes |-> Cardinality(CpusOf[n]) \div threads]
           A == [n \in Nodes |-> Usable(CpusOf[n])]
           f == [n \in Nodes |-> Cardinality(Usable(CpusOf[n]))]
<1>1. Offered = SumFunctionOnSet(h, Nodes)
  BY DEF Offered, SumFunction
<1>2. \A n \in Nodes: h[n] \in Nat /\ PerCpu * h[n] <= f[n]
  BY NodeOffer
<1>3. \A n \in Nodes: /\ IsFiniteSet(A[n]) /\ f[n] = Cardinality(A[n]) /\ f[n] \in Nat
                      /\ A[n] = Usable(CpusOf[n]) /\ Usable(CpusOf[n]) \subseteq CpusOf[n]
  <2>1. \A n \in Nodes: CpusOf[n] \in SUBSET Cpus
    BY DEF Cpus
  <2> QED
    BY <2>1, UsableIs
<1>4. Members(A, Nodes) = Usable(Cpus)
  BY <1>3 DEF Members, Usable, Cpus
<1>5. \A m, n \in Nodes: m # n => A[m] \cap A[n] = {}
  BY <1>3, TopologyOK
<1>6. IsFiniteSet(Nodes) /\ PerCpu \in Nat
  BY TopologyOK, NeededIs
<1> HIDE DEF h, A, f
<1>7. Cardinality(Usable(Cpus)) = SumFunctionOnSet(f, Nodes)
  <2>1. Counts(A, Nodes, f)
    BY <1>3 DEF Counts
  <2> QED
    BY <1>4, <1>5, <1>6, <2>1, CountUnion
<1>8. PerCpu * SumFunctionOnSet(h, Nodes) <= 1 * SumFunctionOnSet(f, Nodes)
  <2>1. \A n \in Nodes: h[n] \in Int /\ f[n] \in Int /\ PerCpu * h[n] <= 1 * f[n]
    BY <1>2, <1>3
  <2> QED
    BY <1>6, <2>1, SumAtMost
<1>9. SumFunctionOnSet(h, Nodes) \in Nat /\ SumFunctionOnSet(f, Nodes) \in Nat
  BY <1>2, <1>3, <1>6, SumAtLeast
<1> QED
  BY <1>1, <1>7, <1>8, <1>9

Running == {k \in Jobs \ suspended: cpus[k] # {}}
Counted == SumFunctionOnSet([k \in Jobs |-> Ncpus(k)], Running)

\* What the jobs of the host are counted for is at least what they have.
LEMMA LentIs ==
  ASSUME PlacementInv
  PROVE  /\ Counted \in Nat
         /\ Cardinality(Usable(Cpus)) - PerCpu * Counted <= Cardinality(Usable(Free({})))
<1> DEFINE f == [k \in Jobs |-> Cardinality(cpus[k])]
           h == [k \in Jobs |-> Ncpus(k)]
           S == Running
<1>1. IsFiniteSet(S) /\ S \subseteq Jobs /\ PerCpu \in Nat \ {0}
  BY JobsOK, FS_Subset, NeededIs DEF Running
<1>2. \A k \in Jobs: cpus[k] \in SUBSET Usable(Cpus) /\ IsFiniteSet(cpus[k]) /\ Cardinality(cpus[k]) \in Nat
  BY CpusFinite DEF PlacementInv, TypeOK
<1>3. \A k \in S: f[k] \in Nat /\ f[k] = Cardinality(cpus[k]) /\ h[k] \in Nat /\ 1 * f[k] <= PerCpu * h[k]
  <2> SUFFICES ASSUME NEW k \in S
               PROVE  f[k] \in Nat /\ f[k] = Cardinality(cpus[k]) /\ h[k] \in Nat /\ 1 * f[k] <= PerCpu * h[k]
    OBVIOUS
  <2>1. k \in Jobs /\ cpus[k] # {}
    BY DEF Running
  <2>2. PICK r \in Requests: Cardinality(cpus[k]) = Needed(r)
    BY <2>1 DEF PlacementInv
  <2>3. r.ncpus \in Nat /\ Cardinality(cpus[k]) = r.ncpus * PerCpu
    BY <2>2, NeededIs
  <2>4. Ncpus(k) = r.ncpus
    <3>1. Ncpus(k) = Cardinality(cpus[k]) \div PerCpu
      BY DEF Ncpus, PerCpu
    <3>2. (Cardinality(cpus[k]) \div PerCpu) = r.ncpus
      BY <1>1, <1>2, <2>1, <2>3, DivTimes
    <3> QED
      BY <3>1, <3>2
  <2>5. f[k] = Cardinality(cpus[k]) /\ h[k] = r.ncpus
    BY <2>1, <2>4
  <2>6. r.ncpus * PerCpu = PerCpu * r.ncpus /\ r.ncpus * PerCpu \in Nat
    BY <1>1, <2>3
  <2> HIDE DEF f, h
  <2> QED
    BY <2>3, <2>5, <2>6
<1>4. Members(cpus, S) = UNION {cpus[k]: k \in Jobs \ (suspended \cup {})}
  BY DEF Members, Running
<1>5. Free({}) = Cpus \ Members(cpus, S)
  BY <1>4, FreeIs
<1> DEFINE M == Members(cpus, S)
<1>6. Usable(Free({})) = Usable(Cpus) \ M
  <2> HIDE DEF M
  <2> QED
    BY <1>5 DEF Usable, M
<1>7. Counted = SumFunctionOnSet(h, S)
  BY DEF Counted
<1> HIDE DEF f, h, S
<1>8. Counts(cpus, S, f)
  BY <1>1, <1>2, <1>3 DEF Counts
<1>9. Cardinality(M) \in Nat /\ Cardinality(M) <= SumFunctionOnSet(f, S)
  BY <1>1, <1>8, CountUnion
<1>10. SumFunctionOnSet(f, S) \in Nat /\ SumFunctionOnSet(h, S) \in Nat
  BY <1>1, <1>3, SumAtLeast
<1>11. 1 * SumFunctionOnSet(f, S) <= PerCpu * SumFunctionOnSet(h, S)
  <2>1. \A k \in S: f[k] \in Int /\ h[k] \in Int
    BY <1>3
  <2> QED
    BY <1>1, <1>3, <2>1, SumAtMost
<1>12. M \in SUBSET Usable(Cpus)
  BY <1>1, <1>2 DEF Members
<1> HIDE DEF M
<1>13. Cardinality(Usable(Cpus) \ M) = Cardinality(Usable(Cpus)) - Cardinality(M)
       /\ Cardinality(Usable(Cpus)) \in Nat
  <2>1. IsFiniteSet(Usable(Cpus)) /\ Cardinality(Usable(Cpus)) \in Nat
    BY UsableIs
  <2>2. Usable(Cpus) \cap M = M
    BY <1>12
  <2> QED
    BY <2>1, <2>2, FS_Difference
<1>14. PerCpu * SumFunctionOnSet(h, S) \in Nat
  BY <1>1, <1>10
<1>15. Cardinality(Usable(Cpus)) - PerCpu * SumFunctionOnSet(h, S) <= Cardinality(Usable(Cpus) \ M)
  BY <1>9, <1>10, <1>11, <1>13, <1>14
<1> QED
  BY <1>6, <1>7, <1>10, <1>15

\* The ncpus that create_vnodes has offered for a host are there: a job for which the
\* jobs that run leave enough of them is given CPUs.
THEOREM OfferAlwaysKept == ASSUME FirstThreadsLeft PROVE Spec => []OfferKept
<1>1. ASSUME PlacementInv PROVE OfferKept
  <2> SUFFICES ASSUME NEW r \in Requests, NEW j \in Jobs, cpus[j] = {}, r.mem <= HostMem,
                      r.ncpus + Counted <= Offered
               PROVE  AssignJob(r, {}) # NoResources
    BY DEF OfferKept, HostMem, Counted, Running
  <2>1. /\ r.ncpus \in Nat /\ Needed(r) = r.ncpus * PerCpu /\ Needed(r) \in Nat /\ PerCpu \in Nat
        /\ Counted \in Nat /\ Offered \in Nat
        /\ Cardinality(Usable(Cpus)) \in Nat /\ Cardinality(Usable(Free({}))) \in Nat
        /\ PerCpu * Offered <= Cardinality(Usable(Cpus))
        /\ Cardinality(Usable(Cpus)) - PerCpu * Counted <= Cardinality(Usable(Free({})))
    BY <1>1, NeededIs, HostOffer, LentIs, UsableIs, AvailableSub
  <2>2. PerCpu * (Offered - r.ncpus - Counted) \in Nat
    <3>1. Offered - r.ncpus - Counted \in Nat
      BY <2>1
    <3> QED
      BY <2>1, <3>1
  <2>3. PerCpu * (Offered - r.ncpus - Counted) = PerCpu * Offered - r.ncpus * PerCpu - PerCpu * Counted
    BY <2>1
  <2>4. PerCpu * Offered \in Nat /\ PerCpu * Counted \in Nat
    BY <2>1
  <2>5. Needed(r) <= Cardinality(Usable(Free({})))
    BY <2>1, <2>2, <2>3, <2>4
  <2> QED
    BY <2>5, Placed DEF Fits
<1> QED
  BY <1>1, PlacementInvariant, PTL

=============================================================================
