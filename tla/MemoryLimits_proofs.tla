------------------------ MODULE MemoryLimits_proofs ------------------------
(***************************************************************************)
(* The properties of MemoryLimits, for every host, configuration, request  *)
(* and number of starts.                                                   *)
(*                                                                         *)
(* The first two sections are about the operators: sizes rounded to whole  *)
(* megabytes, and their sums over the NUMA nodes (with SumTheorems).  With *)
(* them the three places in the code that work out the memory of a host    *)
(* are compared (AdvertisedFits).                                          *)
(*                                                                         *)
(* The invariant (MemoryInv) has a part for each actor: the server's view  *)
(* of the host (OfferInv), the rounds of the startup handler (StartupInv), *)
(* the limits of a job as they are written (KernelInv), and those of a job *)
(* without swap (SwaplessInv).                                             *)
(***************************************************************************)
EXTENDS MemoryLimits, SumTheorems, SequenceTheorems

-----------------------------------------------------------------------------
(* Whole megabytes.                                                        *)

Multiple(x) == \E k \in Int: x = k * MB

\* Rounding down gives a multiple, less than one MB below.
LEMMA DownMultiple ==
  ASSUME NEW x \in Int
  PROVE  Down(x) \in Int /\ Multiple(Down(x)) /\ Down(x) <= x /\ x < Down(x) + MB
<1>1. (x \div MB) \in Int /\ (x % MB) \in 0..(MB - 1)
  BY MBPositive
<1>1a. x = MB * (x \div MB) + (x % MB)
  BY MBPositive
<1>2. Down(x) = (x \div MB) * MB
  BY <1>1, <1>1a, MBPositive DEF Down
<1>3. Multiple(Down(x))
  BY <1>1, <1>2 DEF Multiple
<1>4. Down(x) \in Int /\ Down(x) <= x /\ x < Down(x) + MB
  BY <1>1, MBPositive DEF Down
<1> QED
  BY <1>3, <1>4

\* It gives the greatest one.
LEMMA DownGreatest ==
  ASSUME NEW x \in Int, NEW m \in Int, Multiple(m), m <= x
  PROVE  m <= Down(x)
<1>1. PICK k \in Int: m = k * MB
  BY DEF Multiple
<1>2. PICK q \in Int: Down(x) = q * MB
  BY DownMultiple DEF Multiple
<1>3. k * MB < q * MB + MB
  BY <1>1, <1>2, DownMultiple, MBPositive
<1>4. ASSUME k > q PROVE FALSE
  <2>1. (k - q - 1) \in Nat /\ MB \in Nat
    BY <1>4, MBPositive
  <2>2. (k - q - 1) * MB \in Nat
    BY <2>1
  <2>3. (k - q - 1) * MB = k * MB - q * MB - MB
    BY MBPositive
  <2> QED
    BY <1>3, <2>2, <2>3, MBPositive
<1>5. (q - k) \in Nat /\ MB \in Nat
  BY <1>4, MBPositive
<1>6. (q - k) * MB \in Nat /\ (q - k) * MB = q * MB - k * MB
  BY <1>5
<1> QED
  BY <1>1, <1>2, <1>6, MBPositive

LEMMA MultipleSum ==
  ASSUME NEW x \in Int, NEW y \in Int, Multiple(x), Multiple(y)
  PROVE  Multiple(x + y) /\ Multiple(x - y)
<1>1. PICK k \in Int, l \in Int: x = k * MB /\ y = l * MB
  BY DEF Multiple
<1>2. x + y = (k + l) * MB /\ x - y = (k - l) * MB
  BY <1>1, MBPositive
<1> QED
  BY <1>2 DEF Multiple

\* Rounding a sum loses no more than rounding its parts.
LEMMA DownSum ==
  ASSUME NEW x \in Int, NEW y \in Int
  PROVE  Down(x) + Down(y) <= Down(x + y)
BY DownMultiple, DownGreatest, MultipleSum

LEMMA DownSame ==
  ASSUME NEW x \in Int, Multiple(x)
  PROVE  Down(x) = x
BY DownMultiple, DownGreatest

-----------------------------------------------------------------------------
(* Facts about sums.                                                       *)

\* The model sums functions over all of their domain.
LEMMA SumOf ==
  ASSUME NEW S, IsFiniteSet(S), NEW f, DOMAIN f = S
  PROVE  \E g: Sum(f) = g[S] /\ Table(f, S, g)
<1>1. Sum(f) = SumFunctionOnSet(f, S)
  BY DEF Sum, SumFunction
<1> QED
  BY <1>1, SumTable

LEMMA SumInt ==
  ASSUME NEW S, IsFiniteSet(S), NEW f \in [S -> Int]
  PROVE  Sum(f) \in Int
<1>1. Sum(f) = SumFunctionOnSet(f, S)
  BY DEF Sum, SumFunction
<1> QED
  BY <1>1, SumIsInt

LEMMA SumZero ==
  ASSUME NEW S, IsFiniteSet(S)
  PROVE  Sum([x \in S |-> 0]) = 0
<1> DEFINE f == [x \in S |-> 0]
<1>1. DOMAIN f = S /\ \A x \in S: f[x] = 0
  OBVIOUS
<1>2. Sum(f) = SumFunctionOnSet(f, S)
  BY DEF Sum, SumFunction
<1> HIDE DEF f
<1>3. SumFunctionOnSet(f, S) = 0
  <2> DEFINE z == SumFunctionOnSet(f, S)
  <2>1. z \in Nat
    BY <1>1, SumAtLeast
  <2>2. 1 * z <= 0 * z
    BY <1>1, SumAtMost
  <2> HIDE DEF z
  <2> QED
    BY <2>1, <2>2 DEF z
<1> QED
  BY <1>2, <1>3 DEF f

\* A sum of whole megabytes is whole.
LEMMA SumMultiple ==
  ASSUME NEW S, IsFiniteSet(S), NEW f \in [S -> Int], \A x \in S: Multiple(f[x])
  PROVE  Multiple(Sum(f))
<1>1. PICK g: Sum(f) = g[S] /\ Table(f, S, g)
  BY SumOf
<1>2. \A s \in SUBSET S: g[s] \in Int
  BY <1>1, SumsInt
<1> DEFINE B == {s \in SUBSET S: ~Multiple(g[s])}
<1> SUFFICES ASSUME B # {} PROVE FALSE
  BY <1>1
<1>0. B \in SUBSET (SUBSET S) /\ \A s \in SUBSET S: s \in B <=> ~Multiple(g[s])
  OBVIOUS
<1> HIDE DEF B
<1>3. PICK s \in B: \A x \in s: s \ {x} \notin B
  BY <1>0, LeastSubset
<1>4. s \in SUBSET S /\ s # {}
  <2>1. Multiple(0)
    BY MBPositive DEF Multiple
  <2> QED
    BY <1>0, <1>1, <2>1 DEF Table
<1>5. Pick(s) \in s /\ s \ {Pick(s)} \in SUBSET S /\ g[s] = f[Pick(s)] + g[s \ {Pick(s)}]
  BY <1>1, <1>4 DEF Table
<1>6. Multiple(g[s \ {Pick(s)}]) /\ Multiple(f[Pick(s)])
  BY <1>0, <1>3, <1>4, <1>5
<1>7. f[Pick(s)] \in Int /\ g[s \ {Pick(s)}] \in Int
  BY <1>2, <1>4, <1>5
<1>8. Multiple(f[Pick(s)] + g[s \ {Pick(s)}])
  BY <1>6, <1>7, MultipleSum
<1> QED
  BY <1>0, <1>4, <1>5, <1>8

\* What is left of each element, rounded, is not more than what is left of the
\* sum when as much is taken from it once.
LEMMA SumRounded ==
  ASSUME NEW S, IsFiniteSet(S), S # {}, NEW t \in [S -> Int], NEW a \in Nat,
         NEW f \in [S -> Int], \A x \in S: f[x] = Down(t[x] - a)
  PROVE  Sum(f) <= Down(Sum(t) - a)
<1>1. PICK g: Sum(f) = g[S] /\ Table(f, S, g)
  BY SumOf
<1>2. PICK k: Sum(t) = k[S] /\ Table(t, S, k)
  BY SumOf
<1>3. \A s \in SUBSET S: g[s] \in Int /\ k[s] \in Int
  BY <1>1, <1>2, SumsInt
<1> DEFINE Fits(s) == g[s] <= Down(k[s] - a)
           B == {s \in SUBSET S: s # {} /\ ~Fits(s)}
<1> SUFFICES ASSUME B # {} PROVE FALSE
  BY <1>1, <1>2
<1>0. B \in SUBSET (SUBSET S) /\ \A s \in SUBSET S: s \in B <=> (s # {} /\ ~Fits(s))
  OBVIOUS
<1> HIDE DEF B
<1>4. PICK s \in B: \A x \in s: s \ {x} \notin B
  BY <1>0, LeastSubset
<1> DEFINE x == Pick(s)
           u == s \ {x}
<1>4a. s \in SUBSET S /\ s # {} /\ ~Fits(s)
  BY <1>0
<1>5. x \in s /\ x \in S /\ u \in SUBSET S /\ g[s] = f[x] + g[u] /\ k[s] = t[x] + k[u]
  <2> HIDE DEF Fits
  <2> QED
    BY <1>1, <1>2, <1>4a DEF Table
<1>6. u # {} => Fits(u)
  BY <1>0, <1>4, <1>5
<1>6a. f[x] = Down(t[x] - a) /\ t[x] \in Int /\ k[u] \in Int /\ g[u] \in Int /\ f[x] \in Int
  BY <1>3, <1>5
<1> HIDE DEF x, u
<1>7. CASE u = {}
  <2>1. g[u] = 0 /\ k[u] = 0
    BY <1>1, <1>2, <1>7 DEF Table
  <2> QED
    BY <1>4a, <1>5, <1>6a, <2>1
<1>8. CASE u # {}
  <2> DEFINE p == t[x] - a
             q == k[u] - a
  <2>1. p \in Int /\ q \in Int
    BY <1>6a
  <2>2. g[s] <= Down(p) + Down(q)
    BY <1>5, <1>6, <1>6a, <1>8, <2>1, DownMultiple
  <2>3. p + q <= k[s] - a /\ k[s] - a \in Int
    BY <1>5, <1>6a
  <2>. HIDE DEF p, q, Fits
  <2>4. Down(p) + Down(q) <= Down(p + q)
    BY <2>1, DownSum
  <2>4a. Down(p + q) <= Down(k[s] - a)
    <3> DEFINE sum == p + q
               all == k[s] - a
    <3>1. sum \in Int /\ all \in Int /\ sum <= all
      BY <2>1, <2>3
    <3> HIDE DEF sum, all
    <3>2. Down(sum) \in Int /\ Multiple(Down(sum)) /\ Down(sum) <= all
      BY <3>1, DownMultiple
    <3>3. Down(sum) <= Down(all)
      BY <3>1, <3>2, DownGreatest
    <3> QED
      BY <3>3 DEF sum, all
  <2>5. /\ g[s] \in Int /\ Down(p) \in Int /\ Down(q) \in Int /\ Down(p + q) \in Int
        /\ Down(k[s] - a) \in Int
    BY <1>3, <1>4a, <2>1, <2>3, DownMultiple
  <2>6. g[s] <= Down(k[s] - a)
    BY <2>2, <2>4, <2>4a, <2>5
  <2> QED
    BY <1>4a, <2>6 DEF Fits
<1> QED
  BY <1>7, <1>8

-----------------------------------------------------------------------------
(* What a host has to give.                                                *)

LEMMA DownInt == ASSUME NEW x \in Int PROVE Down(x) \in Int
BY DownMultiple

\* The hook divides integers: nothing or everything is reserved.
LEMMA NothingOrAll ==
  ASSUME NEW p \in 0..100
  PROVE  (p = 100 /\ p \div 100 = 1) \/ (p < 100 /\ p \div 100 = 0)
OBVIOUS

LEMMA ReservedInt ==
  ASSUME NEW x \in Int, NEW p \in 0..100, NEW a \in Nat
  PROVE  Reserved(x, p, a) \in Int
<1>1. x * 0 = 0 /\ x * 1 = x
  OBVIOUS
<1> QED
  BY <1>1, NothingOrAll DEF Reserved

LEMMA ShareMultiple ==
  ASSUME NEW x \in Int, NEW y \in Int
  PROVE  Share(x, y) \in Int /\ Multiple(Share(x, y))
<1> DEFINE left == Larger(x - y, 0)
<1>1. Cardinality(Nodes) \in Nat \ {0}
  BY NodesOK, FS_CardinalityType, FS_EmptySet
<1>2. left \in Int
  BY DEF Larger
<1> HIDE DEF left
<1>3. (left \div Cardinality(Nodes)) \in Int
  BY <1>1, <1>2
<1> QED
  BY <1>3, DownMultiple DEF Share, left

\* All figures of a host are numbers, those of its NUMA nodes whole megabytes.
LEMMA HostSizes ==
  ASSUME NEW c \in Configs, NEW h \in Hosts
  PROVE  /\ HostMemory(c, h) \in Int /\ HostVmem(c, h) \in Int
         /\ NodeMemory(c, h) \in [Nodes -> Int] /\ NodeVmem(c, h) \in [Nodes -> Int]
         /\ \A n \in Nodes: Multiple(NodeMemory(c, h)[n]) /\ Multiple(NodeVmem(c, h)[n])
         /\ MemoryOnNode(c, h) \in Int /\ VmemOnNode(c, h) \in Int
<1>1. h.total \in [Nodes -> Nat] /\ h.swap \in Nat
  BY HostsOK
<1>2. c.percent \in 0..100 /\ c.amount \in Nat /\ c.vpercent \in 0..100 /\ c.vamount \in Nat
  BY ConfigsOK DEF ConfigType
<1>3. Sum(h.total) \in Int /\ IsFiniteSet(Nodes)
  BY <1>1, NodesOK, SumInt
<1>4. HostMemory(c, h) \in Int
  <2>1. Reserved(Sum(h.total), c.percent, c.amount) \in Int
    BY <1>2, <1>3, ReservedInt
  <2>2. Sum(h.total) - Reserved(Sum(h.total), c.percent, c.amount) \in Int
    BY <1>3, <2>1
  <2> QED
    BY <2>2, DownInt DEF HostMemory, MemoryOf
<1>5. HostSwapAndMemory(c, h) \in Int
  BY <1>1, <1>4 DEF HostSwapAndMemory
<1>6. HostVmem(c, h) \in Int
  <2> DEFINE total == HostSwapAndMemory(c, h)
  <2>1. Reserved(total, c.vpercent, c.vamount) \in Int
    BY <1>2, <1>5, ReservedInt
  <2>2. total - Reserved(total, c.vpercent, c.vamount) \in Int
    BY <1>5, <2>1
  <2> QED
    BY <2>2, DownInt DEF HostVmem
<1>7. NodeMemory(c, h) \in [Nodes -> Int] /\ \A n \in Nodes: Multiple(NodeMemory(c, h)[n])
  <2> DEFINE share == Share(Down(Sum(h.total)), HostMemory(c, h))
  <2>0. Down(Sum(h.total)) \in Int
    BY <1>3, DownInt
  <2>1. share \in Int /\ Multiple(share)
    BY <1>4, <2>0, ShareMultiple
  <2>2. \A n \in Nodes: Down(h.total[n]) \in Int /\ Multiple(Down(h.total[n]))
    BY <1>1, DownMultiple
  <2>3. NodeMemory(c, h) = [n \in Nodes |-> Down(h.total[n]) - share]
    BY DEF NodeMemory
  <2> HIDE DEF share
  <2>4. ASSUME NEW x \in Int, Multiple(x) PROVE x - share \in Int /\ Multiple(x - share)
    BY <2>1, <2>4, MultipleSum
  <2> QED
    BY <2>2, <2>3, <2>4
<1>8. NodeVmem(c, h) \in [Nodes -> Int] /\ \A n \in Nodes: Multiple(NodeVmem(c, h)[n])
  <2> DEFINE whole == Down(HostSwapAndMemory(c, h))
             share == Share(whole, HostVmem(c, h))
             each == Down(whole \div Cardinality(Nodes))
  <2>1. whole \in Int
    BY <1>5, DownInt
  <2>2. share \in Int /\ Multiple(share)
    BY <1>6, <2>1, ShareMultiple
  <2>3. Cardinality(Nodes) \in Nat \ {0}
    BY NodesOK, FS_CardinalityType, FS_EmptySet
  <2>4. NodeVmem(c, h) = [n \in Nodes |-> each - share]
    BY DEF NodeVmem
  <2> HIDE DEF whole
  <2>5. (whole \div Cardinality(Nodes)) \in Int
    BY <2>1, <2>3
  <2>6. each \in Int /\ Multiple(each)
    BY <2>5, DownMultiple
  <2> HIDE DEF share, each
  <2> QED
    BY <2>2, <2>4, <2>6, MultipleSum
<1>9. Sum(NodeMemory(c, h)) \in Int /\ Sum(NodeVmem(c, h)) \in Int
  BY <1>3, <1>7, <1>8, SumInt
<1>10. OfNodes(NodeMemory(c, h), HostMemory(c, h)) \in Int /\ OfNodes(NodeVmem(c, h), HostVmem(c, h)) \in Int
  BY <1>4, <1>6, <1>9, DownInt DEF OfNodes
<1>11. MemoryOnNode(c, h) \in Int /\ VmemOnNode(c, h) \in Int
  BY <1>4, <1>6, <1>10 DEF MemoryOnNode, VmemOnNode
<1> QED
  BY <1>4, <1>6, <1>7, <1>8, <1>11

\* Of whole megabytes nothing is lost by rounding their sum.
LEMMA OfWholeNodes ==
  ASSUME NEW f \in [Nodes -> Int], \A n \in Nodes: Multiple(f[n]), NEW else \in Int, else > 0
  PROVE  Sum(f) \in Int /\ Sum(f) <= OfNodes(f, else)
<1>1. Sum(f) \in Int /\ Multiple(Sum(f))
  BY NodesOK, SumInt, SumMultiple
<1>2. Down(Sum(f)) = Sum(f)
  BY <1>1, DownSame
<1> QED
  BY <1>1, <1>2 DEF OfNodes

\* What is left of each node is no more than what is left of all.
LEMMA NodeByNode ==
  ASSUME NEW c \in Configs, NEW h \in Hosts, ~NothingLeft(c, h)
  PROVE  /\ Sum([n \in Nodes |-> MemoryOf(c, h.total[n])]) \in Int
         /\ Sum([n \in Nodes |-> MemoryOf(c, h.total[n])]) <= HostMemory(c, h)
<1> DEFINE t == h.total
           a == c.amount
           each == [n \in Nodes |-> MemoryOf(c, t[n])]
<1>1. t \in [Nodes -> Nat] /\ a \in Nat /\ c.percent \in 0..100
  BY HostsOK, ConfigsOK DEF ConfigType
<1>2. Sum(t) \in Int
  BY <1>1, NodesOK, SumInt
<1>3. HostMemory(c, h) > 0
  BY HostSizes DEF NothingLeft, NoMemoryLeft
<1>4. c.percent \div 100 = 0
  <2> SUFFICES ASSUME c.percent \div 100 # 0 PROVE FALSE
    OBVIOUS
  <2>1. c.percent \div 100 = 1
    BY <1>1, NothingOrAll
  <2>2. HostMemory(c, h) = Down(Sum(t) - (Sum(t) * 1 + a))
    BY <2>1 DEF HostMemory, MemoryOf, Reserved
  <2>3. Sum(t) - (Sum(t) * 1 + a) = -a /\ -a \in Int
    BY <1>1, <1>2
  <2>4. HostMemory(c, h) <= -a
    BY <2>2, <2>3, DownMultiple
  <2> QED
    BY <1>1, <1>3, <2>4, HostSizes
<1>5. ASSUME NEW x \in Int PROVE MemoryOf(c, x) = Down(x - a) /\ MemoryOf(c, x) \in Int
  <2>1. x - (x * 0 + a) = x - a /\ x - a \in Int
    BY <1>1
  <2>2. MemoryOf(c, x) = Down(x - (x * 0 + a))
    BY <1>4 DEF MemoryOf, Reserved
  <2> QED
    BY <2>1, <2>2, DownInt
<1>6. each \in [Nodes -> Int] /\ \A n \in Nodes: each[n] = Down(t[n] - a)
  BY <1>1, <1>5
<1>7. t \in [Nodes -> Int]
  BY <1>1
<1>8. HostMemory(c, h) = Down(Sum(t) - a)
  BY <1>2, <1>5 DEF HostMemory
<1> HIDE DEF each, t, a
<1>9. Sum(each) <= Down(Sum(t) - a) /\ Sum(each) \in Int
  BY <1>1, <1>6, <1>7, NodesOK, SumRounded, SumInt
<1> QED
  BY <1>8, <1>9 DEF each, t

\* What the server is told there is of x, given a host's vnodes
Told(v, x) == v.natural[x] + Sum([n \in Nodes |-> v.nodes[n][x]])

\* The three places in the code that work out the memory of a host agree.
LEMMA AdvertisedFits ==
  ASSUME NEW c \in Configs, NEW h \in Hosts, ~NothingLeft(c, h)
  PROVE  /\ Told(Advertise(c, h), "mem") \in Int
         /\ Told(Advertise(c, h), "mem") <= MemAvail(c, h)
         /\ Told(Advertise(c, h), "vmem") \in Int
         /\ ~(c.memsw /\ c.vnodes) => Told(Advertise(c, h), "vmem") <= VmemAvail(c, h)
<1> DEFINE v == Advertise(c, h)
           each == [n \in Nodes |-> MemoryOf(c, h.total[n])]
<1>1. HostMemory(c, h) > 0 /\ (c.memsw \/ c.vnodes => HostVmem(c, h) > 0)
  BY HostSizes DEF NothingLeft, NoMemoryLeft
<1>2. MemAvail(c, h) \in Int /\ VmemOnNode(c, h) \in Int /\ VmemAvail(c, h) \in Int
      /\ VmemAvail(c, h) >= MemAvail(c, h) /\ VmemAvail(c, h) >= VmemOnNode(c, h)
  BY HostSizes DEF MemAvail, VmemAvail, Larger
<1>3. CASE c.vnodes
  <2>1. CreateVnodes(c, h) =
          [natural |-> [mem |-> 0, vmem |-> 0],
           nodes   |-> [n \in Nodes |-> [mem |-> NodeMemory(c, h)[n], vmem |-> NodeVmem(c, h)[n]]]]
    BY <1>3 DEF CreateVnodes
  <2>2. /\ v.natural.mem = 0
        /\ v.natural.vmem = IF c.memsw THEN HostVmem(c, h) ELSE 0
        /\ v.nodes = [n \in Nodes |-> [mem |-> NodeMemory(c, h)[n], vmem |-> NodeVmem(c, h)[n]]]
    BY <1>3, <2>1 DEF Advertise
  <2>3. /\ [n \in Nodes |-> v.nodes[n]["mem"]] = NodeMemory(c, h)
        /\ [n \in Nodes |-> v.nodes[n]["vmem"]] = NodeVmem(c, h)
    BY <2>2, HostSizes
  <2>4. Sum(NodeMemory(c, h)) \in Int /\ Sum(NodeMemory(c, h)) <= MemAvail(c, h)
    BY <1>1, <1>3, HostSizes, OfWholeNodes DEF MemAvail, MemoryOnNode
  <2>5. Sum(NodeVmem(c, h)) \in Int /\ Sum(NodeVmem(c, h)) <= VmemOnNode(c, h)
    BY <1>1, <1>3, HostSizes, OfWholeNodes DEF VmemOnNode
  <2> HIDE DEF v
  <2>6. Told(v, "mem") = Sum(NodeMemory(c, h))
    BY <2>2, <2>3, <2>4 DEF Told
  <2>7. Told(v, "vmem") = (IF c.memsw THEN HostVmem(c, h) ELSE 0) + Sum(NodeVmem(c, h))
    BY <2>2, <2>3 DEF Told
  <2> QED
    BY <1>2, <1>3, <2>4, <2>5, <2>6, <2>7, HostSizes DEF v
<1>4. CASE ~c.vnodes
  <2>1. CreateVnodes(c, h) =
          [natural |-> [mem |-> Sum(each), vmem |-> Sum(each)],
           nodes   |-> [n \in Nodes |-> [mem |-> 0, vmem |-> 0]]]
    BY <1>4 DEF CreateVnodes
  <2>2. /\ v.natural.mem = IF c.memory THEN HostMemory(c, h) ELSE Sum(each)
        /\ v.natural.vmem = IF c.memsw THEN HostVmem(c, h) ELSE Sum(each)
        /\ v.nodes = [n \in Nodes |-> [mem |-> 0, vmem |-> 0]]
    BY <1>4, <2>1 DEF Advertise
  <2>3. /\ [n \in Nodes |-> v.nodes[n]["mem"]] = [n \in Nodes |-> 0]
        /\ [n \in Nodes |-> v.nodes[n]["vmem"]] = [n \in Nodes |-> 0]
    BY <2>2
  <2>4. Sum([n \in Nodes |-> 0]) = 0
    BY NodesOK, SumZero
  <2>5. Sum(each) \in Int /\ Sum(each) <= HostMemory(c, h)
    BY NodeByNode
  <2>6. MemAvail(c, h) = HostMemory(c, h) /\ VmemOnNode(c, h) = HostVmem(c, h)
    BY <1>4 DEF MemAvail, MemoryOnNode, VmemOnNode
  <2> HIDE DEF v, each
  <2>7. Told(v, "mem") = (IF c.memory THEN HostMemory(c, h) ELSE Sum(each)) + 0
    BY <2>2, <2>3, <2>4 DEF Told
  <2>8. Told(v, "vmem") = (IF c.memsw THEN HostVmem(c, h) ELSE Sum(each)) + 0
    BY <2>2, <2>3, <2>4 DEF Told
  <2> QED
    BY <1>2, <2>5, <2>6, <2>7, <2>8, HostSizes DEF v
<1> QED
  BY <1>3, <1>4

-----------------------------------------------------------------------------
(* Types, and a job without swap.                                          *)

Both(c) == c.memory /\ c.memsw
WithoutSwap(c, h) == ~c.soft /\ VmemAvail(c, h) <= MemAvail(c, h)

\* What configure_job makes of a request; with no memory controller it asks nothing.
Answer(c, h, r) == IF c.memory \/ c.memsw THEN Verdict(c, h, r) ELSE "none"

ChangesJob == event \in {"begin", "resize"}

Control ==
  /\ cfg \in Configs /\ host \in Hosts
  /\ event \in {"none", "startup", "begin", "resize"}
  /\ round \in 0..3 /\ starts \in 0..MaxStarts
  /\ result \in {"none", "accept", "reject", "delete", "hold", "invalid", "busy"}

Switches == fine \in BOOLEAN /\ ready \in BOOLEAN
JobHere == job.here \in BOOLEAN

\* The limits of the job are equal, or will be when the rest is written.
Even(m) ==
  \/ todo = <<Write("mem", m, "mem"), Write("vmem", m, "vmem")>>
  \/ todo = <<Write("vmem", m, "vmem")>> /\ limit.mem = m
  \/ todo = <<>> /\ limit.mem = m /\ limit.vmem = m

SwaplessInv ==
  /\ DOMAIN limit = {"mem", "soft", "vmem"}
  /\ job.here /\ Both(cfg) /\ (\A c \in job.under: WithoutSwap(c, host)) =>
       IF ChangesJob THEN \E m: Even(m) ELSE limit.vmem = limit.mem

\* What configure_job accepts where there is no swap has equal limits.
LEMMA EqualLimits ==
  ASSUME NEW c \in Configs, NEW h \in Hosts, NEW r \in Requests,
         Both(c), WithoutSwap(c, h), Verdict(c, h, r) = "none"
  PROVE  JobMem(c, h, r) = JobVmem(c, h, r)
<1> DEFINE M == MemLimit(c, h, r)
           V == VmemLimit(c, h, r)
<1>1. MemAvail(c, h) \in Int /\ VmemAvail(c, h) \in Int
  BY HostSizes DEF MemAvail, VmemAvail, Larger
<1>2. /\ c.default \in Nat \cup {Absent} /\ c.vdefault \in Nat \cup {Absent}
      /\ r.mem \in Nat \cup {Absent} /\ r.vmem \in Nat \cup {Absent}
      /\ c.memory /\ c.memsw /\ ~c.soft
  BY ConfigsOK, SizesOK DEF ConfigType, Requests, Both, WithoutSwap
<1>3. M \in Int /\ (r.mem # Absent => M = r.mem)
  BY <1>1, <1>2 DEF MemLimit, Given
<1>4. V \in Int /\ V >= M /\ (r.vmem # Absent => V >= r.vmem)
  BY <1>1, <1>2, <1>3 DEF VmemLimit, Given, Larger
<1>5. HardLimit(c, h, r) = M
  BY <1>2 DEF HardLimit
<1>6. FinalVmem(c, h, r) = V
  BY <1>3, <1>4, <1>5 DEF FinalVmem, Larger
<1>7. ~Swapless(c, h, r) /\ ~(r.vmem # Absent /\ V > r.vmem)
  BY <1>2, <1>6 DEF Verdict
<1>8. V = M
  BY <1>2, <1>3, <1>4, <1>5, <1>6, <1>7 DEF Swapless, WithoutSwap
<1>9. JobMem(c, h, r) = M
  BY <1>3, <1>5 DEF JobMem, Given
<1>10. JobVmem(c, h, r) = V
  BY <1>2, <1>3, <1>4, <1>6, <1>7 DEF JobVmem, Given
<1> QED
  BY <1>8, <1>9, <1>10

\* Sequences of at most three elements, put together
LEMMA ShortSequences ==
  ASSUME NEW a, NEW b, NEW c
  PROVE  /\ <<>> \o <<>> = <<>> /\ <<>> \o <<a>> = <<a>> /\ <<a>> \o <<>> = <<a>>
         /\ <<a>> \o <<b>> = <<a, b>> /\ <<a, b>> \o <<>> = <<a, b>> /\ <<a, b>> \o <<c>> = <<a, b, c>>
<1> DEFINE T == {a, b, c}
<1>1. <<>> \in Seq(T) /\ <<a>> \in Seq(T) /\ <<b>> \in Seq(T) /\ <<c>> \in Seq(T) /\ <<a, b>> \in Seq(T)
  OBVIOUS
<1>2. <<>> \o <<>> = <<>> /\ <<>> \o <<a>> = <<a>> /\ <<a>> \o <<>> = <<a>> /\ <<a, b>> \o <<>> = <<a, b>>
  BY <1>1, ConcatEmptySeq
<1>3. <<a>> \o <<b>> = <<a, b>>
  <2> DEFINE s == <<a>> \o <<b>>
  <2>1. s \in Seq(T) /\ Len(s) = 2 /\ s[1] = a /\ s[2] = b
    BY <1>1, ConcatProperties
  <2> HIDE DEF s
  <2>2. s = <<a, b>>
    BY <2>1
  <2> QED
    BY <2>2 DEF s
<1>4. <<a, b>> \o <<c>> = <<a, b, c>>
  <2> DEFINE s == <<a, b>> \o <<c>>
  <2>1. s \in Seq(T) /\ Len(s) = 3 /\ s[1] = a /\ s[2] = b /\ s[3] = c
    BY <1>1, ConcatProperties
  <2> HIDE DEF s
  <2>2. s = <<a, b, c>>
    BY <2>1
  <2> QED
    BY <2>2 DEF s
<1> QED
  BY <1>2, <1>3, <1>4

LEMMA ShortTails ==
  ASSUME NEW a, NEW b, NEW c
  PROVE  /\ Head(<<a>>) = a /\ Head(<<a, b>>) = a /\ Head(<<a, b, c>>) = a
         /\ Tail(<<a>>) = <<>> /\ Tail(<<a, b>>) = <<b>> /\ Tail(<<a, b, c>>) = <<b, c>>
OBVIOUS

\* The writes of a host or job with each choice of controllers
LEMMA WritesAre ==
  ASSUME NEW c, NEW m, NEW s, NEW v
  PROVE  /\ ~c.memory /\ ~c.memsw => Writes(c, m, s, v) = <<>>
         /\ ~c.memory /\ c.memsw =>
              Writes(c, m, s, v) = <<Write("mem", v, "vmem"), Write("vmem", v, "vmem")>>
         /\ c.memory /\ ~c.memsw /\ ~c.soft => Writes(c, m, s, v) = <<Write("mem", m, "mem")>>
         /\ c.memory /\ ~c.memsw /\ c.soft =>
              Writes(c, m, s, v) = <<Write("mem", m, "mem"), Write("soft", s, "softmem")>>
         /\ c.memory /\ c.memsw /\ ~c.soft =>
              Writes(c, m, s, v) = <<Write("mem", m, "mem"), Write("vmem", v, "vmem")>>
         /\ c.memory /\ c.memsw /\ c.soft =>
              Writes(c, m, s, v) =
                <<Write("mem", m, "mem"), Write("soft", s, "softmem"), Write("vmem", v, "vmem")>>
<1> DEFINE M == Write("mem", m, "mem")
           S == Write("soft", s, "softmem")
           W == Write("mem", v, "vmem")
           V == Write("vmem", v, "vmem")
           first == When(c.memory, M)
           second == When(c.memory /\ c.soft, S)
           third == When(c.memsw /\ ~c.memory, W)
           fourth == When(c.memsw, V)
<1>1. Writes(c, m, s, v) = first \o second \o third \o fourth
  BY DEF Writes
<1>2. /\ c.memory => first = <<M>> /\ third = <<>>
      /\ ~c.memory => first = <<>> /\ second = <<>>
      /\ c.memory /\ c.soft => second = <<S>>
      /\ ~c.soft => second = <<>>
      /\ c.memsw => fourth = <<V>>
      /\ c.memsw /\ ~c.memory => third = <<W>>
      /\ ~c.memsw => third = <<>> /\ fourth = <<>>
  BY DEF When
<1>3. ASSUME ~c.memory PROVE
        /\ ~c.memsw => Writes(c, m, s, v) = <<>>
        /\ c.memsw => Writes(c, m, s, v) = <<W, V>>
  <2> HIDE DEF M, S, V, W, first, second, third, fourth
  <2>1. first \o second = <<>>
    BY <1>2, <1>3, ShortSequences
  <2>2. ~c.memsw => Writes(c, m, s, v) = <<>> \o <<>> \o <<>>
    BY <1>1, <1>2, <1>3, <2>1
  <2>3. c.memsw => Writes(c, m, s, v) = <<>> \o <<W>> \o <<V>>
    BY <1>1, <1>2, <1>3, <2>1
  <2>4. <<>> \o <<>> = <<>> /\ <<>> \o <<W>> = <<W>> /\ <<W>> \o <<V>> = <<W, V>>
    BY ShortSequences
  <2> QED
    BY <2>2, <2>3, <2>4
<1>4. ASSUME c.memory, ~c.soft PROVE
        /\ ~c.memsw => Writes(c, m, s, v) = <<M>>
        /\ c.memsw => Writes(c, m, s, v) = <<M, V>>
  <2> HIDE DEF M, S, V, W, first, second, third, fourth
  <2>1. first \o second = <<M>>
    BY <1>2, <1>4, ShortSequences
  <2>2. ~c.memsw => Writes(c, m, s, v) = <<M>> \o <<>> \o <<>>
    BY <1>1, <1>2, <1>4, <2>1
  <2>3. c.memsw => Writes(c, m, s, v) = <<M>> \o <<>> \o <<V>>
    BY <1>1, <1>2, <1>4, <2>1
  <2>4. <<M>> \o <<>> = <<M>> /\ <<M>> \o <<>> = <<M>> /\ <<M>> \o <<V>> = <<M, V>>
    BY ShortSequences
  <2> QED
    BY <2>2, <2>3, <2>4
<1>5. ASSUME c.memory, c.soft PROVE
        /\ ~c.memsw => Writes(c, m, s, v) = <<M, S>>
        /\ c.memsw => Writes(c, m, s, v) = <<M, S, V>>
  <2> HIDE DEF M, S, V, W, first, second, third, fourth
  <2>1. first \o second = <<M, S>>
    BY <1>2, <1>5, ShortSequences
  <2>2. ~c.memsw => Writes(c, m, s, v) = <<M, S>> \o <<>> \o <<>>
    BY <1>1, <1>2, <1>5, <2>1
  <2>3. c.memsw => Writes(c, m, s, v) = <<M, S>> \o <<>> \o <<V>>
    BY <1>1, <1>2, <1>5, <2>1
  <2>4. <<M, S>> \o <<>> = <<M, S>> /\ <<M, S>> \o <<>> = <<M, S>> /\ <<M, S>> \o <<V>> = <<M, S, V>>
    BY ShortSequences
  <2> QED
    BY <2>2, <2>3, <2>4
<1> QED
  BY <1>3, <1>4, <1>5

\* A job is configured: all writes are still to be done, and are equal.
LEMMA ConfigureEven ==
  ASSUME Control, NEW e \in {"begin", "resize"}, NEW r \in Requests, ConfigureJob(e, r),
         cfg' = cfg, host' = host, Both(cfg), Answer(cfg, host, r) = "none",
         \A c \in job'.under: WithoutSwap(c, host)
  PROVE  \E m: Even(m)'
<1>1. cfg \in job'.under /\ todo' = JobWrites(cfg, host, r)
  BY DEF ConfigureJob, Answer
<1>2. WithoutSwap(cfg, host) /\ Verdict(cfg, host, r) = "none"
  BY <1>1 DEF Answer, Both
<1>3. JobMem(cfg, host, r) = JobVmem(cfg, host, r)
  BY <1>2, EqualLimits DEF Control
<1>4. todo' = <<Write("mem", JobMem(cfg, host, r), "mem"), Write("vmem", JobVmem(cfg, host, r), "vmem")>>
  <2>1. cfg.memory /\ cfg.memsw /\ ~cfg.soft
    BY <1>2 DEF Both, WithoutSwap
  <2>2. ASSUME NEW m, NEW s, NEW v
        PROVE  Writes(cfg, m, s, v) = <<Write("mem", m, "mem"), Write("vmem", v, "vmem")>>
    BY <2>1, WritesAre
  <2> QED
    BY <1>1, <2>2 DEF JobWrites
<1> QED
  BY <1>3, <1>4 DEF Even

-----------------------------------------------------------------------------
(* The steps of these parts of the invariant.                              *)

\* Each clause of TypeOK for itself, as they do not depend on each other
LEMMA ControlStep == Control /\ [Next]_vars => Control'
<1> SUFFICES ASSUME Control, [Next]_vars PROVE Control'
  OBVIOUS
<1>a. MaxStarts \in Nat
  BY BoundsOK
<1>b. ASSUME NEW c, NEW h, NEW r PROVE Verdict(c, h, r) \in {"none", "delete", "hold"}
  BY DEF Verdict
<1>c. ASSUME NEW e, NEW r, ConfigureJob(e, r)
      PROVE  result' \in {"none", "delete", "hold"} /\ event' \in {event, e}
  BY <1>c, <1>b DEF ConfigureJob
<1> USE DEF Control
<1>1. ASSUME NEW c \in Configs, StartMom(c) PROVE Control'
  BY <1>1, <1>a DEF StartMom
<1>2. CASE WriteHostLimit
  BY <1>2 DEF WriteHostLimit
<1>3. CASE EndRound
  BY <1>3 DEF EndRound, Rounds
<1>4. ASSUME NEW r \in Requests, Begin(r) \/ Resize(r) PROVE Control'
  BY <1>4, <1>c DEF Begin, Resize
<1>5. CASE WriteJobLimit
  BY <1>5 DEF WriteJobLimit
<1>6. CASE Configured \/ End
  BY <1>6 DEF Configured, End
<1>7. CASE UNCHANGED vars
  BY <1>7 DEF vars
<1> QED
  BY <1>1, <1>2, <1>3, <1>4, <1>5, <1>6, <1>7 DEF Next

LEMMA SwitchesStep == Switches /\ [Next]_vars => Switches'
<1> SUFFICES ASSUME Switches, [Next]_vars PROVE Switches'
  OBVIOUS
<1> USE DEF Switches
<1>1. ASSUME NEW c \in Configs, StartMom(c) PROVE Switches'
  BY <1>1 DEF StartMom
<1>2. CASE WriteHostLimit \/ EndRound
  BY <1>2 DEF WriteHostLimit, EndRound
<1>3. ASSUME NEW r \in Requests, Begin(r) \/ Resize(r) PROVE Switches'
  BY <1>3 DEF Begin, Resize, ConfigureJob
<1>4. CASE WriteJobLimit
  BY <1>4 DEF WriteJobLimit
<1>5. CASE Configured \/ End \/ UNCHANGED vars
  BY <1>5 DEF Configured, End, vars
<1> QED
  BY <1>1, <1>2, <1>3, <1>4, <1>5 DEF Next

LEMMA JobHereStep == JobHere /\ [Next]_vars => JobHere'
<1> SUFFICES ASSUME JobHere, [Next]_vars PROVE JobHere'
  OBVIOUS
<1>1. job' = NoJob => JobHere'
  BY DEF NoJob, JobHere
<1>2. UNCHANGED job => JobHere'
  BY DEF JobHere
<1>3. ASSUME NEW e, NEW r, ConfigureJob(e, r) PROVE JobHere'
  <2>1. CASE Answer(cfg, host, r) # "none"
    BY <1>2, <1>3, <2>1 DEF ConfigureJob, Answer
  <2>2. CASE Answer(cfg, host, r) = "none"
    <3>1. job' = [mem |-> r.mem, vmem |-> r.vmem, here |-> TRUE, under |-> job.under \cup {cfg}]
      BY <1>3, <2>2 DEF ConfigureJob, Answer
    <3> QED
      BY <3>1 DEF JobHere
  <2> QED
    BY <2>1, <2>2
<1> QED
  BY <1>1, <1>2, <1>3 DEF Next, StartMom, WriteHostLimit, EndRound, Begin, Resize, WriteJobLimit,
     Configured, End, vars

\* The controllers stay as they are while there is a job, and a limit that the
\* kernel refuses ends the job.
LEMMA SwaplessStep == Control /\ SwaplessInv /\ [Next]_vars => SwaplessInv'
<1> SUFFICES ASSUME Control, SwaplessInv, [Next]_vars PROVE SwaplessInv'
  OBVIOUS
<1> USE DEF SwaplessInv, ChangesJob
<1>1. ASSUME NEW c \in Configs, StartMom(c) PROVE SwaplessInv'
  <2>1. Both(cfg') = Both(cfg) /\ UNCHANGED <<host, job, limit>> /\ ~ChangesJob /\ ~ChangesJob'
    BY <1>1 DEF StartMom, SameControllers, Both
  <2> QED
    BY <2>1 DEF Both
<1>2. CASE WriteHostLimit \/ EndRound
  BY <1>2 DEF WriteHostLimit, EndRound
<1>3. ASSUME NEW r \in Requests, NEW e \in {"begin", "resize"}, ConfigureJob(e, r),
             UNCHANGED <<cfg, host>>, event = "none",
             (limit' = Fresh /\ ~job.here) \/ UNCHANGED limit
      PROVE  SwaplessInv'
  <2>1. DOMAIN limit' = {"mem", "soft", "vmem"}
    BY <1>3 DEF Fresh
  <2>2. CASE Answer(cfg, host, r) # "none"
    BY <1>3, <2>1, <2>2 DEF ConfigureJob, Answer
  <2>3. CASE Answer(cfg, host, r) = "none"
    BY <1>3, <2>1, <2>3, ConfigureEven DEF ConfigureJob, Answer
  <2> QED
    BY <2>2, <2>3
<1>4. ASSUME NEW r \in Requests, Begin(r) \/ Resize(r) PROVE SwaplessInv'
  BY <1>3, <1>4 DEF Begin, Resize
<1>5. CASE WriteJobLimit
  <2>1. CASE job' = NoJob /\ limit' = Fresh
    BY <2>1 DEF NoJob, Fresh
  <2>2. CASE /\ limit' = [limit EXCEPT ![Head(todo).file] = Head(todo).size]
             /\ todo' = Tail(todo) /\ UNCHANGED <<event, job>>
    <3>1. ASSUME NEW m, Even(m) PROVE Even(m)'
      <4>1. ASSUME todo = <<Write("mem", m, "mem"), Write("vmem", m, "vmem")>>
            PROVE  todo' = <<Write("vmem", m, "vmem")>> /\ limit'.mem = m
        BY <2>2, <4>1 DEF Write
      <4>2. ASSUME todo = <<Write("vmem", m, "vmem")>>, limit.mem = m
            PROVE  todo' = <<>> /\ limit'.mem = m /\ limit'.vmem = m
        BY <2>2, <4>2 DEF Write
      <4> QED
        BY <1>5, <3>1, <4>1, <4>2 DEF Even, WriteJobLimit
    <3> QED
      BY <1>5, <2>2, <3>1 DEF WriteJobLimit
  <2> QED
    BY <1>5, <2>1, <2>2 DEF WriteJobLimit
<1>6. CASE Configured
  <2>1. ASSUME NEW m, Even(m) PROVE limit.vmem = limit.mem
    BY <1>6, <2>1 DEF Configured, Even
  <2> QED
    BY <1>6, <2>1 DEF Configured
<1>7. CASE End
  BY <1>7 DEF End, NoJob, Fresh
<1>8. CASE UNCHANGED vars
  BY <1>8 DEF vars, Even
<1> QED
  BY <1>1, <1>2, <1>4, <1>5, <1>6, <1>7, <1>8 DEF Next

-----------------------------------------------------------------------------
(* The offer.                                                              *)

\* What the server was told is what this host with this configuration has.
OfferInv ==
  /\ event = "startup" \/ ready => ~NothingLeft(cfg, host)
  /\ ready => advertised = Advertise(cfg, host)

LEMMA OfferStep == Control /\ OfferInv /\ [Next]_vars => OfferInv'
<1> SUFFICES ASSUME Control, OfferInv, [Next]_vars PROVE OfferInv'
  OBVIOUS
<1> USE DEF OfferInv
<1>1. ASSUME NEW c \in Configs, StartMom(c) PROVE OfferInv'
  BY <1>1 DEF StartMom, Control
<1>2. CASE WriteHostLimit
  BY <1>2 DEF WriteHostLimit
<1>3. CASE EndRound
  BY <1>3 DEF EndRound
<1>4. ASSUME NEW r \in Requests, NEW e \in {"begin", "resize"}, ConfigureJob(e, r),
             UNCHANGED <<cfg, host, ready, advertised>>
      PROVE  OfferInv'
  BY <1>4 DEF ConfigureJob
<1>5. ASSUME NEW r \in Requests, Begin(r) \/ Resize(r) PROVE OfferInv'
  BY <1>4, <1>5 DEF Begin, Resize
<1>6. CASE WriteJobLimit
  BY <1>6 DEF WriteJobLimit
<1>7. CASE Configured \/ End \/ UNCHANGED vars
  BY <1>7 DEF Configured, End, vars
<1> QED
  BY <1>1, <1>2, <1>3, <1>5, <1>6, <1>7 DEF Next

LEMMA OfferKept == Control /\ OfferInv => OfferHolds
<1> SUFFICES ASSUME Control, OfferInv, ready,
                    NEW r \in Requests, FitsOffer(r), Exceeds(cfg, host, r)
             PROVE  cfg.memsw /\ cfg.vnodes /\ r.vmem # Absent /\ r.vmem > VmemAvail(cfg, host)
  BY DEF OfferHolds
<1> DEFINE mem == Told(Advertise(cfg, host), "mem")
           vmem == Told(Advertise(cfg, host), "vmem")
<1>1. Offered("mem") = mem /\ Offered("vmem") = vmem
  BY DEF Offered, Told, OfferInv
<1>2. /\ mem \in Int /\ mem <= MemAvail(cfg, host) /\ vmem \in Int
      /\ ~(cfg.memsw /\ cfg.vnodes) => vmem <= VmemAvail(cfg, host)
  BY AdvertisedFits DEF Control, OfferInv
<1>3. MemAvail(cfg, host) \in Int /\ VmemAvail(cfg, host) \in Int
  BY HostSizes DEF Control, MemAvail, VmemAvail, Larger
<1>4. r.mem \in Nat \cup {Absent} /\ r.vmem \in Nat \cup {Absent}
  BY SizesOK DEF Requests
<1>5. cfg.memsw \in BOOLEAN /\ cfg.vnodes \in BOOLEAN
  BY ConfigsOK DEF Control, ConfigType
<1> HIDE DEF mem, vmem
<1>6. ~(r.mem # Absent /\ r.mem > MemAvail(cfg, host))
  BY <1>1, <1>2, <1>3, <1>4 DEF FitsOffer
<1>7. r.vmem # Absent /\ r.vmem > VmemAvail(cfg, host)
  BY <1>6 DEF Exceeds
<1>8. r.vmem <= vmem
  BY <1>1, <1>7 DEF FitsOffer
<1>9. cfg.memsw /\ cfg.vnodes
  BY <1>2, <1>3, <1>4, <1>5, <1>7, <1>8
<1> QED
  BY <1>7, <1>9

-----------------------------------------------------------------------------
(* The startup handler.                                                    *)

HostMem(c, h) == Write("mem", MemoryOnNode(c, h), "mem")
HostBoth(c, h) == Write("mem", HostVmem(c, h), "vmem")
HostSwap(c, h) == Write("vmem", HostVmem(c, h), "vmem")

LEMMA HostWritesAre ==
  ASSUME NEW c \in Configs, NEW h
  PROVE  /\ ~c.memory /\ ~c.memsw => HostWrites(c, h) = <<>>
         /\ ~c.memory /\ c.memsw => HostWrites(c, h) = <<HostBoth(c, h), HostSwap(c, h)>>
         /\ c.memory /\ ~c.memsw => HostWrites(c, h) = <<HostMem(c, h)>>
         /\ c.memory /\ c.memsw => HostWrites(c, h) = <<HostMem(c, h), HostSwap(c, h)>>
<1> DEFINE hard == [c EXCEPT !.soft = FALSE]
<1>1. ~hard.soft /\ (hard.memory <=> c.memory) /\ (hard.memsw <=> c.memsw)
  BY ConfigsOK DEF ConfigType
<1>2. HostWrites(c, h) = Writes(hard, MemoryOnNode(c, h), Unlimited, HostVmem(c, h))
  BY DEF HostWrites
<1> HIDE DEF hard
<1> QED
  BY <1>1, <1>2, WritesAre DEF HostMem, HostBoth, HostSwap

\* The limits of the host's cgroup; the second is never below the first.
ParentInv ==
  /\ DOMAIN parent = {"mem", "soft", "vmem"}
  /\ parent.mem \in Int /\ parent.vmem \in Int /\ parent.mem <= parent.vmem
  /\ ~cfg.memsw => parent.vmem = Unlimited

HostCalls ==
  IF cfg.memsw THEN {HostMem(cfg, host), HostBoth(cfg, host), HostSwap(cfg, host)} ELSE {HostMem(cfg, host)}

\* The memory controller alone: its limit is below what no limit is.
AlonePhase == fine /\ todo \in {<<HostMem(cfg, host)>>, <<>>}

\* Both: a memory limit above the old vmem limit fails in the first round, in
\* which the vmem limit is raised.
BothPhase ==
  \/ /\ fine /\ todo = <<HostMem(cfg, host), HostSwap(cfg, host)>>
     /\ round = 1 \/ parent.vmem = HostVmem(cfg, host)
  \/ fine /\ todo = <<HostSwap(cfg, host)>> /\ parent.mem = MemoryOnNode(cfg, host)
  \/ ~fine /\ round = 1 /\ todo = <<HostSwap(cfg, host)>> /\ parent.vmem < HostVmem(cfg, host)
  \/ fine /\ todo = <<>>
  \/ ~fine /\ round = 1 /\ todo = <<>> /\ parent.vmem = HostVmem(cfg, host)

\* memsw alone: what is to be raised fails in every round.
SwapPhase ==
  \/ fine /\ todo = <<HostBoth(cfg, host), HostSwap(cfg, host)>>
  \/ fine /\ todo = <<HostSwap(cfg, host)>> /\ parent.mem = HostVmem(cfg, host)
  \/ fine /\ todo = <<>>
  \/ ~fine /\ todo = <<>> /\ parent.vmem < HostVmem(cfg, host)

Phase ==
  /\ ~cfg.memory /\ ~cfg.memsw => fine /\ todo = <<>>
  /\ cfg.memory /\ ~cfg.memsw => AlonePhase
  /\ cfg.memory /\ cfg.memsw /\ MemoryOnNode(cfg, host) <= HostVmem(cfg, host) => BothPhase
  /\ ~cfg.memory /\ cfg.memsw => SwapPhase

\* The loop goes on as it should, or a running process is in the way.
Looping ==
  /\ round \in 1..3 /\ result \in {"none", "busy"} /\ todo \in Seq(HostCalls)
  /\ result = "busy" \/ Phase

StartupInv == ParentInv /\ StartupSettles /\ (event = "startup" => Looping)

\* A round begins.
LEMMA RoundBegins ==
  ASSUME NEW c \in Configs, cfg' = c, host' \in Hosts, todo' = HostWrites(c, host'), fine',
         round' \in 1..3, result' \in {"none", "busy"},
         \/ result' = "busy" \/ round' = 1 \/ ~c.memory \/ ~c.memsw
         \/ HostVmem(c, host') < MemoryOnNode(c, host')
         \/ parent'.vmem = HostVmem(c, host')
  PROVE  Looping'
<1> DEFINE M == HostMem(cfg', host')
           W == HostBoth(cfg', host')
           V == HostSwap(cfg', host')
<1>1. CASE ~c.memory /\ ~c.memsw
  <2>1. todo' = <<>> /\ ~cfg'.memory /\ ~cfg'.memsw
    BY <1>1, HostWritesAre
  <2>2. todo' \in Seq(HostCalls')
    BY <2>1
  <2> QED
    BY <2>1, <2>2 DEF Looping, Phase
<1>2. CASE ~c.memory /\ c.memsw
  <2>1. todo' = <<W, V>> /\ ~cfg'.memory /\ cfg'.memsw
    BY <1>2, HostWritesAre
  <2>2. HostCalls' = {M, W, V}
    BY <2>1 DEF HostCalls
  <2> HIDE DEF M
  <2>3. todo' \in Seq(HostCalls')
    BY <2>1, <2>2
  <2>4. SwapPhase'
    BY <2>1 DEF SwapPhase
  <2> QED
    BY <2>1, <2>3, <2>4 DEF Looping, Phase
<1>3. CASE c.memory /\ ~c.memsw
  <2>1. todo' = <<M>> /\ cfg'.memory /\ ~cfg'.memsw
    BY <1>3, HostWritesAre
  <2>2. HostCalls' = {M}
    BY <2>1 DEF HostCalls
  <2>3. todo' \in Seq(HostCalls')
    BY <2>1, <2>2
  <2>4. AlonePhase'
    BY <2>1 DEF AlonePhase
  <2> QED
    BY <2>1, <2>3, <2>4 DEF Looping, Phase
<1>4. CASE c.memory /\ c.memsw
  <2>1. todo' = <<M, V>> /\ cfg'.memory /\ cfg'.memsw
    BY <1>4, HostWritesAre
  <2>2. HostCalls' = {M, W, V}
    BY <2>1 DEF HostCalls
  <2> HIDE DEF W
  <2>3. todo' \in Seq(HostCalls')
    BY <2>1, <2>2
  <2>4. \/ result' = "busy" \/ HostVmem(cfg', host') < MemoryOnNode(cfg', host') \/ BothPhase'
    BY <1>4, <2>1 DEF BothPhase
  <2>5. HostVmem(cfg', host') < MemoryOnNode(cfg', host') =>
          ~(MemoryOnNode(cfg', host') <= HostVmem(cfg', host'))
    BY HostSizes
  <2> QED
    BY <2>1, <2>3, <2>4, <2>5 DEF Looping, Phase
<1> QED
  BY <1>1, <1>2, <1>3, <1>4

LEMMA StartLoop ==
  ASSUME Control, StartupInv, NEW c \in Configs, StartMom(c)
  PROVE  StartupInv'
<1>1. UNCHANGED host /\ cfg' = c /\ (c.memsw = cfg.memsw) /\ event = "none"
      /\ (UNCHANGED parent \/ TryMemoryLimit(c))
  BY DEF StartMom, SameControllers
<1>2. ParentInv'
  <2>1. ParentInv /\ MemoryOnNode(c, host) \in Int
    BY HostSizes DEF Control, StartupInv
  <2>2. CASE UNCHANGED parent
    BY <1>1, <2>1, <2>2 DEF ParentInv
  <2>3. CASE parent' = [parent EXCEPT !.mem = MemoryOnNode(c, host)] /\ MemoryOnNode(c, host) <= parent.vmem
    BY <1>1, <2>1, <2>3 DEF ParentInv
  <2> QED
    BY <1>1, <2>1, <2>2, <2>3 DEF TryMemoryLimit, Invalid, Write, ParentInv
<1>3. CASE NothingLeft(c, host)
  BY <1>1, <1>2, <1>3 DEF StartMom, StartupInv, StartupSettles
<1>4. CASE ~NothingLeft(c, host)
  <2>1. /\ round' = 1 /\ fine' /\ result' = "none" /\ todo' = HostWrites(c, host')
    BY <1>1, <1>4 DEF StartMom
  <2>2. Looping'
    BY <1>1, <2>1, RoundBegins DEF Control
  <2> QED
    BY <1>2, <2>1, <2>2 DEF StartupInv, StartupSettles
<1> QED
  BY <1>3, <1>4


\* The next write of the startup handler, or the next call if it fails
LEMMA LoopWrite ==
  ASSUME Control, StartupInv, WriteHostLimit
  PROVE  StartupInv'
<1> DEFINE w == Head(todo)
           M == MemoryOnNode(cfg, host)
           V == HostVmem(cfg, host)
<1>1. UNCHANGED <<cfg, host, event, round>> /\ event = "startup" /\ todo # <<>>
  BY DEF WriteHostLimit
<1>2. ParentInv /\ Looping /\ M \in Int /\ V \in Int
  BY <1>1, HostSizes DEF StartupInv, Control
<1>3. w \in HostCalls /\ Tail(todo) \in Seq(HostCalls) /\ NextCall(todo) \in Seq(HostCalls)
  <2>1. w \in HostCalls /\ Tail(todo) \in Seq(HostCalls)
    BY <1>1, <1>2, HeadTailProperties DEF Looping
  <2>2. Tail(todo) # <<>> => Tail(Tail(todo)) \in Seq(HostCalls)
    BY <2>1, HeadTailProperties
  <2> QED
    BY <2>1, <2>2 DEF NextCall
<1>4. UNCHANGED HostCalls
  BY <1>1 DEF HostCalls
<1>5. w.file \in {"mem", "vmem"} /\ w.size \in Int /\ (~cfg.memsw => w.file = "mem")
  BY <1>2, <1>3 DEF HostCalls, HostMem, HostBoth, HostSwap, Write
<1>6. CASE /\ ~Invalid(parent, w) /\ parent' = [parent EXCEPT ![w.file] = w.size]
           /\ todo' = Tail(todo) /\ UNCHANGED <<fine, result>>
  <2>1. ParentInv'
    BY <1>1, <1>2, <1>5, <1>6 DEF ParentInv, Invalid
  <2>2. ASSUME Phase PROVE Phase'
    <3> USE <1>1, <1>2, <1>6, <2>2
    <3>1. cfg.memory /\ ~cfg.memsw => AlonePhase'
      <4> SUFFICES ASSUME cfg.memory, ~cfg.memsw PROVE AlonePhase'
        OBVIOUS
      <4>1. fine /\ todo = <<HostMem(cfg, host)>>
        BY DEF Phase, AlonePhase
      <4>2. fine' /\ todo' = <<>>
        BY <4>1
      <4> QED
        BY <4>2 DEF AlonePhase
    <3>2. cfg.memory /\ cfg.memsw /\ M <= V => BothPhase'
      <4> SUFFICES ASSUME cfg.memory, cfg.memsw, M <= V PROVE BothPhase'
        OBVIOUS
      <4>1. CASE todo = <<HostMem(cfg, host), HostSwap(cfg, host)>> /\ fine
        BY <4>1 DEF BothPhase, HostMem, Write, ParentInv
      <4>2. CASE todo = <<HostSwap(cfg, host)>> /\ fine
        BY <4>2 DEF BothPhase
      <4>3. CASE todo = <<HostSwap(cfg, host)>> /\ ~fine /\ round = 1
        BY <4>3 DEF BothPhase, HostSwap, Write, ParentInv
      <4> QED
        BY <4>1, <4>2, <4>3 DEF Phase, BothPhase
    <3>3. ~cfg.memory /\ cfg.memsw => SwapPhase'
      <4> SUFFICES ASSUME ~cfg.memory, cfg.memsw PROVE SwapPhase'
        OBVIOUS
      <4>1. CASE todo = <<HostBoth(cfg, host), HostSwap(cfg, host)>> /\ fine
        BY <4>1 DEF SwapPhase, HostBoth, Write, ParentInv
      <4>2. CASE todo = <<HostSwap(cfg, host)>> /\ fine
        BY <4>2 DEF SwapPhase
      <4> QED
        BY <4>1, <4>2 DEF Phase, SwapPhase
    <3> QED
      BY <3>1, <3>2, <3>3 DEF Phase
  <2> QED
    BY <1>1, <1>2, <1>3, <1>4, <1>6, <2>1, <2>2 DEF StartupInv, Looping, StartupSettles
<1>7. ASSUME fine' = FALSE, todo' = NextCall(todo), UNCHANGED parent, result' = "busy"
      PROVE  StartupInv'
  BY <1>1, <1>2, <1>3, <1>4, <1>7 DEF StartupInv, Looping, ParentInv, StartupSettles
<1>8. CASE /\ Invalid(parent, w) /\ fine' = FALSE /\ todo' = NextCall(todo)
           /\ UNCHANGED <<parent, result>>
  <2>1. ParentInv'
    BY <1>1, <1>2, <1>8 DEF ParentInv
  <2>2. ASSUME Phase PROVE Phase'
    <3> USE <1>1, <1>2, <1>8, <2>2
    <3>1. cfg.memory /\ ~cfg.memsw => FALSE
      <4> SUFFICES ASSUME cfg.memory, ~cfg.memsw PROVE FALSE
        OBVIOUS
      <4>1. todo = <<HostMem(cfg, host)>>
        BY DEF Phase, AlonePhase
      <4>2. M > parent.vmem /\ parent.vmem = Unlimited
        BY <4>1 DEF HostMem, Write, Invalid, ParentInv
      <4> QED
        BY <4>2, UnlimitedOK, SizesOK DEF Control
    <3>2. cfg.memory /\ cfg.memsw /\ M <= V => BothPhase'
      <4> SUFFICES ASSUME cfg.memory, cfg.memsw, M <= V PROVE BothPhase'
        OBVIOUS
      <4>1. CASE todo = <<HostMem(cfg, host), HostSwap(cfg, host)>> /\ fine
        <5>1. parent.vmem < V
          BY <4>1 DEF HostMem, Write, Invalid, ParentInv
        <5>2. todo' = <<HostSwap(cfg, host)>>
          BY <4>1 DEF NextCall, HostMem, HostSwap, Write
        <5>3. round = 1
          BY <4>1, <5>1 DEF Phase, BothPhase, ParentInv
        <5> QED
          BY <5>1, <5>2, <5>3 DEF BothPhase
      <4>2. CASE todo = <<HostSwap(cfg, host)>>
        BY <4>2 DEF Phase, BothPhase, HostSwap, Write, Invalid, ParentInv
      <4> QED
        BY <4>1, <4>2 DEF Phase, BothPhase
    <3>3. ~cfg.memory /\ cfg.memsw => SwapPhase'
      <4> SUFFICES ASSUME ~cfg.memory, cfg.memsw PROVE SwapPhase'
        OBVIOUS
      <4>1. CASE todo = <<HostBoth(cfg, host), HostSwap(cfg, host)>>
        <5>1. parent.vmem < V
          BY <4>1 DEF HostBoth, Write, Invalid, ParentInv
        <5>2. todo' = <<>>
          BY <4>1 DEF NextCall, HostBoth, HostSwap, Write
        <5> QED
          BY <5>1, <5>2 DEF SwapPhase
      <4>2. CASE todo = <<HostSwap(cfg, host)>>
        BY <4>2 DEF Phase, SwapPhase, HostSwap, Write, Invalid, ParentInv
      <4> QED
        BY <4>1, <4>2 DEF Phase, SwapPhase
    <3> QED
      BY <3>1, <3>2, <3>3 DEF Phase
  <2> QED
    BY <1>1, <1>2, <1>3, <1>4, <1>8, <2>1, <2>2 DEF StartupInv, Looping, StartupSettles
<1> QED
  BY <1>6, <1>7, <1>8 DEF WriteHostLimit

\* A round ends: the handler answers, or goes on with a higher vmem limit.
LEMMA LoopEnds ==
  ASSUME Control, StartupInv, EndRound
  PROVE  StartupInv'
<1>1. /\ UNCHANGED <<cfg, host, parent>> /\ event = "startup" /\ todo = <<>>
      /\ ParentInv /\ Looping /\ ParentInv'
  BY DEF EndRound, StartupInv, ParentInv
<1>2. MemoryOnNode(cfg, host) \in Int /\ HostVmem(cfg, host) \in Int
  BY HostSizes DEF Control
<1>3. ASSUME Phase, ~fine
      PROVE  /\ cfg.memsw
             /\ cfg.memory /\ MemoryOnNode(cfg, host) <= HostVmem(cfg, host) =>
                  round = 1 /\ parent.vmem = HostVmem(cfg, host)
             /\ ~cfg.memory => parent.vmem < HostVmem(cfg, host)
  BY <1>1, <1>3 DEF Phase, AlonePhase, BothPhase, SwapPhase
<1>4. CASE ~fine /\ round < 3
  <2>1. fine' /\ round' = round + 1 /\ todo' = HostWrites(cfg', host') /\ UNCHANGED <<event, result>>
    BY <1>1, <1>4 DEF EndRound, Rounds
  <2>2. round' \in 1..3 /\ result' \in {"none", "busy"}
    BY <1>1, <1>4, <2>1 DEF Looping
  <2>3. \/ result' = "busy" \/ ~cfg.memory \/ ~cfg.memsw
        \/ HostVmem(cfg, host) < MemoryOnNode(cfg, host)
        \/ parent'.vmem = HostVmem(cfg, host)
    BY <1>1, <1>2, <1>3, <1>4, <2>1 DEF Looping
  <2>4. Looping'
    BY <1>1, <2>1, <2>2, <2>3, RoundBegins DEF Control
  <2> QED
    BY <1>1, <2>1, <2>2, <2>4 DEF StartupInv, StartupSettles
<1>5. CASE fine \/ round >= 3
  <2>1. /\ event' = "none"
        /\ result' = IF fine THEN "accept" ELSE IF result = "busy" THEN "busy" ELSE "reject"
    BY <1>1, <1>5 DEF EndRound, Rounds, Looping
  <2>2. ASSUME result' = "reject" PROVE ~fine /\ Phase /\ round >= 3
    BY <1>1, <1>5, <2>1, <2>2 DEF Looping
  <2>3. StartupSettles'
    BY <1>1, <1>2, <1>3, <2>2 DEF StartupSettles, ParentInv
  <2> QED
    BY <1>1, <2>1, <2>3 DEF StartupInv
<1> QED
  BY <1>1, <1>4, <1>5 DEF Looping

LEMMA StartupStep == Control /\ StartupInv /\ [Next]_vars => StartupInv'
<1> SUFFICES ASSUME Control, StartupInv, [Next]_vars PROVE StartupInv'
  OBVIOUS
<1>1. ASSUME NEW c \in Configs, StartMom(c) PROVE StartupInv'
  BY <1>1, StartLoop
<1>2. CASE WriteHostLimit \/ EndRound
  BY <1>2, LoopWrite, LoopEnds
<1>3. ASSUME UNCHANGED <<cfg, host, parent>>, event' # "startup", result' # "reject" \/ UNCHANGED result
      PROVE  StartupInv'
  BY <1>3 DEF StartupInv, ParentInv, StartupSettles
<1>4. ASSUME NEW c, NEW h, NEW r PROVE Answer(c, h, r) \in {"none", "delete", "hold"}
  BY DEF Answer, Verdict
<1>5. ASSUME NEW r \in Requests, NEW e \in {"begin", "resize"}, ConfigureJob(e, r), event = "none"
      PROVE  event' # "startup" /\ result' # "reject"
  <2>1. CASE Answer(cfg, host, r) = "none"
    BY <1>5, <2>1 DEF ConfigureJob, Answer
  <2>2. CASE Answer(cfg, host, r) # "none"
    BY <1>4, <1>5, <2>2 DEF ConfigureJob, Answer
  <2> QED
    BY <2>1, <2>2
<1>6. ASSUME NEW r \in Requests, Begin(r) \/ Resize(r) PROVE StartupInv'
  BY <1>3, <1>5, <1>6 DEF Begin, Resize
<1>7. CASE WriteJobLimit
  BY <1>3, <1>7 DEF WriteJobLimit
<1>8. CASE Configured \/ End
  BY <1>3, <1>8 DEF Configured, End
<1>9. CASE UNCHANGED vars
  BY <1>9 DEF vars, StartupInv, ParentInv, StartupSettles, Looping, Phase, AlonePhase, BothPhase,
     SwapPhase, HostCalls
<1> QED
  BY <1>1, <1>2, <1>6, <1>7, <1>8, <1>9 DEF Next

-----------------------------------------------------------------------------
(* The limits of a job.                                                    *)

IsRequest(r) == r.mem \in Sizes \cup {Absent} /\ r.vmem \in Sizes \cup {Absent}

\* What limits the memory of a job: without its controller the vmem does.
First(c, h, r) == IF c.memory THEN JobMem(c, h, r) ELSE JobVmem(c, h, r)

LEMMA LimitTypes ==
  ASSUME NEW c \in Configs, NEW h \in Hosts, NEW r, IsRequest(r)
  PROVE  /\ MemAvail(c, h) \in Int /\ VmemAvail(c, h) \in Int
         /\ c.default \in Nat \cup {Absent} /\ c.vdefault \in Nat \cup {Absent}
         /\ r.mem \in Nat \cup {Absent} /\ r.vmem \in Nat \cup {Absent}
         /\ MemLimit(c, h, r) \in Int /\ VmemLimit(c, h, r) \in Int
         /\ HardLimit(c, h, r) \in Int /\ FinalVmem(c, h, r) \in Int
         /\ JobMem(c, h, r) \in Int /\ JobVmem(c, h, r) \in Int
<1>1. MemAvail(c, h) \in Int /\ VmemAvail(c, h) \in Int
  BY HostSizes DEF MemAvail, VmemAvail, Larger
<1>2. /\ c.default \in Nat \cup {Absent} /\ c.vdefault \in Nat \cup {Absent}
      /\ r.mem \in Nat \cup {Absent} /\ r.vmem \in Nat \cup {Absent}
  BY ConfigsOK, SizesOK DEF ConfigType, IsRequest
<1>3. MemLimit(c, h, r) \in Int
  BY <1>1, <1>2 DEF MemLimit, Given
<1>4. VmemLimit(c, h, r) \in Int
  BY <1>1, <1>2, <1>3 DEF VmemLimit, Given, Larger
<1>5. HardLimit(c, h, r) \in Int
  BY <1>1, <1>3, <1>4 DEF HardLimit, Smaller
<1>6. FinalVmem(c, h, r) \in Int
  BY <1>4, <1>5 DEF FinalVmem, Larger
<1>7. JobMem(c, h, r) \in Int /\ JobVmem(c, h, r) \in Int
  BY <1>2, <1>5, <1>6 DEF JobMem, JobVmem, Given
<1> QED
  BY <1>1, <1>2, <1>3, <1>4, <1>5, <1>6, <1>7

\* No limit of a job is above that of a new cgroup.
LEMMA BelowUnlimited ==
  ASSUME NEW c \in Configs, NEW h \in Hosts, NEW r, IsRequest(r)
  PROVE  JobMem(c, h, r) <= Unlimited /\ JobVmem(c, h, r) <= Unlimited
<1> USE LimitTypes, SizesOK
<1>1. /\ MemAvail(c, h) <= Unlimited /\ VmemAvail(c, h) <= Unlimited
      /\ c.default # Absent => c.default <= Unlimited
      /\ c.vdefault # Absent => c.vdefault <= Unlimited
      /\ r.mem # Absent => r.mem <= Unlimited
      /\ r.vmem # Absent => r.vmem <= Unlimited
  BY UnlimitedOK DEF IsRequest, MemAvail
<1>2. MemLimit(c, h, r) <= Unlimited
  BY <1>1 DEF MemLimit, Given
<1>3. VmemLimit(c, h, r) <= Unlimited
  BY <1>1, <1>2 DEF VmemLimit, Given, Larger
<1>4. HardLimit(c, h, r) <= Unlimited
  BY <1>1, <1>2, <1>3 DEF HardLimit, Smaller
<1>5. FinalVmem(c, h, r) <= Unlimited
  BY <1>3, <1>4 DEF FinalVmem, Larger
<1> QED
  BY <1>1, <1>4, <1>5 DEF JobMem, JobVmem, Given

\* The memory limit of an accepted job is not above its vmem limit.
LEMMA MemBelowVmem ==
  ASSUME NEW c \in Configs, NEW h \in Hosts, NEW r, IsRequest(r),
         c.memsw, Answer(c, h, r) = "none"
  PROVE  First(c, h, r) <= JobVmem(c, h, r)
<1> USE LimitTypes
<1>1. CASE ~c.memory
  BY <1>1 DEF First
<1>2. CASE c.memory
  <2>1. Verdict(c, h, r) = "none"
    BY <1>2 DEF Answer
  <2>2. ~(r.vmem # Absent /\ FinalVmem(c, h, r) > r.vmem)
    BY <1>2, <2>1 DEF Verdict
  <2>3. MemLimit(c, h, r) <= FinalVmem(c, h, r) /\ HardLimit(c, h, r) <= FinalVmem(c, h, r)
    BY DEF FinalVmem, VmemLimit, Larger
  <2>4. FinalVmem(c, h, r) <= JobVmem(c, h, r)
    BY <2>2 DEF JobVmem, Given
  <2>5. r.mem # Absent => MemLimit(c, h, r) = r.mem
    BY DEF MemLimit, Given
  <2>6. JobMem(c, h, r) <= FinalVmem(c, h, r)
    BY <2>3, <2>5 DEF JobMem, Given
  <2> QED
    BY <1>2, <2>4, <2>6 DEF First
<1> QED
  BY <1>1, <1>2

\* Who asks for less gets no higher vmem limit.
LEMMA VmemFalls ==
  ASSUME NEW c \in Configs, NEW h \in Hosts, NEW r, NEW s, IsRequest(r), IsRequest(s), NoMore(r, s)
  PROVE  JobVmem(c, h, r) <= JobVmem(c, h, s)
<1> USE LimitTypes
<1>1. /\ r.mem = Absent <=> s.mem = Absent
      /\ r.mem # Absent => r.mem <= s.mem
      /\ r.vmem = Absent <=> s.vmem = Absent
      /\ r.vmem # Absent => r.vmem <= s.vmem
  BY DEF NoMore
<1>2. CASE r.vmem # Absent
  BY <1>1, <1>2 DEF JobVmem, Given
<1>3. CASE r.vmem = Absent
  <2>1. MemLimit(c, h, r) <= MemLimit(c, h, s)
    BY <1>1 DEF MemLimit, Given
  <2>2. VmemLimit(c, h, r) <= VmemLimit(c, h, s)
    BY <1>1, <1>3, <2>1 DEF VmemLimit, Given, Larger
  <2>3. HardLimit(c, h, r) <= HardLimit(c, h, s)
    BY <2>1, <2>2 DEF HardLimit, Smaller
  <2>4. FinalVmem(c, h, r) <= FinalVmem(c, h, s)
    BY <2>2, <2>3 DEF FinalVmem, Larger
  <2> QED
    BY <1>1, <1>3, <2>4 DEF JobVmem, Given
<1> QED
  BY <1>2, <1>3

\* The limits of the job's cgroup, when all is written
Held(c) ==
  /\ c.memory \/ c.memsw => limit.mem = First(c, host, job)
  /\ limit.vmem = IF c.memsw THEN JobVmem(c, host, job) ELSE Unlimited

FirstWrite == Write("mem", First(cfg, host, job), IF cfg.memory THEN "mem" ELSE "vmem")
SoftWrite == Write("soft", MemLimit(cfg, host, job), "softmem")
VmemWrite == Write("vmem", JobVmem(cfg, host, job), "vmem")

\* What has been written and what is still to be: the memory limit, which is
\* within the vmem limit there is, then the vmem limit, which is not below it.
Writing ==
  \/ /\ todo \in {<<FirstWrite, SoftWrite, VmemWrite>>, <<FirstWrite, VmemWrite>>} /\ cfg.memsw
     /\ limit.vmem \in Int /\ First(cfg, host, job) <= limit.vmem
     /\ First(cfg, host, job) <= JobVmem(cfg, host, job)
  \/ /\ todo \in {<<FirstWrite, SoftWrite>>, <<FirstWrite>>} /\ ~cfg.memsw
     /\ First(cfg, host, job) <= Unlimited /\ limit.vmem = Unlimited
  \/ /\ todo \in {<<SoftWrite, VmemWrite>>, <<VmemWrite>>} /\ cfg.memsw
     /\ limit.mem = First(cfg, host, job) /\ First(cfg, host, job) <= JobVmem(cfg, host, job)
  \/ /\ todo = <<SoftWrite>> /\ ~cfg.memsw
     /\ limit.mem = First(cfg, host, job) /\ limit.vmem = Unlimited
  \/ todo = <<>> /\ Held(cfg)

KernelInv ==
  /\ DOMAIN limit = {"mem", "soft", "vmem"}
  /\ ChangesJob => job.here
  /\ job.under \subseteq Configs
  /\ job.here => IsRequest(job) /\ job.under # {}
  /\ job.here /\ ~ChangesJob => \A c \in Configs: job.under = {c} => Held(c)
  /\ ChangesJob /\ job.under = {cfg} => Writing
  /\ ChangesJob => cfg \in job.under

\* A job is configured where the vmem limit has room for what is written first.
LEMMA WritingBegins ==
  ASSUME Control, NEW r \in Requests, NEW e \in {"begin", "resize"}, ConfigureJob(e, r),
         Answer(cfg, host, r) = "none", UNCHANGED <<cfg, host>>,
         cfg.memsw => limit'.vmem \in Int /\ First(cfg, host, r) <= limit'.vmem,
         ~cfg.memsw => limit'.vmem = Unlimited
  PROVE  Writing'
<1>1. /\ todo' = JobWrites(cfg, host, r) /\ job'.mem = r.mem /\ job'.vmem = r.vmem
  BY DEF ConfigureJob, Answer
<1>2. IsRequest(r) /\ cfg \in Configs /\ host \in Hosts
  BY DEF Requests, IsRequest, Control
<1>3. /\ JobMem(cfg, host, r) = JobMem(cfg, host, job)' /\ JobVmem(cfg, host, r) = JobVmem(cfg, host, job)'
      /\ MemLimit(cfg, host, r) = MemLimit(cfg, host, job)'
  BY <1>1 DEF JobMem, JobVmem, MemLimit, HardLimit, FinalVmem, VmemLimit
<1>4. First(cfg, host, r) = First(cfg, host, job)'
  BY <1>3 DEF First
<1>5. /\ FirstWrite' = Write("mem", First(cfg, host, r), IF cfg.memory THEN "mem" ELSE "vmem")
      /\ SoftWrite' = Write("soft", MemLimit(cfg, host, r), "softmem")
      /\ VmemWrite' = Write("vmem", JobVmem(cfg, host, r), "vmem")
  BY <1>3, <1>4 DEF FirstWrite, SoftWrite, VmemWrite
<1>6. First(cfg, host, r) <= Unlimited
  BY <1>2, BelowUnlimited DEF First
<1>7. cfg.memsw => First(cfg, host, r) <= JobVmem(cfg, host, r)
  BY <1>2, MemBelowVmem
<1>8. todo' = Writes(cfg, JobMem(cfg, host, r), MemLimit(cfg, host, r), JobVmem(cfg, host, r))
  BY <1>1 DEF JobWrites
<1>9. CASE ~cfg.memory /\ ~cfg.memsw
  BY <1>8, <1>9, WritesAre DEF Writing, Held
<1>10. CASE ~cfg.memory /\ cfg.memsw
  <2>1. todo' = <<FirstWrite', VmemWrite'>>
    BY <1>5, <1>8, <1>10, WritesAre DEF First
  <2> QED
    BY <1>3, <1>4, <1>7, <1>10, <2>1 DEF Writing
<1>11. CASE cfg.memory /\ ~cfg.memsw
  <2>1. todo' \in {<<FirstWrite', SoftWrite'>>, <<FirstWrite'>>}
    BY <1>5, <1>8, <1>11, WritesAre DEF First
  <2> QED
    BY <1>4, <1>6, <1>11, <2>1 DEF Writing
<1>12. CASE cfg.memory /\ cfg.memsw
  <2>1. todo' \in {<<FirstWrite', SoftWrite', VmemWrite'>>, <<FirstWrite', VmemWrite'>>}
    BY <1>5, <1>8, <1>12, WritesAre DEF First
  <2> QED
    BY <1>3, <1>4, <1>7, <1>12, <2>1 DEF Writing
<1> QED
  BY <1>9, <1>10, <1>11, <1>12

\* No limit of the job is refused.
LEMMA WritingValid ==
  ASSUME Control, KernelInv, ChangesJob, Writing, todo # <<>>
  PROVE  ~Invalid(limit, Head(todo))
<1>1. First(cfg, host, job) \in Int /\ JobVmem(cfg, host, job) \in Int
  BY LimitTypes DEF KernelInv, Control, First
<1>2. CASE Head(todo) = FirstWrite /\ limit.vmem \in Int /\ First(cfg, host, job) <= limit.vmem
  BY <1>1, <1>2 DEF FirstWrite, Write, Invalid
<1>3. CASE Head(todo) = SoftWrite
  BY <1>3 DEF SoftWrite, Write, Invalid
<1>4. CASE /\ Head(todo) = VmemWrite /\ limit.mem = First(cfg, host, job)
           /\ First(cfg, host, job) <= JobVmem(cfg, host, job)
  BY <1>1, <1>4 DEF VmemWrite, Write, Invalid
<1>5. CASE /\ todo \in {<<FirstWrite, SoftWrite, VmemWrite>>, <<FirstWrite, VmemWrite>>}
           /\ limit.vmem \in Int /\ First(cfg, host, job) <= limit.vmem
  <2>1. Head(todo) = FirstWrite
    <3>1. CASE todo = <<FirstWrite, SoftWrite, VmemWrite>>
      BY <3>1, ShortTails
    <3>2. CASE todo = <<FirstWrite, VmemWrite>>
      BY <3>2, ShortTails
    <3> QED
      BY <1>5, <3>1, <3>2
  <2> QED
    BY <1>2, <1>5, <2>1
<1>6. CASE /\ todo \in {<<FirstWrite, SoftWrite>>, <<FirstWrite>>}
           /\ First(cfg, host, job) <= Unlimited /\ limit.vmem = Unlimited
  BY <1>2, <1>6, ShortTails, SizesOK
<1>7. CASE /\ todo \in {<<SoftWrite, VmemWrite>>, <<VmemWrite>>}
           /\ limit.mem = First(cfg, host, job) /\ First(cfg, host, job) <= JobVmem(cfg, host, job)
  BY <1>3, <1>4, <1>7, ShortTails
<1>8. CASE todo = <<SoftWrite>>
  BY <1>3, <1>8, ShortTails
<1> QED
  BY <1>5, <1>6, <1>7, <1>8 DEF Writing

LEMMA WritingGoesOn ==
  ASSUME Control, KernelInv, Writing, todo # <<>>, UNCHANGED <<cfg, host, job>>, todo' = Tail(todo),
         limit' = [limit EXCEPT ![Head(todo).file] = Head(todo).size]
  PROVE  Writing'
<1>1. UNCHANGED <<FirstWrite, SoftWrite, VmemWrite>>
  BY DEF FirstWrite, SoftWrite, VmemWrite
<1>2. DOMAIN limit = {"mem", "soft", "vmem"}
  BY DEF KernelInv
<1> DEFINE F == FirstWrite
           S == SoftWrite
           V == VmemWrite
<1>3. ASSUME Head(todo) = F
      PROVE  limit'.mem = First(cfg, host, job) /\ limit'.vmem = limit.vmem
  BY <1>2, <1>3 DEF FirstWrite, Write
<1>4. ASSUME Head(todo) = S PROVE limit'.mem = limit.mem /\ limit'.vmem = limit.vmem
  BY <1>2, <1>4 DEF SoftWrite, Write
<1>5. ASSUME Head(todo) = V
      PROVE  limit'.mem = limit.mem /\ limit'.vmem = JobVmem(cfg, host, job)
  BY <1>2, <1>5 DEF VmemWrite, Write
<1>6. CASE todo \in {<<F, S, V>>, <<F, V>>} /\ cfg.memsw /\ First(cfg, host, job) <= JobVmem(cfg, host, job)
  <2>1. Head(todo) = F /\ todo' \in {<<S, V>>, <<V>>}
    <3>1. CASE todo = <<F, S, V>>
      BY <3>1, ShortTails
    <3>2. CASE todo = <<F, V>>
      BY <3>2, ShortTails
    <3> QED
      BY <1>6, <3>1, <3>2
  <2> QED
    BY <1>1, <1>3, <1>6, <2>1 DEF Writing
<1>7. CASE todo \in {<<F, S>>, <<F>>} /\ ~cfg.memsw /\ limit.vmem = Unlimited
  <2>1. Head(todo) = F /\ todo' \in {<<S>>, <<>>}
    <3>1. CASE todo = <<F, S>>
      BY <3>1, ShortTails
    <3>2. CASE todo = <<F>>
      BY <3>2, ShortTails
    <3> QED
      BY <1>7, <3>1, <3>2
  <2> QED
    BY <1>1, <1>3, <1>7, <2>1 DEF Writing, Held
<1>8. CASE /\ todo \in {<<S, V>>, <<V>>} /\ cfg.memsw /\ limit.mem = First(cfg, host, job)
           /\ First(cfg, host, job) <= JobVmem(cfg, host, job)
  <2>1. CASE todo = <<S, V>>
    BY <1>1, <1>4, <1>8, <2>1 DEF Writing
  <2>2. CASE todo = <<V>>
    <3>1. Head(todo) = V /\ todo' = <<>>
      BY <2>2
    <3> QED
      BY <1>5, <1>8, <3>1 DEF Writing, Held
  <2> QED
    BY <1>8, <2>1, <2>2
<1>9. CASE todo = <<S>> /\ ~cfg.memsw /\ limit.mem = First(cfg, host, job) /\ limit.vmem = Unlimited
  <2>1. Head(todo) = S /\ todo' = <<>>
    BY <1>9
  <2> QED
    BY <1>4, <1>9, <2>1 DEF Writing, Held
<1> QED
  BY <1>6, <1>7, <1>8, <1>9 DEF Writing

LEMMA KernelStep == Control /\ KernelInv /\ [Next]_vars => KernelInv'
<1> SUFFICES ASSUME Control, KernelInv, [Next]_vars PROVE KernelInv'
  OBVIOUS
<1> USE DEF ChangesJob
<1>1. ASSUME UNCHANGED <<host, job, limit>>, ~ChangesJob, ~ChangesJob' PROVE KernelInv'
  BY <1>1 DEF KernelInv, Held
<1>2. ASSUME NEW c \in Configs, StartMom(c) PROVE KernelInv'
  BY <1>1, <1>2 DEF StartMom
<1>3. CASE WriteHostLimit \/ EndRound
  BY <1>1, <1>3 DEF WriteHostLimit, EndRound
<1>4. ASSUME job' = NoJob, limit' = Fresh, ~ChangesJob' PROVE KernelInv'
  BY <1>4 DEF KernelInv, NoJob, Fresh
<1>5. ASSUME NEW r \in Requests, NEW e \in {"begin", "resize"}, ConfigureJob(e, r),
             Answer(cfg, host, r) = "none", UNCHANGED <<cfg, host>>, DOMAIN limit' = {"mem", "soft", "vmem"},
             cfg.memsw /\ job'.under = {cfg} => limit'.vmem \in Int /\ First(cfg, host, r) <= limit'.vmem,
             ~cfg.memsw /\ job'.under = {cfg} => limit'.vmem = Unlimited,
             job.under \subseteq Configs
      PROVE  KernelInv'
  <2>1. /\ event' = e /\ job' = [mem |-> r.mem, vmem |-> r.vmem, here |-> TRUE, under |-> job.under \cup {cfg}]
    BY <1>5 DEF ConfigureJob, Answer
  <2>2. job'.under = {cfg} => Writing'
    BY <1>5, WritingBegins
  <2> QED
    BY <1>5, <2>1, <2>2 DEF KernelInv, Control, Requests, IsRequest
<1>6. ASSUME NEW r \in Requests, Begin(r) PROVE KernelInv'
  <2>1. CASE Answer(cfg, host, r) # "none"
    <3>1. UNCHANGED job /\ ~job.here /\ ~ChangesJob' /\ DOMAIN limit' = {"mem", "soft", "vmem"}
      BY <1>6, <2>1 DEF Begin, ConfigureJob, Answer, Fresh
    <3> QED
      BY <3>1 DEF KernelInv
  <2>2. CASE Answer(cfg, host, r) = "none"
    <3>1. IsRequest(r)
      BY DEF Requests, IsRequest
    <3>2. First(cfg, host, r) <= Unlimited
      BY <3>1, BelowUnlimited DEF First, Control
    <3>3. limit'.vmem = Unlimited /\ DOMAIN limit' = {"mem", "soft", "vmem"}
      BY <1>6 DEF Begin, Fresh
    <3>4. job.under \subseteq Configs /\ Unlimited \in Int
      BY SizesOK DEF KernelInv
    <3> QED
      BY <1>5, <1>6, <2>2, <3>2, <3>3, <3>4 DEF Begin
  <2> QED
    BY <2>1, <2>2
<1>7. ASSUME NEW r \in Requests, Resize(r) PROVE KernelInv'
  <2>1. CASE Answer(cfg, host, r) # "none"
    <3>1. UNCHANGED <<host, job, limit>> /\ ~ChangesJob /\ ~ChangesJob'
      BY <1>7, <2>1 DEF Resize, ConfigureJob, Answer
    <3> QED
      BY <1>1, <3>1
  <2>2. CASE Answer(cfg, host, r) = "none"
    <3>1. IsRequest(r) /\ IsRequest(job) /\ NoMore(r, job) /\ ~ChangesJob /\ UNCHANGED <<cfg, host, limit>>
      BY <1>7 DEF Resize, Requests, IsRequest, KernelInv
    <3>2. job'.under = {cfg} => job.under = {cfg}
      BY <1>7, <2>2 DEF Resize, ConfigureJob, Answer, KernelInv
    <3>3. job.under = {cfg} => Held(cfg)
      BY <1>7, <3>1 DEF Resize, KernelInv, Control
    <3>4. cfg.memsw => First(cfg, host, r) <= JobVmem(cfg, host, r)
      BY <2>2, <3>1, MemBelowVmem DEF Control
    <3>5. JobVmem(cfg, host, r) <= JobVmem(cfg, host, job)
      BY <3>1, VmemFalls DEF Control
    <3>6. First(cfg, host, r) \in Int /\ JobVmem(cfg, host, r) \in Int /\ JobVmem(cfg, host, job) \in Int
      BY <3>1, LimitTypes DEF Control, First
    <3>7. cfg.memsw /\ job'.under = {cfg} => limit'.vmem \in Int /\ First(cfg, host, r) <= limit'.vmem
      BY <3>1, <3>2, <3>3, <3>4, <3>5, <3>6 DEF Held
    <3>8. ~cfg.memsw /\ job'.under = {cfg} => limit'.vmem = Unlimited
      BY <3>1, <3>2, <3>3 DEF Held
    <3> QED
      BY <1>5, <1>7, <2>2, <3>1, <3>7, <3>8 DEF Resize, KernelInv
  <2> QED
    BY <2>1, <2>2
<1>8. CASE WriteJobLimit
  <2>1. CASE job' = NoJob /\ limit' = Fresh /\ event' = "none"
    BY <1>4, <2>1
  <2>2. CASE /\ limit' = [limit EXCEPT ![Head(todo).file] = Head(todo).size]
             /\ todo' = Tail(todo) /\ UNCHANGED <<event, job>>
    <3>1. UNCHANGED <<cfg, host>> /\ todo # <<>> /\ ChangesJob
      BY <1>8 DEF WriteJobLimit
    <3>2. job.under = {cfg} => Writing'
      BY <2>2, <3>1, WritingGoesOn DEF KernelInv
    <3> QED
      BY <2>2, <3>1, <3>2 DEF KernelInv
  <2> QED
    BY <1>8, <2>1, <2>2 DEF WriteJobLimit
<1>9. CASE Configured
  <2>1. UNCHANGED <<cfg, host, job, limit>> /\ todo = <<>> /\ ChangesJob /\ ~ChangesJob'
    BY <1>9 DEF Configured
  <2>2. ASSUME NEW c \in Configs, job.under = {c} PROVE Held(c)'
    <3>1. c = cfg /\ Writing
      BY <2>1, <2>2 DEF KernelInv
    <3>2. Held(cfg)
      BY <2>1, <3>1 DEF Writing
    <3> QED
      BY <2>1, <3>1, <3>2 DEF Held
  <2> QED
    BY <2>1, <2>2 DEF KernelInv
<1>10. CASE End
  BY <1>4, <1>10 DEF End
<1>11. CASE UNCHANGED vars
  BY <1>11 DEF vars, KernelInv, Held, Writing, FirstWrite, SoftWrite, VmemWrite
<1> QED
  BY <1>2, <1>3, <1>6, <1>7, <1>8, <1>9, <1>10, <1>11 DEF Next

-----------------------------------------------------------------------------
(* The theorems.                                                           *)

MemoryInv ==
  Control /\ Switches /\ JobHere /\ SwaplessInv /\ OfferInv /\ StartupInv /\ KernelInv

\* The inductive invariant: the offer is that of the host, the startup handler's
\* loop gets on, the limits of a job are written in an order the kernel takes, and
\* those of a job without swap are equal, or about to be.
THEOREM MemoryInvariant == Spec => []MemoryInv
<1>1. Init => Control
  BY BoundsOK DEF Init, Control
<1>2. Init => Switches
  BY DEF Init, Switches
<1>3. ASSUME Init PROVE JobHere /\ SwaplessInv /\ KernelInv
  <2>1. job.here = FALSE /\ job.under = {} /\ event = "none" /\ DOMAIN limit = {"mem", "soft", "vmem"}
    BY <1>3 DEF Init, NoJob, Fresh
  <2> QED
    BY <2>1 DEF JobHere, SwaplessInv, KernelInv, ChangesJob
<1>4. ASSUME Init PROVE OfferInv /\ StartupInv
  <2>1. event = "none" /\ result = "none" /\ ready = FALSE
    BY <1>4 DEF Init
  <2>2. /\ DOMAIN parent = {"mem", "soft", "vmem"} /\ Unlimited \in Int
        /\ parent.mem = Unlimited /\ parent.vmem = Unlimited
    BY <1>4, SizesOK DEF Init, Fresh
  <2> QED
    BY <2>1, <2>2 DEF OfferInv, StartupInv, ParentInv, StartupSettles
<1>5. Init => MemoryInv
  BY <1>1, <1>2, <1>3, <1>4 DEF MemoryInv
<1>6. MemoryInv /\ [Next]_vars => MemoryInv'
  BY ControlStep, SwitchesStep, JobHereStep, SwaplessStep, OfferStep, StartupStep, KernelStep DEF MemoryInv
<1> QED
  BY <1>5, <1>6, PTL DEF Spec

\* Every variable of the memory controllers keeps its type.
THEOREM TypeCorrect == Spec => []TypeOK
<1>1. MemoryInv => TypeOK
  BY DEF MemoryInv, Control, Switches, JobHere, TypeOK
<1> QED
  BY <1>1, MemoryInvariant, PTL

\* Where there is no swap, and hard limits only, no job is granted any.
THEOREM NoSwapEver == Spec => []NoSwapGranted
<1>1. MemoryInv => NoSwapGranted
  BY DEF MemoryInv, SwaplessInv, ChangesJob, Both, WithoutSwap, NoSwapGranted
<1> QED
  BY <1>1, MemoryInvariant, PTL

\* Three rounds are enough for the startup handler, but for the cases named.
THEOREM StartupAlwaysSettles == Spec => []StartupSettles
<1>1. MemoryInv => StartupSettles
  BY DEF MemoryInv, StartupInv
<1> QED
  BY <1>1, MemoryInvariant, PTL

\* No job that fits the offer is deleted for asking for too much, but for vmem
\* that the server was given twice.
THEOREM OfferAlwaysHolds == Spec => []OfferHolds
<1>1. MemoryInv => OfferHolds
  BY OfferKept DEF MemoryInv
<1> QED
  BY <1>1, MemoryInvariant, PTL

\* The kernel takes every limit of a job, in the order they are written.
THEOREM KernelAlwaysAgrees == Spec => []KernelAgrees
<1>1. MemoryInv => KernelAgrees
  BY WritingValid DEF MemoryInv, KernelInv, ChangesJob, KernelAgrees
<1> QED
  BY <1>1, MemoryInvariant, PTL
=============================================================================
