----------------------------- MODULE AssignCpus -----------------------------
(***************************************************************************)
(* Which CPUs and memory nodes the cgroups hook gives a job                *)
(* (playbooks/roles/pbsserver/files/pbs_cgroups.PY: _discover_cpuinfo,     *)
(* available_node_resources, assign_job and _assign_resources), on a host  *)
(* without vnodes per NUMA node and without device controllers, as the     *)
(* shipped pbs_cgroups.CF has it.                                          *)
(*                                                                         *)
(* The events of the hook are atomic here: CgroupsHook has their steps and *)
(* leaves the choice of the CPUs open.                                     *)
(***************************************************************************)
EXTENDS Integers, FiniteSets, FiniteSetsExt

CONSTANTS
  Jobs,
  Nodes,            \* the NUMA nodes, by number
  CpusOf,           \* the CPUs of each node, without those of exclude_cpus
  CoreOf,           \* the core of each CPU, the excluded ones too; one of its own
                    \* where the hook sees no hyperthreads (not an Intel)
  MemOf,            \* the memory of each node
  Requests,         \* what a job may ask of the host: [ncpus, mem]
  UseHyperthreads,  \* use_hyperthreads
  NcpusAreCores     \* ncpus_are_cores

ASSUME JobsOK == IsFiniteSet(Jobs)
ASSUME TopologyOK ==
  /\ IsFiniteSet(Nodes) /\ Nodes \subseteq Nat /\ Nodes # {}
  /\ IsFiniteSet(DOMAIN CoreOf) /\ DOMAIN CoreOf \subseteq Nat
  /\ \A n \in Nodes: CpusOf[n] \subseteq DOMAIN CoreOf
  /\ \A m, n \in Nodes: m # n => CpusOf[m] \cap CpusOf[n] = {}
  /\ MemOf \in [Nodes -> Nat]
ASSUME RequestsOK == Requests \subseteq [ncpus: Nat \ {0}, mem: Nat]
ASSUME ConfigOK == {UseHyperthreads, NcpusAreCores} \subseteq BOOLEAN

Cpus == UNION {CpusOf[n]: n \in Nodes}
MemoryOnly == {n \in Nodes: CpusOf[n] = {}}

VARIABLES
  cpus,       \* cpuset.cpus of each job, empty for a job that is not here
  mems,       \* cpuset.mems of each job
  suspended,  \* the jobs that are suspended
  preempted   \* history: the jobs that were suspended since configured

vars == <<cpus, mems, suspended, preempted>>

TypeOK ==
  /\ cpus \in [Jobs -> SUBSET Cpus]
  /\ mems \in [Jobs -> SUBSET Nodes]
  /\ suspended \subseteq preempted /\ preempted \subseteq Jobs

Init ==
  /\ cpus = [j \in Jobs |-> {}]
  /\ mems = [j \in Jobs |-> {}]
  /\ suspended = {} /\ preempted = {}

-----------------------------------------------------------------------------
AllCpus == DOMAIN CoreOf
Siblings(c) == {d \in AllCpus: CoreOf[d] = CoreOf[c]}

\* cpuinfo['cpu'][c]['threads']: the siblings with higher numbers, c excluded
Threads(c) == {d \in Siblings(c): d > c}

Hyperthreads == UNION {Threads(c): c \in AllCpus}
ThreadsPerCore == IF AllCpus = {} THEN 1 ELSE Cardinality(Siblings(Min(AllCpus)))

Needed(r) == r.ncpus * (IF UseHyperthreads /\ NcpusAreCores THEN ThreadsPerCore ELSE 1)

\* create_vnodes: the ncpus the server may hand out, the sum of what each NUMA
\* node adds, in integer division
Offered ==
  LET threads == IF UseHyperthreads /\ ~NcpusAreCores THEN 1 ELSE ThreadsPerCore
  IN SumFunction([n \in Nodes |-> Cardinality(CpusOf[n]) \div threads])

Usable(avail) == IF UseHyperthreads THEN avail ELSE avail \ Hyperthreads

EmptyCores(avail) ==
  IF UseHyperthreads THEN {c \in avail \ Hyperthreads: Threads(c) \subseteq avail} ELSE {}

FirstThread(c) == Min(Siblings(c))

\* The orders of the two passes: core by core, and by number.
CoreByCore(S) ==
  {p \in S \X S: \/ FirstThread(p[1]) < FirstThread(p[2])
                 \/ FirstThread(p[1]) = FirstThread(p[2]) /\ p[1] < p[2]}
ByNumber(S) == {p \in S \X S: p[1] < p[2]}

\* The CPUs of S that a loop reaches before it has n; all, if there are fewer.
Foremost(S, n, order) == {c \in S: Cardinality({d \in S: <<d, c>> \in order}) < n}

\* Mutant: the second pass gives all that is asked for once more.
PickedTwice(avail, k) ==
  LET threads == UNION {Threads(e): e \in EmptyCores(avail)}
      given == Foremost(threads, k, CoreByCore(threads))
      rest == Usable(avail) \ given
  IN given \cup Foremost(rest, k, ByNumber(rest))

\* The threads of the empty cores are given first, then what else there is; none
\* at all, if in the final pass more are needed than are left.
Picked(avail, k) ==
  LET threads == UNION {Threads(e): e \in EmptyCores(avail)}
      given == Foremost(threads, k, CoreByCore(threads))
      rest == Usable(avail) \ given
      left == k - Cardinality(given)
  IN IF left > Cardinality(rest) THEN {} ELSE given \cup Foremost(rest, left, ByNumber(rest))

NoResources == [cpus |-> {}, mems |-> {}]

\* _assign_resources, nothing when the request does not fit
AssignResources(r, avail, mem, nodes) ==
  LET picked == Picked(avail, Needed(r))
  IN IF Needed(r) > Cardinality(Usable(avail)) \/ picked = {} \/ r.mem > mem
     THEN NoResources
     ELSE [cpus |-> picked, mems |-> nodes]

-----------------------------------------------------------------------------
\* Mutant: a suspended job keeps its CPUs.
AvailableToNone(n, except) ==
  CpusOf[n] \ UNION {cpus[k]: k \in {i \in Jobs \ except: n \in mems[i]}}

\* Mutant: the CPUs of the job that is resized are struck off as well.
AvailableToOthers(n, except) ==
  CpusOf[n] \ UNION {cpus[k]: k \in {i \in Jobs \ suspended: n \in mems[i]}}

\* available_node_resources: a cgroup's CPUs are struck off the nodes of its
\* cpuset.mems.  The memory controller is off, so no memory is.
AvailableOn(n, except) ==
  CpusOf[n] \ UNION {cpus[k]: k \in {i \in Jobs \ (suspended \cup except): n \in mems[i]}}

\* The count looks for 'cpuset.mems' in a record that has ['cpuset']['mems'].
JobCount(n) == 0

Before(m, n) == JobCount(m) < JobCount(n) \/ (JobCount(m) = JobCount(n) /\ m < n)

OnNode(r, n, except) ==
  AssignResources(r, AvailableOn(n, except), MemOf[n], {n} \cup MemoryOnly)

Spanning(r, except) ==
  AssignResources(r, UNION {AvailableOn(n, except): n \in Nodes},
                  SumFunctionOnSet(MemOf, Nodes), Nodes)

\* Mutants: the CPUs of several nodes are given with the memory of one, or every
\* job spans the nodes.
AssignFirstMems(r, except) ==
  LET new == Spanning(r, except)
  IN IF new = NoResources THEN new ELSE [new EXCEPT !.mems = {Min(Nodes)}]
AssignSpanning(r, except) == Spanning(r, except)

\* assign_job
AssignJob(r, except) ==
  LET fitting == {n \in Nodes: OnNode(r, n, except) # NoResources}
  IN IF fitting # {}
     THEN OnNode(r, CHOOSE n \in fitting: \A m \in fitting \ {n}: Before(n, m), except)
     ELSE Spanning(r, except)

Configure(j, r, except) ==
  LET new == AssignJob(r, except)
  IN /\ new # NoResources
     /\ cpus' = [cpus EXCEPT ![j] = new.cpus]
     /\ mems' = [mems EXCEPT ![j] = new.mems]
     /\ preempted' = preempted \ {j}
     /\ UNCHANGED suspended

\* Mutant: a suspended job is resized as well.
ResizeAny(j, r) == cpus[j] # {} /\ Configure(j, r, {j})

\* The begin event of a job that the host can take (one that it cannot take
\* goes back to the server), and the resize event, which may take CPUs of its own.
Begin(j, r)  == cpus[j] = {} /\ Configure(j, r, {})
Resize(j, r) == cpus[j] # {} /\ j \notin suspended /\ Configure(j, r, {j})

End(j) ==
  /\ cpus[j] # {}
  /\ cpus' = [cpus EXCEPT ![j] = {}]
  /\ mems' = [mems EXCEPT ![j] = {}]
  /\ suspended' = suspended \ {j} /\ preempted' = preempted \ {j}

Suspend(j) ==
  /\ cpus[j] # {} /\ j \notin suspended
  /\ suspended' = suspended \cup {j} /\ preempted' = preempted \cup {j}
  /\ UNCHANGED <<cpus, mems>>

Resume(j) ==
  /\ suspended' = suspended \ {j} /\ j \in suspended
  /\ UNCHANGED <<cpus, mems, preempted>>

Next ==
  \E j \in Jobs:
    \/ \E r \in Requests: Begin(j, r) \/ Resize(j, r)
    \/ End(j) \/ Suspend(j) \/ Resume(j)

Spec == Init /\ [][Next]_vars

-----------------------------------------------------------------------------
\* The CPUs are struck off node by node, as cpuset.mems lists them; so that no
\* CPU is lent twice every job must have the memory of all nodes its CPUs are
\* on, whatever jobs were placed, spread, resized, suspended before.
Lease == INSTANCE CpuLease WITH lease <- cpus, parked <- preempted
ImplementsLease == Lease!Spec

\* The CPUs of the host that the hook may give to a job.
Free(except) == UNION {AvailableOn(n, except): n \in Nodes}

\* A job that asks for no more than is free on the host as a whole gets it, and
\* gets exactly that many CPUs, all of them free: no distribution of the free
\* CPUs over nodes and cores makes the hook give up.
PlacementComplete ==
  \A r \in Requests: \A except \in {{}} \cup {{j}: j \in Jobs}:
    LET new == AssignJob(r, except)
    IN IF /\ Needed(r) <= Cardinality(Usable(Free(except)))
          /\ r.mem <= SumFunctionOnSet(MemOf, Nodes)
       THEN new.cpus \subseteq Free(except) /\ Cardinality(new.cpus) = Needed(r)
       ELSE new = NoResources

\* "Requested resources fit on this socket": a job has CPUs of two nodes only
\* if no node had what it asked for.
StaysOnNode ==
  [][\A j \in Jobs, r \in Requests:
       Begin(j, r) /\ (\E n \in Nodes: /\ Needed(r) <= Cardinality(Usable(AvailableOn(n, {})))
                                      /\ r.mem <= MemOf[n])
         => \E n \in Nodes: cpus'[j] \subseteq CpusOf[n]]_vars

\* What the server counts for a job
Ncpus(j) == Cardinality(cpus[j]) \div (IF UseHyperthreads /\ NcpusAreCores THEN ThreadsPerCore ELSE 1)

\* The ncpus create_vnodes offers are there: a job that the server sends because
\* the jobs of the host that are not suspended leave it enough is given CPUs,
\* whatever sequence of resizes, suspensions and ends went before.
OfferKept ==
  \A r \in Requests: \A j \in Jobs:
    LET running == {k \in Jobs \ suspended: cpus[k] # {}}
    IN /\ cpus[j] = {} /\ r.mem <= SumFunctionOnSet(MemOf, Nodes)
       /\ r.ncpus + SumFunctionOnSet([k \in Jobs |-> Ncpus(k)], running) <= Offered
       => AssignJob(r, {}) # NoResources

\* The resize event of a job that gives CPUs back, or keeps as many, is never
\* refused, however the other jobs have been placed: what it has, it may have
\* again.  Once a suspended job is resumed this may fail, since it runs on CPUs
\* that were given to others meanwhile.
ShrinkFits ==
  preempted \subseteq suspended =>
    \A j \in Jobs \ suspended, r \in Requests:
      /\ cpus[j] # {} /\ Needed(r) <= Cardinality(cpus[j])
      /\ r.mem <= SumFunctionOnSet(MemOf, Nodes)
      => AssignJob(r, {j}) # NoResources
=============================================================================
