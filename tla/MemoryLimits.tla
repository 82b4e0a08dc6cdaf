---------------------------- MODULE MemoryLimits ----------------------------
(***************************************************************************)
(* The memory controllers of the cgroups hook                              *)
(* (playbooks/roles/pbsserver/files/pbs_cgroups.PY): what a host offers to *)
(* the server when mom starts (get_memory_on_node, get_vmem_on_node,       *)
(* create_vnodes, the startup handler), and the limits a job gets          *)
(* (configure_job, set_limit).  pbs_cgroups.CF switches these controllers  *)
(* off; here the configuration is a parameter.                             *)
(*                                                                         *)
(* One host, its cgroup and the cgroup of one job.  The kernel's rules for *)
(* memory.limit_in_bytes and memory.memsw.limit_in_bytes are external: the *)
(* second may never be below the first, and a limit cannot always be       *)
(* lowered while processes use what it limits.  Sizes are in kilobytes.    *)
(***************************************************************************)
EXTENDS Integers, FiniteSets, Sequences, Functions

CONSTANTS
  Nodes,      \* the host's NUMA nodes
  Hosts,      \* the hosts: [total: memory of each node, swap]
  Configs,    \* the configurations of the hook, see ConfigType
  Sizes,      \* the sizes a job may ask for
  Absent,     \* no size: not requested, no default
  Unlimited,  \* the limit of a new cgroup, above every size
  MB,         \* the kilobytes memory is rounded to
  MaxStarts   \* bound on the starts of mom

ConfigType ==
  [memory: BOOLEAN, memsw: BOOLEAN, soft: BOOLEAN, vnodes: BOOLEAN,
   percent: 0..100, amount: Nat, vpercent: 0..100, vamount: Nat,
   default: Nat \cup {Absent}, vdefault: Nat \cup {Absent}]

ASSUME NodesOK == IsFiniteSet(Nodes) /\ Nodes # {}
ASSUME MBPositive == MB \in Nat \ {0}
ASSUME HostsOK == Hosts \subseteq [total: [Nodes -> Nat], swap: Nat]
ASSUME ConfigsOK == Configs \subseteq ConfigType
ASSUME SizesOK == Sizes \subseteq Nat /\ Unlimited \in Nat
ASSUME BoundsOK == MaxStarts \in Nat
ASSUME AbsentOK == Absent \notin Nat

Requests == [mem: Sizes \cup {Absent}, vmem: Sizes \cup {Absent}]

Larger(x, y)  == IF x < y THEN y ELSE x
Smaller(x, y) == IF x < y THEN x ELSE y
Down(x)       == x - (x % MB)
Sum(f)        == SumFunction(f)

-----------------------------------------------------------------------------
(* What a host has to give.                                                *)

\* int(reserve_percent) / 100 divides integers: the hook runs under Python 2.
Reserved(total, percent, amount) == total * (percent \div 100) + amount

MemoryOf(c, total) == Down(total - Reserved(total, c.percent, c.amount))

\* _discover_numa_nodes spreads what the host reserves over its NUMA nodes.
Share(whole, rest) == Down(Larger(whole - rest, 0) \div Cardinality(Nodes))

HostMemory(c, h) == MemoryOf(c, Sum(h.total))
NodeMemory(c, h) ==
  [n \in Nodes |-> Down(h.total[n]) - Share(Down(Sum(h.total)), HostMemory(c, h))]

HostSwapAndMemory(c, h) == HostMemory(c, h) + h.swap
HostVmem(c, h) ==
  LET total == HostSwapAndMemory(c, h) IN Down(total - Reserved(total, c.vpercent, c.vamount))
NodeVmem(c, h) ==
  LET whole == Down(HostSwapAndMemory(c, h))
  IN [n \in Nodes |-> Down(whole \div Cardinality(Nodes)) - Share(whole, HostVmem(c, h))]

\* The sum of the NUMA nodes, rounded, unless there is nothing in it.
OfNodes(f, else) == IF Down(Sum(f)) > 0 THEN Down(Sum(f)) ELSE else

\* get_memory_on_node and get_vmem_on_node, with use_numa as configured
MemoryOnNode(c, h) == IF c.vnodes THEN OfNodes(NodeMemory(c, h), HostMemory(c, h)) ELSE HostMemory(c, h)
VmemOnNode(c, h)   == IF c.vnodes THEN OfNodes(NodeVmem(c, h), HostVmem(c, h)) ELSE HostVmem(c, h)

\* "Too much reserved memory", for the host or a NUMA node alone; with vnodes,
\* "Too much reserved vmem" comes up as early.
NoMemoryLeft(c, h) ==
  \/ HostMemory(c, h) <= 0
  \/ c.vnodes /\ HostVmem(c, h) <= 0
  \/ \E n \in Nodes: MemoryOf(c, h.total[n]) <= 0

NothingLeft(c, h) == NoMemoryLeft(c, h) \/ (c.memsw /\ HostVmem(c, h) <= 0)

\* Mutant: the vnodes are created with what is reserved.
CreateVnodesUnreserved(c, h) ==
  LET each == [n \in Nodes |-> Down(h.total[n])]
  IN [natural |-> [mem |-> Sum(each), vmem |-> Sum(each)],
      nodes   |-> [n \in Nodes |-> [mem |-> 0, vmem |-> 0]]]

\* What the server learns: the natural vnode of the host, and one for each
\* NUMA node if so configured.
CreateVnodes(c, h) ==
  LET each == [n \in Nodes |-> MemoryOf(c, h.total[n])]
  IN IF c.vnodes
     THEN [natural |-> [mem |-> 0, vmem |-> 0],
           nodes   |-> [n \in Nodes |-> [mem |-> NodeMemory(c, h)[n], vmem |-> NodeVmem(c, h)[n]]]]
     ELSE [natural |-> [mem |-> Sum(each), vmem |-> Sum(each)],
           nodes   |-> [n \in Nodes |-> [mem |-> 0, vmem |-> 0]]]

\* The startup handler puts the host's own figures in their place.
Advertise(c, h) ==
  LET v == CreateVnodes(c, h)
      mem  == IF c.memory /\ ~c.vnodes THEN HostMemory(c, h) ELSE v.natural.mem
      vmem == IF c.memsw THEN HostVmem(c, h) ELSE v.natural.vmem
  IN [v EXCEPT !.natural = [mem |-> mem, vmem |-> vmem]]

-----------------------------------------------------------------------------
(* The limits of a job (configure_job).                                    *)

Given(size, default) == IF size # Absent THEN size ELSE default

MemAvail(c, h)  == MemoryOnNode(c, h)
VmemAvail(c, h) == Larger(VmemOnNode(c, h), MemAvail(c, h))

\* What the job asked for, or else the default of the controller, or all.
MemLimit(c, h, r) ==
  Given(r.mem, IF c.memory THEN Given(c.default, MemAvail(c, h)) ELSE MemAvail(c, h))

\* Never below the memory limit
VmemLimit(c, h, r) ==
  Larger(Given(r.vmem, IF c.memsw THEN Given(c.vdefault, VmemAvail(c, h)) ELSE VmemAvail(c, h)),
         MemLimit(c, h, r))

\* With soft limits: the lesser of the vmem limit and available memory
HardLimit(c, h, r) ==
  IF c.memory /\ c.soft THEN Smaller(VmemLimit(c, h, r), MemAvail(c, h)) ELSE MemLimit(c, h, r)

FinalVmem(c, h, r) == Larger(VmemLimit(c, h, r), HardLimit(c, h, r))

\* The limit of a new cgroup is above all there is and all that is asked for.
ASSUME UnlimitedOK ==
  /\ \A s \in Sizes: s <= Unlimited
  /\ \A c \in Configs: \A d \in {c.default, c.vdefault} \ {Absent}: d <= Unlimited
  /\ \A c \in Configs, h \in Hosts:
       MemoryOnNode(c, h) <= Unlimited /\ HostVmem(c, h) <= Unlimited /\ VmemAvail(c, h) <= Unlimited

Exceeds(c, h, r) ==
  \/ r.mem # Absent /\ r.mem > MemAvail(c, h)
  \/ r.vmem # Absent /\ r.vmem > VmemAvail(c, h)

\* Mutant: no look at the swap there is.
NeverSwapless(c, h, r) == FALSE

Swapless(c, h, r) ==
  /\ c.memory /\ c.memsw
  /\ FinalVmem(c, h, r) > HardLimit(c, h, r)
  /\ VmemAvail(c, h) <= MemAvail(c, h)

\* "delete": the user must correct the request; "hold": any other exception
Verdict(c, h, r) ==
  CASE VmemOnNode(c, h) <= 0 -> "hold"
    [] Exceeds(c, h, r) -> "delete"
    [] c.memory /\ c.memsw /\ r.vmem # Absent /\ FinalVmem(c, h, r) > r.vmem -> "delete"
    [] Swapless(c, h, r) -> "hold"
    [] OTHER -> "none"

\* What is written for the job.  A request stands as it is.
JobMem(c, h, r)  == Given(r.mem, HardLimit(c, h, r))
JobVmem(c, h, r) == Given(r.vmem, FinalVmem(c, h, r))

Write(file, size, call) == [file |-> file, size |-> size, call |-> call]
When(b, w) == IF b THEN <<w>> ELSE <<>>

\* set_limit for mem, softmem and vmem, in this order; without the memory
\* controller the one for vmem sets the memory limit as well.
Writes(c, mem, soft, vmem) ==
  When(c.memory, Write("mem", mem, "mem")) \o
  When(c.memory /\ c.soft, Write("soft", soft, "softmem")) \o
  When(c.memsw /\ ~c.memory, Write("mem", vmem, "vmem")) \o
  When(c.memsw, Write("vmem", vmem, "vmem"))

\* Mutant: the keys are not sorted.
UnsortedWrites(c, h, r) ==
  When(c.memsw, Write("vmem", JobVmem(c, h, r), "vmem")) \o
  When(c.memory, Write("mem", JobMem(c, h, r), "mem"))

\* "The vmem limit must be set after the mem limit, so sort the keys"
JobWrites(c, h, r) == Writes(c, JobMem(c, h, r), MemLimit(c, h, r), JobVmem(c, h, r))

HostWrites(c, h) ==
  LET hard == [c EXCEPT !.soft = FALSE]
  IN Writes(hard, MemoryOnNode(c, h), Unlimited, HostVmem(c, h))

-----------------------------------------------------------------------------
\* "under" (history) are the configurations the job was configured with.
NoJob == [mem |-> Absent, vmem |-> Absent, here |-> FALSE, under |-> {}]
Fresh == [mem |-> Unlimited, soft |-> Unlimited, vmem |-> Unlimited]
Nothing == [natural |-> [mem |-> 0, vmem |-> 0],
            nodes   |-> [n \in Nodes |-> [mem |-> 0, vmem |-> 0]]]

VARIABLES
  cfg, host,   \* the configuration in force, and the host
  event,       \* the event the hook is handling
  round, fine, \* the startup handler's loop: its round, and no limit failed in it
  todo,        \* the limits still to be written
  result,      \* the last answer; "invalid" and "busy" for a limit refused
  ready,       \* the startup event was accepted since mom started
  advertised,  \* the resources the server was given
  parent,      \* the limits of the host's cgroup
  job,         \* the job's request, and whether it is on the host
  limit,       \* the limits of the job's cgroup
  starts       \* how often mom was started

vars == <<cfg, host, event, round, fine, todo, result, ready, advertised,
          parent, job, limit, starts>>

TypeOK ==
  /\ cfg \in Configs /\ host \in Hosts
  /\ event \in {"none", "startup", "begin", "resize"}
  /\ round \in 0..3 /\ fine \in BOOLEAN /\ ready \in BOOLEAN
  /\ result \in {"none", "accept", "reject", "delete", "hold", "invalid", "busy"}
  /\ job.here \in BOOLEAN /\ starts \in 0..MaxStarts

Init ==
  /\ cfg \in Configs /\ host \in Hosts
  /\ event = "none" /\ round = 0 /\ fine = TRUE /\ todo = <<>>
  /\ result = "none" /\ ready = FALSE /\ advertised = Nothing
  /\ parent = Fresh /\ job = NoJob /\ limit = Fresh /\ starts = 0

-----------------------------------------------------------------------------
(* The kernel (external).                                                  *)

Invalid(l, w) ==
  \/ w.file = "mem" /\ w.size > l.vmem
  \/ w.file = "vmem" /\ w.size < l.mem

\* The job's processes may keep a limit from being lowered.
MayBeBusy(l, w) == event # "begin" /\ job.here /\ w.file # "soft" /\ w.size < l[w.file]

-----------------------------------------------------------------------------
(* The startup event.                                                      *)

\* The administrator may have changed how much is reserved; that takes effect
\* with the next start of mom, and finds the cgroups as they were (external).
SameControllers(c, d) ==
  c.memory = d.memory /\ c.memsw = d.memsw /\ c.vnodes = d.vnodes

\* The first call of set_limit, whose exception is caught
TryMemoryLimit(c) ==
  LET w == Write("mem", MemoryOnNode(c, host), "mem")
  IN \/ ~Invalid(parent, w) /\ parent' = [parent EXCEPT !.mem = w.size]
     \/ (Invalid(parent, w) \/ MayBeBusy(parent, w)) /\ UNCHANGED parent

\* That no virtual memory is left is found after the first limit is written.
StartMom(c) ==
  /\ event = "none" /\ starts < MaxStarts
  /\ SameControllers(c, cfg)
  /\ starts' = starts + 1 /\ cfg' = c /\ ready' = FALSE
  /\ IF NothingLeft(c, host)
     THEN /\ result' = "reject" /\ UNCHANGED <<event, round, fine, todo>>
          /\ IF c.memory /\ ~NoMemoryLeft(c, host) THEN TryMemoryLimit(c) ELSE UNCHANGED parent
     ELSE /\ event' = "startup" /\ round' = 1 /\ fine' = TRUE
          /\ todo' = HostWrites(c, host) /\ result' = "none" /\ UNCHANGED parent
  /\ UNCHANGED <<host, advertised, job, limit>>

\* The writes of the next call of set_limit, which writes two files at most
NextCall(s) ==
  IF Tail(s) # <<>> /\ Head(Tail(s)).call = Head(s).call THEN Tail(Tail(s)) ELSE Tail(s)

\* An exception of set_limit is caught, and the next limit is tried.
WriteHostLimit ==
  /\ event = "startup" /\ todo # <<>>
  /\ LET w == Head(todo)
         GiveUp == fine' = FALSE /\ todo' = NextCall(todo) /\ UNCHANGED parent
     IN \/ /\ ~Invalid(parent, w)
           /\ parent' = [parent EXCEPT ![w.file] = w.size]
           /\ todo' = Tail(todo) /\ UNCHANGED <<fine, result>>
        \/ Invalid(parent, w) /\ GiveUp /\ UNCHANGED result
        \/ MayBeBusy(parent, w) /\ GiveUp /\ result' = "busy"
  /\ UNCHANGED <<cfg, host, event, round, ready, advertised, job, limit, starts>>

\* Mutants: one round is all there is; a round too many.
OneRound == 1
FourRounds == 4

\* "Worst case scenario is to loop three times in order to set them all."
Rounds == 3

EndRound ==
  /\ event = "startup" /\ todo = <<>>
  /\ IF ~fine /\ round < Rounds
     THEN /\ round' = round + 1 /\ fine' = TRUE /\ todo' = HostWrites(cfg, host)
          /\ UNCHANGED <<event, result, ready, advertised>>
     ELSE /\ event' = "none" /\ round' = 0 /\ fine' = TRUE /\ UNCHANGED todo
          /\ ready' = fine
          /\ result' = IF fine THEN "accept" ELSE IF result = "busy" THEN "busy" ELSE "reject"
          /\ advertised' = IF fine THEN Advertise(cfg, host) ELSE advertised
  /\ UNCHANGED <<cfg, host, parent, job, limit, starts>>

-----------------------------------------------------------------------------
(* The events of the job.                                                  *)

\* The server sends what fits on the vnodes of the host (external).
Offered(x) == advertised.natural[x] + Sum([n \in Nodes |-> advertised.nodes[n][x]])
FitsOffer(r) ==
  /\ r.mem # Absent => r.mem <= Offered("mem")
  /\ r.vmem # Absent => r.vmem <= Offered("vmem")

ConfigureJob(e, r) ==
  LET v == IF cfg.memory \/ cfg.memsw THEN Verdict(cfg, host, r) ELSE "none"
  IN IF v # "none"
     THEN result' = v /\ UNCHANGED <<event, todo, job>>
     ELSE /\ event' = e /\ result' = "none"
          /\ todo' = JobWrites(cfg, host, r)
          /\ job' = [mem |-> r.mem, vmem |-> r.vmem, here |-> TRUE, under |-> job.under \cup {cfg}]

\* The job's cgroup is a new one.
Begin(r) ==
  /\ event = "none" /\ ready /\ ~job.here
  /\ FitsOffer(r)
  /\ ConfigureJob("begin", r)
  /\ limit' = Fresh
  /\ UNCHANGED <<cfg, host, round, fine, ready, advertised, parent, starts>>

\* A job that gives resources back.
NoMore(r, s) == \A x \in {"mem", "vmem"}: (r[x] = Absent <=> s[x] = Absent) /\ (r[x] # Absent => r[x] <= s[x])

Resize(r) ==
  /\ event = "none" /\ ready /\ job.here
  /\ NoMore(r, job)
  /\ ConfigureJob("resize", r)
  /\ UNCHANGED <<cfg, host, round, fine, ready, advertised, parent, limit, starts>>

\* An exception of set_limit ends the event; mom holds the job and reruns it.
WriteJobLimit ==
  /\ event \in {"begin", "resize"} /\ todo # <<>>
  /\ LET w == Head(todo)
         Fail(r) == /\ event' = "none" /\ todo' = <<>> /\ result' = r
                    /\ job' = NoJob /\ limit' = Fresh
     IN \/ /\ ~Invalid(limit, w)
           /\ limit' = [limit EXCEPT ![w.file] = w.size]
           /\ todo' = Tail(todo) /\ UNCHANGED <<event, result, job>>
        \/ Invalid(limit, w) /\ Fail("invalid")
        \/ MayBeBusy(limit, w) /\ Fail("busy")
  /\ UNCHANGED <<cfg, host, round, fine, ready, advertised, parent, starts>>

Configured ==
  /\ event \in {"begin", "resize"} /\ todo = <<>>
  /\ event' = "none" /\ result' = "accept"
  /\ UNCHANGED <<cfg, host, round, fine, todo, ready, advertised, parent, job, limit, starts>>

End ==
  /\ event = "none" /\ job.here
  /\ job' = NoJob /\ limit' = Fresh
  /\ UNCHANGED <<cfg, host, event, round, fine, todo, result, ready, advertised, parent, starts>>

Next ==
  \/ \E c \in Configs: StartMom(c)
  \/ WriteHostLimit \/ EndRound
  \/ \E r \in Requests: Begin(r) \/ Resize(r)
  \/ WriteJobLimit \/ Configured \/ End

Spec == Init /\ [][Next]_vars

-----------------------------------------------------------------------------
\* The startup handler sets all limits within its rounds, whatever limits the
\* configuration before has left, unless running processes are in the way, all
\* is reserved, or the two limits it has worked out contradict each other; or
\* unless the memory controller is off and the limit is to be raised: then every
\* round begins with the memory limit and stops there.
StartupSettles ==
  result = "reject" =>
    \/ NothingLeft(cfg, host)
    \/ cfg.memory /\ cfg.memsw /\ HostVmem(cfg, host) < MemoryOnNode(cfg, host)
    \/ cfg.memsw /\ ~cfg.memory /\ parent.vmem < HostVmem(cfg, host)

\* A job that fits what the server was told of the host is never deleted for
\* asking for more than is available: create_vnodes, the startup handler and
\* configure_job work out the same memory in three places.  Only with a vnode for
\* each NUMA node is the vmem of the host given to the server twice.
OfferHolds ==
  ready => \A r \in Requests: FitsOffer(r) /\ Exceeds(cfg, host, r) =>
    cfg.memsw /\ cfg.vnodes /\ r.vmem # Absent /\ r.vmem > VmemAvail(cfg, host)

\* "The vmem limit must be set after the mem limit": in the order they are
\* written the kernel takes all limits of a job that begins or gives resources
\* back, whatever it has asked for and whatever is the default, as long as the
\* configuration stays the same.
KernelAgrees ==
  event \in {"begin", "resize"} /\ todo # <<>> /\ job.under = {cfg} => ~Invalid(limit, Head(todo))

\* "Job might utilize swap and no swap space available": a job that
\* was configured where there is no swap has hard limits that leave it none,
\* whatever was asked for or is the default.  With soft limits the hard limits
\* are no longer those the code has compared, and it may be left some.
NoSwapGranted ==
  /\ job.here /\ event = "none" /\ cfg.memory /\ cfg.memsw
  /\ \A c \in job.under: ~c.soft /\ VmemAvail(c, host) <= MemAvail(c, host)
  => limit.vmem = limit.mem
=============================================================================
