------------------------------ MODULE CpuLease ------------------------------
(***************************************************************************)
(* What the cgroups hook promises the jobs of a host: a lease on CPUs that *)
(* is granted when the job begins, changes only when the job is resized,   *)
(* ends with the job, and is shared with another job only if one of the    *)
(* two was suspended after its lease was granted.                          *)
(***************************************************************************)
EXTENDS FiniteSets

CONSTANTS Jobs, Cpus

VARIABLES
  lease,    \* the CPUs each job holds
  parked    \* the jobs whose CPUs may be lent to others: they were suspended

TypeOK == lease \in [Jobs -> SUBSET Cpus] /\ parked \subseteq Jobs

Init == lease = [j \in Jobs |-> {}] /\ parked = {}

Free(j) == Cpus \ UNION {lease[k]: k \in Jobs \ (parked \cup {j})}

\* A job begins, or is resized.
Grant(j) ==
  /\ \E S \in SUBSET Free(j): S # {} /\ lease' = [lease EXCEPT ![j] = S]
  /\ parked' = parked \ {j}

Return(j) ==
  /\ lease' = [lease EXCEPT ![j] = {}]
  /\ parked' = parked \ {j}

Park(j) ==
  /\ lease[j] # {}
  /\ parked' = parked \cup {j}
  /\ UNCHANGED lease

Next == \E j \in Jobs: Grant(j) \/ Return(j) \/ Park(j)

Spec == Init /\ [][Next]_<<lease, parked>>

\* Jobs that were not suspended since they got their CPUs share none.
Exclusive ==
  \A j, k \in Jobs \ parked: j # k => lease[j] \cap lease[k] = {}
=============================================================================
