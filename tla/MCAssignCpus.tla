---------------------------- MODULE MCAssignCpus ----------------------------
(* An instance of AssignCpus for TLC. *)
EXTENDS AssignCpus, TLC

\* Two NUMA nodes, one with a core whose second thread is excluded and one with
\* two hyperthreaded cores, and a third node that has memory only.
SmallHost == 0..2
SmallHostCpus == [n \in SmallHost |-> CASE n = 0 -> {0} [] n = 1 -> 2..5 [] OTHER -> {}]
SmallHostCores == [c \in 0..5 |-> c \div 2]
SmallHostMem == [n \in SmallHost |-> 2]

Ask(ncpus, mem) == [ncpus |-> ncpus, mem |-> mem]
SmallRequests == {Ask(1, 3), Ask(2, 1), Ask(3, 0)}

Symm == Permutations(Jobs)
=============================================================================
