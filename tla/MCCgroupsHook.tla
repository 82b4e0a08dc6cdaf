--------------------------- MODULE MCCgroupsHook ---------------------------
(* Instances of CgroupsHook for TLC. *)
EXTENDS CgroupsHook, TLC

OneSize == {1}
TwoSizes == {1, 2}
Symm == Permutations(Jobs) \cup Permutations(Cpus)
=============================================================================
