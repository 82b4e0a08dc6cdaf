--------------------------- MODULE MCMemoryLimits ---------------------------
(* Instances of MemoryLimits for TLC. *)
EXTENDS MemoryLimits

None == -1

Host(t1, t2, swap) == [total |-> [n \in Nodes |-> IF n = 0 THEN t1 ELSE t2], swap |-> swap]

\* Without swap and with; NUMA nodes of different sizes, not all whole megabytes.
SmallHosts == {Host(9, 12, 0), Host(9, 12, 6), Host(8, 8, 0)}

Config(memory, memsw, soft, vnodes, percent, amount, vamount, default, vdefault) ==
  [memory |-> memory, memsw |-> memsw, soft |-> soft, vnodes |-> vnodes,
   percent |-> percent, amount |-> amount, vpercent |-> 0, vamount |-> vamount,
   default |-> default, vdefault |-> vdefault]

\* Both controllers, either alone or none, with and without a vnode for each NUMA
\* node, with more or less memory reserved, or all of it, and with soft limits.
SmallConfigs ==
  {Config(TRUE, TRUE, FALSE, FALSE, 0, a, v, 4, 8): a \in {0, 2}, v \in {0, 4}}
  \cup {Config(TRUE, TRUE, FALSE, FALSE, p, 0, 0, None, None): p \in {50, 100}}
  \cup {Config(TRUE, TRUE, FALSE, FALSE, 0, 0, 40, None, None)}
  \cup {Config(TRUE, FALSE, FALSE, vnodes, 0, 2, 0, None, None): vnodes \in BOOLEAN}
  \cup {Config(FALSE, TRUE, FALSE, FALSE, 0, a, 0, None, None): a \in {0, 2}}
  \cup {Config(TRUE, TRUE, FALSE, TRUE, 0, 2, 0, None, None),
        Config(FALSE, FALSE, FALSE, FALSE, 0, 2, 0, None, None)}
  \cup {Config(TRUE, TRUE, TRUE, FALSE, 0, 2, 0, None, None)}
SmallSizes == {2, 8, 13, 20, 28}
=============================================================================
