CONSTANTS
  Jobs = {j1, j2}
  Cpus = {c1, c2}
  Sizes <- TwoSizes
  Periodic = Periodic
  NoOne = NoOne
  SystemdSlices = FALSE
  GatherMayFail = FALSE
  Leftovers = {"stuck"}
  Optional = {"suspend"}
  MomWaits = TRUE
  MaxBegins = 2
  MaxKills = 1
SYMMETRY Symm
SPECIFICATION Spec
INVARIANTS TypeOK ExclusiveCpus OneEntryPerKill LiveJobKeepsCgroup LiveInv
