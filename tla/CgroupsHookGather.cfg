CONSTANTS
  Jobs = {j1, j2}
  Cpus = {c1, c2}
  Sizes <- TwoSizes
  Periodic = Periodic
  NoOne = NoOne
  SystemdSlices = FALSE
  GatherMayFail = TRUE
  Leftovers = {"stuck"}
  Optional = {}
  MomWaits = TRUE
  MaxBegins = 2
  MaxKills = 0
SYMMETRY Symm
SPECIFICATION Spec
INVARIANTS LiveJobKeepsCgroup
