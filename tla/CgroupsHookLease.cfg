CONSTANTS
  Jobs = {j1, j2}
  Cpus = {c1, c2}
  Sizes <- TwoSizes
  Periodic = Periodic
  NoOne = NoOne
  SystemdSlices = TRUE
  GatherMayFail = FALSE
  Leftovers = {"nested"}
  Optional = {"attach", "resize", "suspend", "admin"}
  MomWaits = TRUE
  MaxBegins = 2
  MaxKills = 0
SYMMETRY Symm
SPECIFICATION Spec
PROPERTIES ImplementsLease
