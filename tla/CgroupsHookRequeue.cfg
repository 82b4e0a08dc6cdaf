CONSTANTS
  Jobs = {j1, j2}
  Cpus = {c1, c2}
  Sizes <- TwoSizes
  Periodic = Periodic
  NoOne = NoOne
  SystemdSlices = FALSE
  GatherMayFail = FALSE
  Leftovers = {"stuck"}
  Optional = {}
  MomWaits = TRUE
  MaxBegins = 3
  MaxKills = 1
SPECIFICATION Spec
PROPERTIES RequeuedOnlyWhenShort
