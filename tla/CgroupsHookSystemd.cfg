CONSTANTS
  Jobs = {j1}
  Cpus = {c1}
  Sizes <- OneSize
  Periodic = Periodic
  NoOne = NoOne
  SystemdSlices = TRUE
  GatherMayFail = FALSE
  Leftovers = {"stuck"}
  Optional = {}
  MomWaits = TRUE
  MaxBegins = 2
  MaxKills = 1
SPECIFICATION FairSpec
PROPERTIES OrphanCleaned
