CONSTANTS
  Jobs = {j1}
  Cpus = {c1}
  Sizes <- OneSize
  Periodic = Periodic
  NoOne = NoOne
  SystemdSlices = FALSE
  GatherMayFail = FALSE
  Leftovers = {"stuck", "nested"}
  Optional = {}
  MomWaits = TRUE
  MaxBegins = 2
  MaxKills = 2
SPECIFICATION FairSpec
PROPERTIES OrphanCleaned OfflineFileCleared LeftoverSwept
