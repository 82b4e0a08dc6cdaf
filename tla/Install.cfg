SPECIFICATION FairSpec
CONSTANTS
  Playbooks <- SomePlaybooks
  Configs <- AllConfigs
  Targets = {"all", "ood", "ad"}
  MayTag = TRUE
  MayEdit = TRUE
  MaxUpsets = 2
INVARIANT TypeOK
PROPERTIES SkipsOnlyWhatRan RunsInOrder InstalledWhenDone MarkersEarned Recovers
