CONSTANTS
  Nodes = {0, 1}
  Hosts <- SmallHosts
  Configs <- SmallConfigs
  Sizes <- SmallSizes
  Absent <- None
  Unlimited = 99
  MB = 2
  MaxStarts = 2
SPECIFICATION Spec
INVARIANTS TypeOK StartupSettles OfferHolds KernelAgrees NoSwapGranted
CHECK_DEADLOCK FALSE
