SPECIFICATION Spec
CONSTANTS
  Jobs = {j1, j2, j3}
  Nodes <- SmallHost
  CpusOf <- SmallHostCpus
  CoreOf <- SmallHostCores
  MemOf <- SmallHostMem
  Requests <- SmallRequests
  UseHyperthreads = TRUE
  NcpusAreCores = FALSE
SYMMETRY Symm
INVARIANTS TypeOK PlacementComplete OfferKept ShrinkFits
PROPERTIES ImplementsLease StaysOnNode
