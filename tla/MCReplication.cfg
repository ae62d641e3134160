SPECIFICATION FairSpec
CONSTANTS
  Sids = {4, 5}
  Starters = {5}
  MaxPatches = 4
  MaxSpan = 2
INVARIANTS
  TypeOK
  DisjointIds
  RootIsLatest
  IInv
PROPERTIES
  Idempotent
  EventuallyConverged
