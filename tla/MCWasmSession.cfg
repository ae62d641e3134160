SPECIFICATION Spec
CONSTANTS
  Sids = {4, 5}
  Starters = {5}
  Scalars = {a, b}
  MaxEdits = 3
  MaxReloads = 1
  MaxCareless = 1
SYMMETRY ScalarSymmetry
INVARIANTS
  ViewsAgree
  NothingLost
  PatchKeepsIds
PROPERTIES
  SnapshotKeepsIds
