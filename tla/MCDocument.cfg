SPECIFICATION Spec
CONSTANTS
  Sids <- MCTwo
  Author = 5
  Scenarios <- MCScenarios
  Keys = {"a"}
  Indices = {0, 1}
  Codecs = {"binary", "compact", "verbose", "sidecar", "indexed"}
INVARIANTS
  ViewConverges
  SnapshotWhole
PROPERTY ShowsOnce
