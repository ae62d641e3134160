SPECIFICATION Spec
CONSTANTS
  Sids <- MCTwo
  Me = 5
  Peer = 4
  Scenarios <- MCScenarios
INVARIANTS
  IdsFresh
  DraftAgrees
  CompactAgrees
  RebaseKeepsMeaning
PROPERTIES
  MergeReaches
