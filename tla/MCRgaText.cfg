SPECIFICATION Spec
CONSTANTS
  Sids = {4, 5, 6}
  Author = 5
  InitLen = 1
  MaxOps = 3
  MaxRun = 1
  MaxReloads = 1
  Savers = {5}
INVARIANTS
  Converged
  LinksLead
  DeletesReach
  Idempotent
PROPERTIES
  ImplementsTextCrdt
