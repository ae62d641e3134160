SPECIFICATION Spec
CONSTANTS
  Sids = {4, 5}
  Author = 5
  InitLen = 2
  MaxOps = 2
  MaxRun = 1
  MaxReloads = 1
  Savers = {4, 5}
INVARIANT DeletesAllCovered
