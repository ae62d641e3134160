SPECIFICATION Spec
CONSTANTS
  Sids = {4, 5}
  Author = 5
  InitLen = 2
  MaxPatches = 3
  MaxAdvances = 1
INVARIANT ReplayIsEnd
PROPERTY UndoRestores
